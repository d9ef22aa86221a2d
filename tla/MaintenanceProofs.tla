-------------------------- MODULE MaintenanceProofs --------------------------
(***************************************************************************)
(* Proofs about SchemaUpgrade and Rotation.                                *)
(*                                                                         *)
(* The upgrade, for any script files that fit an empty database, any       *)
(* deployment and any interruptions.  UpgradeIInv says of a process that   *)
(* is alone that the tables of a file are those of the recorded statements *)
(* or of one more (AppliedOrOneMore), that it counts what is recorded, and *)
(* that the files it has behind it are recorded to their end.  It is kept  *)
(* because a statement that is executed once more fails as little as the   *)
(* first time and changes nothing (ApplyTwice), and because FEDERATED, on  *)
(* or off when a statement is executed, decides about oid columns and      *)
(* nothing else (ApplyAlike).  That it panics over oid columns only rests  *)
(* on SteadyInv: until FEDERATED is switched on the tables are, their oid  *)
(* columns included, those of a deployment that never had it otherwise.    *)
(* What a file's statements add up to is a recursive function of their     *)
(* number; the lemmas about it go by induction up to the length of the     *)
(* file (UpTo).                                                            *)
(*                                                                         *)
(* The rotation, for any configurations and any number of starts and       *)
(* interruptions.  A run leaves a step's tables alone when the table       *)
(* settings says so, so its result is right only because the settings are: *)
(* RotationIInv says that the value under a step's name is what its tables *)
(* have unless the step is in unrecorded (SettingsAreTrue).  That a tie of *)
(* two values under one name does no harm rests on which values a run can  *)
(* have put there before (RecordedInThisRun), and on the list of steps:    *)
(* two steps with one name are of different kinds, and two of one kind     *)
(* have no table in common.                                                *)
(***************************************************************************)
EXTENDS SchemaUpgrade, Rotation, FiniteSetTheorems, WellFoundedInduction, NaturalsInduction, TLAPS

(* Induction up to a bound, from the least number that is not in S. *)
LEMMA UpTo ==
  ASSUME NEW N \in Nat, NEW S, 0 \in S, \A m \in 0..(N - 1) : m \in S => m + 1 \in S
  PROVE  \A m \in 0..N : m \in S
<1> DEFINE B == (0..N) \ S
<1> SUFFICES ASSUME B # {} PROVE FALSE
  OBVIOUS
<1>1. B \subseteq Nat
  OBVIOUS
<1>2. PICK x \in B : \A y \in B : <<y, x>> \notin OpToRel(<, Nat)
  BY <1>1, NatLessThanWellFounded, WFMin
<1>3. \A y \in B : ~(y < x)
  BY <1>1, <1>2 DEF OpToRel
<1>4. x \in 1..N /\ x - 1 \in 0..(N - 1) /\ x - 1 < x /\ (x - 1) + 1 = x
  OBVIOUS
<1>5. x - 1 \notin B
  BY <1>3, <1>4
<1>6. x - 1 \in S
  BY <1>4, <1>5
<1> QED BY <1>4, <1>6

Schemas == [Names -> SUBSET Columns]

(* The schema after each statement of a file, up to the m-th. *)
IsReplay(g, f, isFed, m) ==
  g = [i \in 0..m |-> IF i = 0 THEN NoTables ELSE Apply(Scripts[f][i], g[i - 1], isFed)]

LEMMA StepsExist ==
  ASSUME NEW f \in Keys, NEW isFed \in BOOLEAN
  PROVE  \E g : IsReplay(g, f, isFed, Len(Scripts[f]))
<1> DEFINE N == Len(Scripts[f])
           S == {m \in 0..N : \E g : IsReplay(g, f, isFed, m)}
<1>1. N \in Nat
  BY SchemaAssumption
<1>2. 0 \in S
  <2> DEFINE g == [i \in 0..0 |-> NoTables]
  <2>1. IsReplay(g, f, isFed, 0)
    BY DEF IsReplay
  <2> QED BY <1>1, <2>1
<1>3. ASSUME NEW m \in 0..(N - 1), m \in S PROVE m + 1 \in S
  <2>1. PICK g : IsReplay(g, f, isFed, m)
    BY <1>3
  <2> DEFINE h == [i \in 0..(m + 1) |-> IF i = m + 1 THEN Apply(Scripts[f][m + 1], g[m], isFed)
                                        ELSE g[i]]
  <2>2. ASSUME NEW i \in 0..(m + 1)
        PROVE  h[i] = IF i = 0 THEN NoTables ELSE Apply(Scripts[f][i], h[i - 1], isFed)
    <3>1. CASE i = m + 1
      <4>1. h[i] = Apply(Scripts[f][m + 1], g[m], isFed) /\ i # 0
        BY <1>1, <3>1
      <4>2. i - 1 = m /\ h[m] = g[m]
        BY <1>1, <3>1
      <4> HIDE DEF h
      <4> QED BY <3>1, <4>1, <4>2
    <3>2. CASE i = 0
      <4>1. h[0] = g[0]
        BY <1>1
      <4>2. g[0] = NoTables
        BY <2>1 DEF IsReplay
      <4> HIDE DEF h
      <4> QED BY <3>2, <4>1, <4>2
    <3>3. CASE i \in 1..m
      <4>1. h[i] = g[i] /\ h[i - 1] = g[i - 1] /\ i # 0 /\ i \in 0..m
        BY <1>1, <3>3
      <4>2. g[i] = Apply(Scripts[f][i], g[i - 1], isFed)
        BY <2>1, <4>1 DEF IsReplay
      <4> HIDE DEF h
      <4> QED BY <4>1, <4>2
    <3> QED BY <1>1, <3>1, <3>2, <3>3
  <2>3. h = [i \in 0..(m + 1) |-> h[i]]
    OBVIOUS
  <2> HIDE DEF h
  <2>4. IsReplay(h, f, isFed, m + 1)
    BY <2>2, <2>3 DEF IsReplay
  <2> QED BY <1>1, <2>4
<1>4. N \in S
  <2> HIDE DEF S
  <2>1. \A m \in 0..N : m \in S
    BY <1>1, <1>2, <1>3, UpTo
  <2> QED BY <1>1, <2>1
<1> QED BY <1>4

(* Replay satisfies the equation that defines it. *)
LEMMA ReplaySteps ==
  ASSUME NEW f \in Keys, NEW isFed \in BOOLEAN
  PROVE  /\ Replay(f, 0, isFed) = NoTables
         /\ \A n \in 1..Len(Scripts[f]) :
              Replay(f, n, isFed) = Apply(Scripts[f][n], Replay(f, n - 1, isFed), isFed)
<1> DEFINE N == Len(Scripts[f])
           g == CHOOSE h : IsReplay(h, f, isFed, N)
<1>1. N \in Nat
  BY SchemaAssumption
<1>2. IsReplay(g, f, isFed, N)
  BY StepsExist
<1>3. \A n : Replay(f, n, isFed) = g[n]
  BY DEF Replay, IsReplay
<1> HIDE DEF g
<1>4. g[0] = NoTables
  BY <1>1, <1>2 DEF IsReplay
<1>5. \A n \in 1..N : g[n] = Apply(Scripts[f][n], g[n - 1], isFed)
  <2> SUFFICES ASSUME NEW n \in 1..N PROVE g[n] = Apply(Scripts[f][n], g[n - 1], isFed)
    OBVIOUS
  <2>1. n \in 0..N /\ n # 0
    BY <1>1
  <2> QED BY <1>2, <2>1 DEF IsReplay
<1> QED BY <1>3, <1>4, <1>5
-----------------------------------------------------------------------------
(* What a statement does to a schema. *)

(* d and e have the same tables of file f, with the same columns but for   *)
(* oid.                                                                    *)
Alike(f, d, e) ==
  \A x \in FileNames(f) : Shape(d, x) = Shape(e, x) /\ (d[x] = {} <=> e[x] = {})

LEMMA Statements ==
  ASSUME NEW f \in Keys, NEW n \in 1..Len(Scripts[f])
  PROVE  /\ Scripts[f][n] \in Statement
         /\ Scripts[f][n] \in ToSet(Scripts[f])
         /\ Scripts[f][n].name \in FileNames(f) /\ Scripts[f][n].to \in FileNames(f)
<1>1. Scripts[f] \in Seq(Statement)
  BY SchemaAssumption
<1>2. n \in DOMAIN Scripts[f]
  BY <1>1
<1>3. Scripts[f][n] \in ToSet(Scripts[f])
  BY <1>2 DEF ToSet
<1> QED BY <1>1, <1>2, <1>3 DEF FileNames

LEMMA FileNamesAreNames ==
  ASSUME NEW f \in Keys
  PROVE  FileNames(f) \subseteq Names
<1>1. Scripts[f] \in Seq(Statement)
  BY SchemaAssumption
<1>2. \A s \in ToSet(Scripts[f]) : s \in Statement
  BY <1>1 DEF ToSet
<1>3. \A s \in Statement : s.name \in Names /\ s.to \in Names
  BY DEF Statement
<1> QED BY <1>2, <1>3 DEF FileNames

LEMMA ApplyType ==
  ASSUME NEW s \in Statement, NEW d \in Schemas, NEW isFed \in BOOLEAN
  PROVE  Apply(s, d, isFed) \in Schemas
<1>1. s.name \in Names /\ s.to \in Names /\ s.cols \subseteq Columns /\ "oid" \in Columns
  BY SchemaAssumption DEF Statement
<1>2. d \in [Names -> SUBSET Columns]
  BY DEF Schemas
<1>3. \A c \in SUBSET Columns, x \in Names : [d EXCEPT ![x] = c] \in [Names -> SUBSET Columns]
  BY <1>2
<1>4. [d EXCEPT ![s.to] = d[s.name], ![s.name] = {}] \in [Names -> SUBSET Columns]
  BY <1>1, <1>2
<1>5. d[s.name] \cup s.cols \in SUBSET Columns
      /\ s.cols \cup (IF isFed THEN {"oid"} ELSE {}) \in SUBSET Columns
      /\ {} \in SUBSET Columns
  BY <1>1, <1>2
<1> QED BY <1>1, <1>2, <1>3, <1>4, <1>5 DEF Apply, Schemas

(* A statement leaves the tables alone that it does not name. *)
LEMMA ApplyFrame ==
  ASSUME NEW s \in Statement, NEW d \in Schemas, NEW isFed \in BOOLEAN,
         NEW x \in Names, x # s.name, x # s.to
  PROVE  Apply(s, d, isFed)[x] = d[x]
BY DEF Apply, Schemas, Statement

(* The four statements on the tables they name, whether or not they are    *)
(* skipped, as far as Alike can tell.                                      *)
LEMMA ApplyAlike ==
  ASSUME NEW f \in Keys, NEW n \in 1..Len(Scripts[f]), NEW d \in Schemas, NEW e \in Schemas,
         NEW b \in BOOLEAN, NEW c \in BOOLEAN, Alike(f, d, e), ~Collides(Scripts[f][n], e)
  PROVE  /\ ~Collides(Scripts[f][n], d)
         /\ Alike(f, Apply(Scripts[f][n], d, b), Apply(Scripts[f][n], e, c))
<1>1. PICK s : s = Scripts[f][n]
  OBVIOUS
<1>2. /\ s \in Statement /\ s.name \in FileNames(f) /\ s.to \in FileNames(f)
      /\ s.op = "create" => s.cols \ {"oid"} # {}
      /\ s.guarded => s.op = "alter" /\ s.cols = {"oid"}
  BY <1>1, Statements, ScriptsAssumption
<1>3. /\ s.op \in {"create", "alter", "rename", "drop"} /\ s.name \in Names /\ s.to \in Names
      /\ s.guarded \in BOOLEAN
  BY <1>2 DEF Statement
<1>4. ~Collides(s, d) /\ ~Collides(s, e)
  BY <1>1, <1>2 DEF Collides, Alike
<1>5. FileNames(f) \subseteq Names
  BY FileNamesAreNames
<1>6. ASSUME NEW x \in FileNames(f)
      PROVE  /\ Shape(Apply(s, d, b), x) = Shape(Apply(s, e, c), x)
             /\ Apply(s, d, b)[x] = {} <=> Apply(s, e, c)[x] = {}
  <2>1. Shape(d, x) = Shape(e, x) /\ (d[x] = {} <=> e[x] = {})
    BY DEF Alike
  <2>2. /\ Shape(d, s.name) = Shape(e, s.name) /\ (d[s.name] = {} <=> e[s.name] = {})
        /\ Shape(d, s.to) = Shape(e, s.to) /\ (d[s.to] = {} <=> e[s.to] = {})
    BY <1>2 DEF Alike
  <2>3. CASE s.op = "create"
    BY <1>2, <1>3, <1>5, <2>1, <2>2, <2>3 DEF Apply, Shape, Schemas, Skipped
  <2>4. CASE s.op = "alter"
    BY <1>2, <1>3, <1>4, <1>5, <2>1, <2>2, <2>4 DEF Apply, Shape, Schemas, Skipped, Collides
  <2>5. CASE s.op = "rename"
    BY <1>2, <1>3, <1>5, <2>1, <2>2, <2>5 DEF Apply, Shape, Schemas, Skipped
  <2>6. CASE s.op = "drop"
    BY <1>2, <1>3, <1>5, <2>1, <2>2, <2>6 DEF Apply, Shape, Schemas, Skipped
  <2> QED BY <1>3, <2>3, <2>4, <2>5, <2>6
<1> QED BY <1>1, <1>4, <1>6 DEF Alike

(* A statement that is repeated does not fail and changes nothing.         *)
LEMMA ApplyTwice ==
  ASSUME NEW f \in Keys, NEW n \in 1..Len(Scripts[f]), NEW e \in Schemas,
         NEW b \in BOOLEAN, NEW c \in BOOLEAN, ~Collides(Scripts[f][n], e)
  PROVE  LET d == Apply(Scripts[f][n], e, c)
         IN  ~Collides(Scripts[f][n], d) /\ Alike(f, Apply(Scripts[f][n], d, b), d)
<1>1. PICK s : s = Scripts[f][n]
  OBVIOUS
<1>2. /\ s \in Statement /\ s.name \in FileNames(f) /\ s.to \in FileNames(f)
      /\ s.op = "create" => s.cols \ {"oid"} # {}
      /\ s.guarded => s.op = "alter" /\ s.cols = {"oid"}
  BY <1>1, Statements, ScriptsAssumption
<1>3. /\ s.op \in {"create", "alter", "rename", "drop"} /\ s.name \in Names /\ s.to \in Names
      /\ s.guarded \in BOOLEAN
  BY <1>2 DEF Statement
<1>4. PICK d \in Schemas : d = Apply(s, e, c)
  BY <1>2, ApplyType
<1>5. FileNames(f) \subseteq Names
  BY FileNamesAreNames
<1>6. ASSUME s.op = "create"
      PROVE  d[s.name] # {} /\ ~Collides(s, d)
  BY <1>2, <1>3, <1>4, <1>6 DEF Apply, Schemas, Skipped, Collides
<1>7. ASSUME s.op = "alter"
      PROVE  d[s.name] # {} /\ ~Collides(s, d) /\ (c => s.cols \subseteq d[s.name])
             /\ (~s.guarded => s.cols \subseteq d[s.name])
  BY <1>1, <1>2, <1>3, <1>4, <1>7 DEF Apply, Schemas, Skipped, Collides
<1>8. ASSUME s.op = "rename"
      PROVE  d[s.name] = {} /\ ~Collides(s, d)
  BY <1>2, <1>3, <1>4, <1>8 DEF Apply, Schemas, Skipped, Collides
<1>9. ASSUME s.op = "drop"
      PROVE  d[s.name] = {} /\ ~Collides(s, d)
  BY <1>2, <1>3, <1>4, <1>9 DEF Apply, Schemas, Skipped, Collides
<1>10. ASSUME NEW x \in FileNames(f)
       PROVE  /\ Shape(Apply(s, d, b), x) = Shape(d, x)
              /\ Apply(s, d, b)[x] = {} <=> d[x] = {}
  <2>1. x \in Names
    BY <1>5
  <2> QED BY <1>2, <1>3, <1>6, <1>7, <1>8, <1>9, <2>1 DEF Apply, Shape, Schemas, Skipped
<1> QED BY <1>1, <1>3, <1>4, <1>6, <1>7, <1>8, <1>9, <1>10 DEF Alike
-----------------------------------------------------------------------------
(* The schema after the first statements of a file.                        *)

LEMMA LenIsNat == \A f \in Keys : Len(Scripts[f]) \in Nat
BY SchemaAssumption

LEMMA ReplayType ==
  ASSUME NEW f \in Keys, NEW b \in BOOLEAN
  PROVE  \A n \in 0..Len(Scripts[f]) : Replay(f, n, b) \in Schemas
<1> DEFINE N == Len(Scripts[f])
           S == {n \in 0..N : Replay(f, n, b) \in Schemas}
<1>1. N \in Nat
  BY LenIsNat
<1>2. 0 \in S
  BY <1>1, ReplaySteps DEF Schemas, NoTables
<1>3. ASSUME NEW m \in 0..(N - 1), m \in S PROVE m + 1 \in S
  <2>1. m + 1 \in 1..N /\ (m + 1) - 1 = m /\ m + 1 \in 0..N
    BY <1>1
  <2>2. Replay(f, m + 1, b) = Apply(Scripts[f][m + 1], Replay(f, m, b), b)
    BY <2>1, ReplaySteps
  <2>3. Scripts[f][m + 1] \in Statement
    BY <2>1, Statements
  <2> QED BY <1>3, <2>1, <2>2, <2>3, ApplyType
<1>4. \A m \in 0..N : m \in S
  <2> HIDE DEF S
  <2> QED BY <1>1, <1>2, <1>3, UpTo
<1> QED BY <1>4

(* A file makes no table that it does not name.                            *)
LEMMA ReplayFrame ==
  ASSUME NEW f \in Keys, NEW b \in BOOLEAN, NEW x \in Names, x \notin FileNames(f)
  PROVE  \A n \in 0..Len(Scripts[f]) : Replay(f, n, b)[x] = {}
<1> DEFINE N == Len(Scripts[f])
           S == {n \in 0..N : Replay(f, n, b)[x] = {}}
<1>1. N \in Nat
  BY LenIsNat
<1>2. 0 \in S
  BY <1>1, ReplaySteps DEF NoTables
<1>3. ASSUME NEW m \in 0..(N - 1), m \in S PROVE m + 1 \in S
  <2>1. m + 1 \in 1..N /\ (m + 1) - 1 = m /\ m + 1 \in 0..N /\ m \in 0..N
    BY <1>1
  <2>2. Replay(f, m + 1, b) = Apply(Scripts[f][m + 1], Replay(f, m, b), b)
    BY <2>1, ReplaySteps
  <2>3. /\ Scripts[f][m + 1] \in Statement
        /\ x # Scripts[f][m + 1].name /\ x # Scripts[f][m + 1].to
    BY <2>1, Statements
  <2>4. Replay(f, m, b) \in Schemas
    BY <2>1, ReplayType
  <2>5. Replay(f, m + 1, b)[x] = Replay(f, m, b)[x]
    BY <2>2, <2>3, <2>4, ApplyFrame
  <2> QED BY <1>3, <2>1, <2>5
<1>4. \A m \in 0..N : m \in S
  <2> HIDE DEF S
  <2> QED BY <1>1, <1>2, <1>3, UpTo
<1> QED BY <1>4

(* FEDERATED decides about the oid columns and about nothing else.         *)
LEMMA ReplayAlike ==
  ASSUME NEW f \in Keys, NEW b \in BOOLEAN
  PROVE  \A n \in 0..Len(Scripts[f]) : Alike(f, Replay(f, n, b), Replay(f, n, FALSE))
<1> DEFINE N == Len(Scripts[f])
           S == {n \in 0..N : Alike(f, Replay(f, n, b), Replay(f, n, FALSE))}
<1>1. N \in Nat
  BY LenIsNat
<1>2. 0 \in S
  <2>1. Replay(f, 0, b) = NoTables /\ Replay(f, 0, FALSE) = NoTables
    BY ReplaySteps
  <2>2. Alike(f, NoTables, NoTables)
    BY DEF Alike
  <2>3. Alike(f, Replay(f, 0, b), Replay(f, 0, FALSE))
    BY <2>1, <2>2 DEF Alike
  <2>4. 0 \in 0..N
    BY <1>1
  <2> QED BY <2>3, <2>4, Zenon
<1>3. ASSUME NEW m \in 0..(N - 1), m \in S PROVE m + 1 \in S
  <2>1. m + 1 \in 1..N /\ (m + 1) - 1 = m /\ m + 1 \in 0..N /\ m \in 0..N
    BY <1>1
  <2>2. /\ Replay(f, m + 1, b) = Apply(Scripts[f][m + 1], Replay(f, m, b), b)
        /\ Replay(f, m + 1, FALSE) = Apply(Scripts[f][m + 1], Replay(f, m, FALSE), FALSE)
    BY <2>1, ReplaySteps
  <2>3. Replay(f, m, b) \in Schemas /\ Replay(f, m, FALSE) \in Schemas
    BY <2>1, ReplayType
  <2>4. ~Collides(Scripts[f][m + 1], Replay(f, m, FALSE))
    BY <2>1, ScriptsAssumption DEF Fails
  <2>5. Alike(f, Replay(f, m, b), Replay(f, m, FALSE))
    BY <1>3
  <2>6. Alike(f, Apply(Scripts[f][m + 1], Replay(f, m, b), b),
                 Apply(Scripts[f][m + 1], Replay(f, m, FALSE), FALSE))
    BY <2>1, <2>3, <2>4, <2>5, ApplyAlike
  <2> QED BY <2>1, <2>2, <2>6
<1>4. \A m \in 0..N : m \in S
  <2> HIDE DEF S
  <2> QED BY <1>1, <1>2, <1>3, UpTo
<1> QED BY <1>4

(* The database that an earlier release has left, table by table.          *)
LEMMA EarlierRelease ==
  ASSUME Init, \A f \in Keys : ver[f] \in 0..Len(Scripts[f]), federated \in BOOLEAN
  PROVE  /\ db \in Schemas
         /\ \A f \in Keys : Alike(f, db, Replay(f, ver[f], FALSE))
         /\ \A f \in Keys : \A x \in FileNames(f) : db[x] = Replay(f, ver[f], federated)[x]
<1>1. \A f \in Keys : Replay(f, ver[f], federated) \in Schemas
  BY ReplayType
<1>2. \A f \in Keys, x \in Names : Replay(f, ver[f], federated)[x] \subseteq Columns
  BY <1>1 DEF Schemas
<1>3. db = [x \in Names |-> UNION {Replay(f, ver[f], federated)[x] : f \in Keys}]
  BY DEF Init
<1>4. db \in Schemas
  BY <1>2, <1>3 DEF Schemas
<1>5. ASSUME NEW f \in Keys, NEW x \in FileNames(f)
      PROVE  db[x] = Replay(f, ver[f], federated)[x]
  <2>1. x \in Names
    BY FileNamesAreNames
  <2>2. \A g \in Keys : g # f => Replay(g, ver[g], federated)[x] = {}
    <3> SUFFICES ASSUME NEW g \in Keys, g # f PROVE Replay(g, ver[g], federated)[x] = {}
      OBVIOUS
    <3>1. x \notin FileNames(g)
      BY ScriptsAssumption
    <3> QED BY <2>1, <3>1, ReplayFrame
  <2>3. db[x] = UNION {Replay(g, ver[g], federated)[x] : g \in Keys}
    BY <1>3, <2>1
  <2>4. ASSUME NEW c \in db[x] PROVE c \in Replay(f, ver[f], federated)[x]
    <3>1. PICK g \in Keys : c \in Replay(g, ver[g], federated)[x]
      BY <2>3
    <3> QED BY <2>2, <3>1
  <2>5. Replay(f, ver[f], federated)[x] \subseteq db[x]
    BY <2>3
  <2> QED BY <2>4, <2>5
<1>6. ASSUME NEW f \in Keys PROVE Alike(f, db, Replay(f, ver[f], FALSE))
  <2>1. Alike(f, Replay(f, ver[f], federated), Replay(f, ver[f], FALSE))
    BY ReplayAlike
  <2> QED BY <1>5, <2>1 DEF Alike, Shape
<1> QED BY <1>4, <1>5, <1>6
-----------------------------------------------------------------------------
(* The same, oid columns included, as long as FEDERATED does not change.   *)

Same(f, d, e) == \A x \in FileNames(f) : d[x] = e[x]

LEMMA ApplySame ==
  ASSUME NEW f \in Keys, NEW n \in 1..Len(Scripts[f]), NEW d \in Schemas, NEW e \in Schemas,
         NEW b \in BOOLEAN, Same(f, d, e), ~Fails(Scripts[f][n], e, b)
  PROVE  /\ ~Fails(Scripts[f][n], d, b)
         /\ Same(f, Apply(Scripts[f][n], d, b), Apply(Scripts[f][n], e, b))
<1>1. PICK s : s = Scripts[f][n]
  OBVIOUS
<1>2. /\ s \in Statement /\ s.name \in FileNames(f) /\ s.to \in FileNames(f)
      /\ s.keys \subseteq FileNames(f)
  BY <1>1, Statements, ScriptsAssumption
<1>3. s.name \in Names /\ s.to \in Names
  BY <1>2 DEF Statement
<1>4. ~Fails(s, d, b)
  BY <1>1, <1>2 DEF Fails, Collides, LacksOid, Same
<1>5. FileNames(f) \subseteq Names
  BY FileNamesAreNames
<1>6. ASSUME NEW x \in FileNames(f) PROVE Apply(s, d, b)[x] = Apply(s, e, b)[x]
  <2>1. d[x] = e[x] /\ d[s.name] = e[s.name] /\ d[s.to] = e[s.to]
    BY <1>2 DEF Same
  <2> QED BY <1>3, <1>5, <2>1 DEF Apply, Schemas
<1> QED BY <1>1, <1>4, <1>6 DEF Same

LEMMA ApplyTwiceSame ==
  ASSUME NEW f \in Keys, NEW n \in 1..Len(Scripts[f]), NEW e \in Schemas,
         NEW b \in BOOLEAN, ~Fails(Scripts[f][n], e, b)
  PROVE  LET d == Apply(Scripts[f][n], e, b)
         IN  ~Fails(Scripts[f][n], d, b) /\ Same(f, Apply(Scripts[f][n], d, b), d)
<1>1. PICK s : s = Scripts[f][n]
  OBVIOUS
<1>2. /\ s \in Statement
      /\ s.op = "create" => s.cols \ {"oid"} # {}
      /\ s.guarded => s.op = "alter" /\ s.cols = {"oid"}
      /\ s.keys # {} => s.op \in {"create", "alter"} /\ s.keys \subseteq FileNames(f)
  BY <1>1, Statements, ScriptsAssumption
<1>3. /\ s.op \in {"create", "alter", "rename", "drop"} /\ s.name \in Names /\ s.to \in Names
      /\ s.guarded \in BOOLEAN
  BY <1>2 DEF Statement
<1>4. PICK d \in Schemas : d = Apply(s, e, b)
  BY <1>2, ApplyType
<1>5. FileNames(f) \subseteq Names
  BY FileNamesAreNames
<1>6. ~Collides(s, e) /\ ~LacksOid(s, e, b)
  BY <1>1 DEF Fails
<1>7. ~Collides(s, d)
  BY <1>1, <1>4, <1>6, ApplyTwice
<1>8. ~LacksOid(s, d, b)
  <2> SUFFICES ASSUME b, NEW x \in s.keys PROVE "oid" \in d[x]
    BY DEF LacksOid
  <2>1. s.op \in {"create", "alter"} /\ x \in Names /\ "oid" \in e[x]
    BY <1>2, <1>5, <1>6 DEF LacksOid
  <2> QED BY <1>3, <1>4, <2>1 DEF Apply, Schemas, Skipped
<1>9. ASSUME NEW x \in FileNames(f) PROVE Apply(s, d, b)[x] = d[x]
  <2>1. x \in Names
    BY <1>5
  <2>2. CASE s.op = "create"
    <3>1. d[s.name] # {}
      BY <1>2, <1>3, <1>4, <2>2 DEF Apply, Schemas, Skipped
    <3> QED BY <1>2, <1>3, <2>1, <2>2, <3>1 DEF Apply, Schemas, Skipped
  <2>3. CASE s.op = "alter"
    BY <1>2, <1>3, <1>4, <2>1, <2>3 DEF Apply, Schemas, Skipped
  <2>4. CASE s.op = "rename"
    <3>1. d[s.name] = {}
      BY <1>2, <1>3, <1>4, <2>4 DEF Apply, Schemas, Skipped
    <3> QED BY <1>2, <1>3, <2>1, <2>4, <3>1 DEF Apply, Schemas, Skipped
  <2>5. CASE s.op = "drop"
    BY <1>2, <1>3, <1>4, <2>1, <2>5 DEF Apply, Schemas, Skipped
  <2> QED BY <1>3, <2>2, <2>3, <2>4, <2>5
<1> QED BY <1>1, <1>4, <1>7, <1>8, <1>9 DEF Fails, Same

(* While FEDERATED stays what it is, the next statement does not fail, and *)
(* neither does the one that is executed once more.                        *)
LEMMA ExecutedOnceSame ==
  ASSUME NEW f \in Keys, NEW n \in 0..(Len(Scripts[f]) - 1), NEW d \in Schemas,
         NEW b \in BOOLEAN,
         Same(f, d, Replay(f, n, b)) \/ Same(f, d, Replay(f, n + 1, b))
  PROVE  /\ ~Fails(Scripts[f][n + 1], d, b)
         /\ Same(f, Apply(Scripts[f][n + 1], d, b), Replay(f, n + 1, b))
<1>1. n + 1 \in 1..Len(Scripts[f]) /\ n \in 0..Len(Scripts[f]) /\ (n + 1) - 1 = n
      /\ n + 1 \in 0..Len(Scripts[f])
  BY LenIsNat
<1>2. PICK m : m = n + 1
  OBVIOUS
<1>3. PICK s : s = Scripts[f][m]
  OBVIOUS
<1>4. PICK e : e = Replay(f, n, b)
  OBVIOUS
<1>5. PICK g : g = Replay(f, m, b)
  OBVIOUS
<1>6. e \in Schemas /\ g \in Schemas
  BY <1>1, <1>2, <1>4, <1>5, ReplayType
<1>7. g = Apply(s, e, b)
  BY <1>1, <1>2, <1>3, <1>4, <1>5, ReplaySteps
<1>8. ~Fails(s, e, b)
  <2>1. \A i \in 1..Len(Scripts[f]) : ~Fails(Scripts[f][i], Replay(f, i - 1, b), b)
    <3>1. CASE b = TRUE
      BY <3>1, ScriptsAssumption
    <3>2. CASE b = FALSE
      BY <3>2, ScriptsAssumption
    <3> QED BY <3>1, <3>2
  <2>2. ~Fails(Scripts[f][m], Replay(f, m - 1, b), b)
    BY <1>1, <1>2, <2>1
  <2> QED BY <1>1, <1>2, <1>3, <1>4, <2>2
<1>9. m \in 1..Len(Scripts[f])
  BY <1>1, <1>2
<1>10. CASE Same(f, d, e)
  BY <1>2, <1>3, <1>5, <1>6, <1>7, <1>8, <1>9, <1>10, ApplySame
<1>11. CASE Same(f, d, g)
  <2>1. ~Fails(s, g, b) /\ Same(f, Apply(s, g, b), g)
    BY <1>3, <1>6, <1>7, <1>8, <1>9, ApplyTwiceSame
  <2>2. ~Fails(s, d, b) /\ Same(f, Apply(s, d, b), Apply(s, g, b))
    BY <1>3, <1>6, <1>9, <1>11, <2>1, ApplySame
  <2>3. Same(f, Apply(s, d, b), g)
    BY <2>1, <2>2 DEF Same
  <2> QED BY <1>2, <1>3, <1>5, <2>2, <2>3
<1> QED BY <1>2, <1>4, <1>5, <1>10, <1>11
-----------------------------------------------------------------------------
(* The inductive invariant. *)

UpgradeTypes ==
  /\ TypeOK
  /\ fleet \subseteq Instances /\ federated \in BOOLEAN
  /\ ver \in [Keys -> Nat] /\ pos \in [Instances -> Nat]
  /\ \A p \in Instances : pc[p] = "record" => More(p)

(* The recorded statements, or one more. *)
AppliedOrOneMore(f) ==
  \/ Alike(f, db, Replay(f, ver[f], FALSE))
  \/ ver[f] < Len(Scripts[f]) /\ Alike(f, db, Replay(f, ver[f] + 1, FALSE))

(* A process that is alone counts what is recorded, and has executed what  *)
(* it is about to record.                                                  *)
CountsTheRecorded(p) ==
  /\ pc[p] \in {"exec", "record"} => pos[p] = ver[k(p)]
  /\ pc[p] = "record" => Alike(k(p), db, Replay(k(p), ver[k(p)] + 1, FALSE))

FilesBehind(p) ==
  IF pc[p] = "down" THEN {}
  ELSE IF pc[p] = "done" THEN Keys
  ELSE {FileOrder[i] : i \in 1..(file[p] - 1)}

AloneInv(p) ==
  /\ \A f \in Keys : AppliedOrOneMore(f)
  /\ CountsTheRecorded(p)
  /\ \A f \in FilesBehind(p) : ver[f] = Len(Scripts[f])

SameOrOneMore(f) ==
  \/ Same(f, db, Replay(f, ver[f], federated))
  \/ ver[f] < Len(Scripts[f]) /\ Same(f, db, Replay(f, ver[f] + 1, federated))

(* A process sees FEDERATED on only after it was switched on, and until    *)
(* then the oid columns of the database are those of its FEDERATED.        *)
SteadyInv(p) ==
  /\ fed[p] => federated
  /\ ~switched =>
       /\ pc[p] # "down" => fed[p] = federated
       /\ \A f \in Keys : SameOrOneMore(f)
       /\ pc[p] = "record" => Same(k(p), db, Replay(k(p), ver[k(p)] + 1, federated))

UpgradeIInv == UpgradeTypes /\ \A p : fleet = {p} => AloneInv(p) /\ SteadyInv(p)

LEMMA AlikeTransitive ==
  ASSUME NEW f, NEW c, NEW d, NEW e, Alike(f, c, d), Alike(f, d, e)
  PROVE  Alike(f, c, e)
BY DEF Alike

(* Executing the next statement, or executing it once more, does not fail  *)
(* and leaves the schema with that statement.                              *)
LEMMA ExecutedOnce ==
  ASSUME NEW f \in Keys, NEW n \in 0..(Len(Scripts[f]) - 1), NEW d \in Schemas,
         NEW b \in BOOLEAN,
         Alike(f, d, Replay(f, n, FALSE)) \/ Alike(f, d, Replay(f, n + 1, FALSE))
  PROVE  /\ ~Collides(Scripts[f][n + 1], d)
         /\ Alike(f, Apply(Scripts[f][n + 1], d, b), Replay(f, n + 1, FALSE))
<1>1. n + 1 \in 1..Len(Scripts[f]) /\ n \in 0..Len(Scripts[f]) /\ (n + 1) - 1 = n
      /\ n + 1 \in 0..Len(Scripts[f])
  BY LenIsNat
<1>2. PICK m : m = n + 1
  OBVIOUS
<1>3. PICK s : s = Scripts[f][m]
  OBVIOUS
<1>4. PICK e : e = Replay(f, n, FALSE)
  OBVIOUS
<1>5. PICK g : g = Replay(f, m, FALSE)
  OBVIOUS
<1>6. e \in Schemas /\ g \in Schemas
  BY <1>1, <1>2, <1>4, <1>5, ReplayType
<1>7. g = Apply(s, e, FALSE)
  BY <1>1, <1>2, <1>3, <1>4, <1>5, ReplaySteps
<1>8. ~Collides(s, e)
  BY <1>1, <1>2, <1>3, <1>4, ScriptsAssumption DEF Fails
<1>9. m \in 1..Len(Scripts[f])
  BY <1>1, <1>2
<1>10. CASE Alike(f, d, e)
  BY <1>2, <1>3, <1>5, <1>6, <1>7, <1>8, <1>9, <1>10, ApplyAlike
<1>11. CASE Alike(f, d, g)
  <2>1. ~Collides(s, g) /\ Alike(f, Apply(s, g, b), g)
    BY <1>3, <1>6, <1>7, <1>8, <1>9, ApplyTwice
  <2>2. ~Collides(s, d) /\ Alike(f, Apply(s, d, b), Apply(s, g, b))
    BY <1>3, <1>6, <1>9, <1>11, <2>1, ApplyAlike
  <2>3. Alike(f, Apply(s, d, b), g)
    BY <2>1, <2>2, AlikeTransitive
  <2> QED BY <1>2, <1>3, <1>5, <2>2, <2>3
<1> QED BY <1>2, <1>4, <1>5, <1>10, <1>11

(* A statement of one file does nothing to the tables of another.          *)
LEMMA OtherFiles ==
  ASSUME NEW f \in Keys, NEW n \in 1..Len(Scripts[f]), NEW d \in Schemas,
         NEW b \in BOOLEAN, NEW g \in Keys, g # f, NEW e, Alike(g, d, e)
  PROVE  Alike(g, Apply(Scripts[f][n], d, b), e)
<1>1. PICK s : s = Scripts[f][n]
  OBVIOUS
<1>2. s \in Statement /\ s.name \in FileNames(f) /\ s.to \in FileNames(f)
  BY <1>1, Statements
<1>3. \A x \in FileNames(g) : x \in Names /\ x # s.name /\ x # s.to
  BY <1>2, FileNamesAreNames, ScriptsAssumption
<1>4. \A x \in FileNames(g) : Apply(s, d, b)[x] = d[x]
  BY <1>2, <1>3, ApplyFrame
<1>5. \A x \in FileNames(g) : Shape(Apply(s, d, b), x) = Shape(d, x)
  BY <1>4 DEF Shape
<1> QED BY <1>1, <1>4, <1>5 DEF Alike

LEMMA FilesAreKeys ==
  /\ Len(FileOrder) \in Nat \ {0} /\ DOMAIN FileOrder = 1..Len(FileOrder)
  /\ \A i \in 1..Len(FileOrder) : FileOrder[i] \in Keys
  /\ \A f \in Keys : \E i \in 1..Len(FileOrder) : f = FileOrder[i]
<1>1. FileOrder \in Seq(Keys) /\ Len(FileOrder) > 0
  BY ScriptsAssumption
<1>2. DOMAIN FileOrder = 1..Len(FileOrder) /\ Len(FileOrder) \in Nat
  BY <1>1
<1> QED BY <1>1, <1>2 DEF Keys, ToSet

LEMMA KeyOf == ASSUME UpgradeTypes, NEW p \in Instances PROVE k(p) \in Keys
BY FilesAreKeys DEF UpgradeTypes, TypeOK, k
-----------------------------------------------------------------------------
LEMMA TypesInit == Init => UpgradeTypes
<1> SUFFICES ASSUME Init PROVE UpgradeTypes
  OBVIOUS
<1>1. PICK d \in Deployments : fleet = d.fleet /\ ver = d.from /\ federated = d.federated
  BY DEF Init
<1>2. /\ fleet \subseteq Instances /\ ver \in [Keys -> Nat] /\ federated \in BOOLEAN
      /\ \A f \in Keys : ver[f] <= Len(Scripts[f])
  <2>1. d \in Deployment
    BY <1>1, SchemaAssumption
  <2>2. d.fleet \subseteq Instances /\ d.from \in [Keys -> Nat] /\ d.federated \in BOOLEAN
    BY <2>1 DEF Deployment
  <2>3. \A f \in Keys : d.from[f] <= Len(Scripts[f])
    BY <1>1, ScriptsAssumption
  <2> QED BY <1>1, <2>2, <2>3
<1>3. \A f \in Keys : ver[f] \in 0..Len(Scripts[f])
  BY <1>2, LenIsNat
<1>4. db \in Schemas
  BY <1>2, <1>3, EarlierRelease
<1>5. pc \in [Instances -> {"down", "read", "exec", "record", "done"}]
      /\ \A p \in Instances : pc[p] = "down"
  BY DEF Init
<1>6. file \in [Instances -> 1..Len(FileOrder)]
  BY FilesAreKeys DEF Init
<1>7. pos \in [Instances -> Nat] /\ fed \in [Instances -> BOOLEAN]
  BY DEF Init
<1>8. \A p \in Instances : pos[p] \in 0..Len(Scripts[k(p)])
  BY <1>6, FilesAreKeys, LenIsNat DEF Init, k
<1>9. switched \in BOOLEAN /\ overtaken \subseteq Names
  BY DEF Init
<1> QED BY <1>2, <1>3, <1>4, <1>5, <1>6, <1>7, <1>8, <1>9 DEF UpgradeTypes, TypeOK, Schemas

(* The step of a process leaves the others where they are. *)
LEMMA TypesStep ==
  ASSUME UpgradeTypes, [Next]_vars
  PROVE  UpgradeTypes'
<1> USE DEF UpgradeTypes, TypeOK
<1>1. ASSUME NEW p \in fleet PROVE p \in Instances /\ k(p) \in Keys
  BY KeyOf
<1>2. \A f \in Keys : Len(Scripts[f]) \in Nat
  BY LenIsNat
<1>3. ASSUME NEW p \in fleet, StartUp(p) PROVE UpgradeTypes'
  <2>1. file' \in [Instances -> 1..Len(FileOrder)]
    BY <1>1, <1>3, FilesAreKeys DEF StartUp
  <2>2. \A q \in Instances : pos'[q] \in 0..Len(Scripts[k(q)']) /\ pos'[q] \in Nat
    <3> SUFFICES ASSUME NEW q \in Instances
                 PROVE  pos'[q] \in 0..Len(Scripts[k(q)']) /\ pos'[q] \in Nat
      OBVIOUS
    <3>1. CASE q = p
      BY <1>1, <1>2, <1>3, <2>1, <3>1, FilesAreKeys DEF StartUp, k
    <3>2. CASE q # p
      <4>1. pos'[q] = pos[q] /\ file'[q] = file[q]
        BY <1>1, <1>3, <3>2 DEF StartUp
      <4>2. k(q)' = k(q)
        BY <4>1 DEF k
      <4> QED BY <4>1, <4>2
    <3> QED BY <3>1, <3>2
  <2>3. \A q \in Instances : pc'[q] = "record" => More(q)'
    <3> SUFFICES ASSUME NEW q \in Instances, pc'[q] = "record" PROVE More(q)'
      OBVIOUS
    <3>1. q # p /\ pc[q] = "record"
      BY <1>1, <1>3 DEF StartUp
    <3>2. pos'[q] = pos[q] /\ file'[q] = file[q]
      BY <1>1, <1>3, <3>1 DEF StartUp
    <3> QED BY <3>1, <3>2 DEF More, k
  <2>4. pos' \in [Instances -> Nat]
    BY <1>1, <1>3 DEF StartUp
  <2>5. fed' \in [Instances -> BOOLEAN]
        /\ pc' \in [Instances -> {"down", "read", "exec", "record", "done"}]
    BY <1>1, <1>3 DEF StartUp
  <2> QED BY <1>3, <2>1, <2>2, <2>3, <2>4, <2>5 DEF StartUp, envVars
<1>4. ASSUME NEW p \in fleet, ReadVer(p) PROVE UpgradeTypes'
  <2>1. \A q \in Instances : k(q)' = k(q)
    BY <1>4 DEF ReadVer, k
  <2>2. \A q \in Instances : pos'[q] \in 0..Len(Scripts[k(q)])
    BY <1>1, <1>4 DEF ReadVer, FirstScript
  <2>3. pos' \in [Instances -> Nat]
    BY <1>1, <1>4 DEF ReadVer, FirstScript
  <2>4. \A q \in Instances : pc'[q] = "record" => More(q)'
    <3> SUFFICES ASSUME NEW q \in Instances, pc'[q] = "record" PROVE More(q)'
      OBVIOUS
    <3>1. q # p /\ pc[q] = "record"
      BY <1>1, <1>4 DEF ReadVer
    <3>2. pos'[q] = pos[q]
      BY <1>1, <1>4, <3>1 DEF ReadVer
    <3> QED BY <2>1, <3>1, <3>2 DEF More
  <2>5. pc' \in [Instances -> {"down", "read", "exec", "record", "done"}]
    BY <1>1, <1>4 DEF ReadVer
  <2> QED BY <1>4, <2>1, <2>2, <2>3, <2>4, <2>5 DEF ReadVer, envVars
<1>5. ASSUME NEW p \in fleet, ExecScript(p) PROVE UpgradeTypes'
  <2>1. \A q \in Instances : k(q)' = k(q) /\ (More(q)' <=> More(q))
    BY <1>5 DEF ExecScript, k, More
  <2>2. pos[p] \in 0..(Len(Scripts[k(p)]) - 1) /\ pos[p] + 1 \in 1..Len(Scripts[k(p)])
    BY <1>1, <1>2, <1>5 DEF ExecScript, More
  <2>3. Current(p) \in Statement
    BY <1>1, <2>2, Statements DEF Current
  <2>4. fed[p] \in BOOLEAN /\ db \in Schemas
    BY <1>1 DEF Schemas
  <2>5. db' \in Schemas
    BY <1>5, <2>3, <2>4, ApplyType DEF ExecScript
  <2>6. \A q \in Instances : pc'[q] = "record" => More(q)
    BY <1>1, <1>5 DEF ExecScript
  <2>7. pc' \in [Instances -> {"down", "read", "exec", "record", "done"}]
    BY <1>1, <1>5 DEF ExecScript
  <2>8. overtaken' \subseteq Names
    <3>1. Current(p).name \in Names
      BY <2>3 DEF Statement
    <3>2. overtaken' \subseteq overtaken \cup {Current(p).name}
      BY <1>5 DEF ExecScript
    <3> QED BY <3>1, <3>2
  <2>9. UNCHANGED <<ver, file, pos, fed, fleet, federated, switched>>
    BY <1>5 DEF ExecScript, envVars
  <2> QED BY <2>1, <2>5, <2>6, <2>7, <2>8, <2>9 DEF Schemas
<1>6. ASSUME NEW p \in fleet, ExecError(p) \/ Crash(p) PROVE UpgradeTypes'
  <2>1. \A q \in Instances : k(q)' = k(q) /\ (More(q)' <=> More(q))
    BY <1>6 DEF ExecError, Crash, k, More
  <2>2. \A q \in Instances : pc'[q] = "record" => pc[q] = "record"
    BY <1>1, <1>6 DEF ExecError, Crash
  <2>3. pc' \in [Instances -> {"down", "read", "exec", "record", "done"}]
    BY <1>1, <1>6 DEF ExecError, Crash
  <2> QED BY <1>6, <2>1, <2>2, <2>3 DEF ExecError, Crash, envVars
<1>7. ASSUME NEW p \in fleet, RecordVer(p) PROVE UpgradeTypes'
  <2>1. \A q \in Instances : k(q)' = k(q)
    BY <1>7 DEF RecordVer, k
  <2>2. More(p) /\ pos[p] \in Nat /\ pos[p] + 1 \in 0..Len(Scripts[k(p)])
    BY <1>1, <1>2, <1>7 DEF RecordVer, More
  <2>3. \A q \in Instances : pos'[q] \in 0..Len(Scripts[k(q)])
    BY <1>1, <1>7, <2>2 DEF RecordVer
  <2>4. pos' \in [Instances -> Nat]
    BY <1>1, <1>7, <2>2 DEF RecordVer
  <2>5. MaxVer(k(p), Recorded(p)) \in 0..Len(Scripts[k(p)])
    BY <1>1, <2>2 DEF MaxVer, Recorded
  <2>6. ver' \in [Keys -> Nat] /\ \A f \in Keys : ver'[f] \in 0..Len(Scripts[f])
    BY <1>1, <1>7, <2>5 DEF RecordVer
  <2>7. \A q \in Instances : pc'[q] = "record" => More(q)'
    <3> SUFFICES ASSUME NEW q \in Instances, pc'[q] = "record" PROVE More(q)'
      OBVIOUS
    <3>1. q # p /\ pc[q] = "record"
      BY <1>1, <1>7 DEF RecordVer
    <3>2. pos'[q] = pos[q]
      BY <1>1, <1>7, <3>1 DEF RecordVer
    <3> QED BY <2>1, <3>1, <3>2 DEF More
  <2>8. pc' \in [Instances -> {"down", "read", "exec", "record", "done"}]
    BY <1>1, <1>7 DEF RecordVer
  <2> QED BY <1>7, <2>1, <2>3, <2>4, <2>6, <2>7, <2>8 DEF RecordVer, envVars
<1>8. ASSUME NEW p \in fleet, NextFile(p) PROVE UpgradeTypes'
  <2>1. CASE file[p] < Len(FileOrder)
    <3>1. file' \in [Instances -> 1..Len(FileOrder)]
      BY <1>1, <1>8, <2>1, FilesAreKeys DEF NextFile
    <3>2. \A q \in Instances : pos'[q] \in 0..Len(Scripts[k(q)'])
      <4> SUFFICES ASSUME NEW q \in Instances PROVE pos'[q] \in 0..Len(Scripts[k(q)'])
        OBVIOUS
      <4>1. CASE q = p
        <5>1. pos'[p] = 0 /\ k(p)' \in Keys
          BY <1>1, <1>8, <2>1, <3>1, FilesAreKeys DEF NextFile, k
        <5> QED BY <1>2, <4>1, <5>1
      <4>2. CASE q # p
        <5>1. pos'[q] = pos[q] /\ file'[q] = file[q]
          BY <1>1, <1>8, <2>1, <4>2 DEF NextFile
        <5>2. k(q)' = k(q)
          BY <5>1 DEF k
        <5> QED BY <5>1, <5>2
      <4> QED BY <4>1, <4>2
    <3>3. \A q \in Instances : pc'[q] = "record" => More(q)'
      <4> SUFFICES ASSUME NEW q \in Instances, pc'[q] = "record" PROVE More(q)'
        OBVIOUS
      <4>1. q # p /\ pc[q] = "record"
        BY <1>1, <1>8, <2>1 DEF NextFile
      <4>2. pos'[q] = pos[q] /\ file'[q] = file[q]
        BY <1>1, <1>8, <2>1, <4>1 DEF NextFile
      <4> QED BY <4>1, <4>2 DEF More, k
    <3>4. pos' = [pos EXCEPT ![p] = 0] /\ pc' = [pc EXCEPT ![p] = "read"]
      BY <1>8, <2>1 DEF NextFile
    <3>5. pos' \in [Instances -> Nat]
      BY <3>4
    <3>6. pc' \in [Instances -> {"down", "read", "exec", "record", "done"}]
      BY <3>4
    <3>7. UNCHANGED <<db, ver, fed, fleet, federated, switched, overtaken>>
      BY <1>8 DEF NextFile, envVars
    <3> QED BY <3>1, <3>2, <3>3, <3>5, <3>6, <3>7
  <2>2. CASE ~(file[p] < Len(FileOrder))
    <3>1. \A q \in Instances : k(q)' = k(q) /\ (More(q)' <=> More(q))
      BY <1>8, <2>2 DEF NextFile, k, More
    <3>2. \A q \in Instances : pc'[q] = "record" => pc[q] = "record"
      BY <1>1, <1>8, <2>2 DEF NextFile
    <3>3. pc' \in [Instances -> {"down", "read", "exec", "record", "done"}]
      BY <1>1, <1>8, <2>2 DEF NextFile
    <3>4. UNCHANGED <<db, ver, file, pos, fed, fleet, federated, switched, overtaken>>
      BY <1>8, <2>2 DEF NextFile, envVars
    <3> QED BY <3>1, <3>2, <3>3, <3>4
  <2> QED BY <2>1, <2>2
<1>9. ASSUME EnableFederation \/ UNCHANGED vars PROVE UpgradeTypes'
  <2>1. /\ UNCHANGED <<db, ver, pc, file, pos, fed, fleet, overtaken>>
        /\ federated' \in BOOLEAN /\ switched' \in BOOLEAN
    BY <1>9 DEF EnableFederation, vars
  <2>2. \A q \in Instances : k(q)' = k(q) /\ (More(q)' <=> More(q))
    BY <2>1 DEF k, More
  <2> QED BY <2>1, <2>2
<1> QED BY <1>3, <1>4, <1>5, <1>6, <1>7, <1>8, <1>9 DEF Next, Upgrade
-----------------------------------------------------------------------------
(* A process that is alone. *)

LEMMA AloneInit ==
  ASSUME Init, NEW p, fleet = {p}
  PROVE  AloneInv(p)
<1>1. UpgradeTypes
  BY TypesInit
<1>2. p \in Instances /\ pc[p] = "down"
  BY <1>1 DEF UpgradeTypes, Init
<1>3. \A f \in Keys : Alike(f, db, Replay(f, ver[f], FALSE))
  BY <1>1, EarlierRelease DEF UpgradeTypes, TypeOK
<1>4. FilesBehind(p) = {}
  BY <1>2 DEF FilesBehind
<1> QED BY <1>2, <1>3, <1>4 DEF AloneInv, AppliedOrOneMore, CountsTheRecorded

(* Its next statement does not fail, and is there afterwards.              *)
LEMMA AloneExecutes ==
  ASSUME UpgradeTypes, NEW p \in Instances, AloneInv(p), pc[p] = "exec", More(p)
  PROVE  /\ ~Collides(Current(p), db)
         /\ pos[p] = ver[k(p)] /\ ver[k(p)] \in 0..(Len(Scripts[k(p)]) - 1)
         /\ Alike(k(p), Apply(Current(p), db, fed[p]), Replay(k(p), ver[k(p)] + 1, FALSE))
<1>1. PICK f \in Keys : f = k(p)
  BY KeyOf
<1>2. pos[p] = ver[f] /\ AppliedOrOneMore(f)
  BY <1>1 DEF AloneInv, CountsTheRecorded
<1>3. ver[f] \in 0..(Len(Scripts[f]) - 1)
  BY <1>1, <1>2, LenIsNat DEF More, UpgradeTypes, TypeOK
<1>4. db \in Schemas /\ fed[p] \in BOOLEAN
  BY DEF UpgradeTypes, TypeOK, Schemas
<1>5. Alike(f, db, Replay(f, ver[f], FALSE)) \/ Alike(f, db, Replay(f, ver[f] + 1, FALSE))
  BY <1>2 DEF AppliedOrOneMore
<1>6. Current(p) = Scripts[f][ver[f] + 1]
  BY <1>1, <1>2 DEF Current
<1>7. /\ ~Collides(Scripts[f][ver[f] + 1], db)
      /\ Alike(f, Apply(Scripts[f][ver[f] + 1], db, fed[p]), Replay(f, ver[f] + 1, FALSE))
  BY <1>3, <1>4, <1>5, ExecutedOnce
<1> QED BY <1>1, <1>2, <1>3, <1>6, <1>7

(* With the FEDERATED it was started with, not for want of an oid either.  *)
LEMMA SteadyExecutes ==
  ASSUME UpgradeTypes, NEW p \in Instances, AloneInv(p), SteadyInv(p), pc[p] = "exec", More(p),
         ~switched
  PROVE  /\ ~Fails(Current(p), db, fed[p])
         /\ Same(k(p), Apply(Current(p), db, fed[p]), Replay(k(p), ver[k(p)] + 1, federated))
<1>1. PICK f \in Keys : f = k(p)
  BY KeyOf
<1>2. pos[p] = ver[f] /\ SameOrOneMore(f) /\ fed[p] = federated
  BY <1>1 DEF AloneInv, CountsTheRecorded, SteadyInv
<1>3. ver[f] \in 0..(Len(Scripts[f]) - 1)
  BY <1>1, <1>2, LenIsNat DEF More, UpgradeTypes, TypeOK
<1>4. db \in Schemas /\ federated \in BOOLEAN
  BY DEF UpgradeTypes, TypeOK, Schemas
<1>5. Same(f, db, Replay(f, ver[f], federated)) \/ Same(f, db, Replay(f, ver[f] + 1, federated))
  BY <1>2 DEF SameOrOneMore
<1>6. Current(p) = Scripts[f][ver[f] + 1]
  BY <1>1, <1>2 DEF Current
<1>7. /\ ~Fails(Scripts[f][ver[f] + 1], db, federated)
      /\ Same(f, Apply(Scripts[f][ver[f] + 1], db, federated), Replay(f, ver[f] + 1, federated))
  BY <1>3, <1>4, <1>5, ExecutedOnceSame
<1> QED BY <1>1, <1>2, <1>6, <1>7

LEMMA SteadyInit ==
  ASSUME Init, NEW p, fleet = {p}
  PROVE  SteadyInv(p)
<1>1. UpgradeTypes
  BY TypesInit
<1>2. p \in Instances /\ pc[p] = "down" /\ fed[p] = FALSE
  BY <1>1 DEF UpgradeTypes, Init
<1>3. \A f \in Keys : \A x \in FileNames(f) : db[x] = Replay(f, ver[f], federated)[x]
  BY <1>1, EarlierRelease DEF UpgradeTypes, TypeOK
<1> QED BY <1>2, <1>3 DEF SteadyInv, SameOrOneMore, Same

LEMMA SteadyStep ==
  ASSUME UpgradeTypes, NEW p, fleet = {p}, AloneInv(p), SteadyInv(p), [Next]_vars
  PROVE  SteadyInv(p)'
<1>1. p \in Instances /\ k(p) \in Keys
  BY KeyOf DEF UpgradeTypes
<1> DEFINE S == <<db, ver, federated, switched>>
           InPlace == ~switched => \A f \in Keys : SameOrOneMore(f)
<1>2. S' = S => InPlace'
  BY DEF SteadyInv, SameOrOneMore
<1>3. ASSUME StartUp(p) PROVE SteadyInv(p)'
  <2>1. S' = S /\ pc'[p] = "read" /\ fed'[p] = federated
    BY <1>1, <1>3 DEF StartUp, envVars, UpgradeTypes, TypeOK
  <2> QED BY <1>2, <2>1 DEF SteadyInv
<1>4. ASSUME ReadVer(p) \/ NextFile(p) \/ ExecError(p) \/ Crash(p) PROVE SteadyInv(p)'
  <2>1. /\ S' = S /\ fed' = fed /\ pc'[p] # "record"
        /\ pc'[p] # "down" => pc[p] # "down"
    BY <1>1, <1>4 DEF ReadVer, NextFile, ExecError, Crash, envVars, UpgradeTypes, TypeOK
  <2> QED BY <1>2, <2>1 DEF SteadyInv
<1>5. ASSUME ExecScript(p) PROVE SteadyInv(p)'
  <2>1. /\ pc[p] = "exec" /\ More(p) /\ pc'[p] = "record" /\ ver' = ver /\ file' = file
        /\ pos' = pos /\ db' = Apply(Current(p), db, fed[p]) /\ fed' = fed
        /\ federated' = federated /\ switched' = switched
    BY <1>1, <1>5 DEF ExecScript, envVars, UpgradeTypes, TypeOK
  <2>2. PICK f \in Keys : f = k(p)
    BY <1>1
  <2>3. k(p)' = f
    BY <2>1, <2>2 DEF k
  <2> SUFFICES ASSUME ~switched
               PROVE  /\ fed'[p] = federated'
                      /\ \A g \in Keys : SameOrOneMore(g)'
                      /\ Same(f, db', Replay(f, ver'[f] + 1, federated'))
    BY <2>1, <2>3 DEF SteadyInv
  <2>4. pos[p] = ver[f] /\ ver[f] \in 0..(Len(Scripts[f]) - 1)
    BY <1>1, <2>1, <2>2, AloneExecutes
  <2>5. Same(f, db', Replay(f, ver[f] + 1, federated))
    BY <1>1, <2>1, <2>2, SteadyExecutes
  <2>6. /\ Current(p) = Scripts[f][ver[f] + 1] /\ ver[f] + 1 \in 1..Len(Scripts[f])
        /\ ver[f] < Len(Scripts[f])
    BY <2>2, <2>4, LenIsNat DEF Current
  <2>7. db \in Schemas /\ fed[p] \in BOOLEAN /\ Scripts[f][ver[f] + 1] \in Statement
    BY <1>1, <2>6, Statements DEF UpgradeTypes, TypeOK, Schemas
  <2>8. ASSUME NEW g \in Keys PROVE SameOrOneMore(g)'
    <3>1. CASE g = f
      BY <2>1, <2>5, <2>6, <3>1 DEF SameOrOneMore
    <3>2. CASE g # f
      <4>1. ASSUME NEW x \in FileNames(g) PROVE db'[x] = db[x]
        <5>1. x \in Names /\ x # Current(p).name /\ x # Current(p).to
          BY <2>6, <3>2, Statements, FileNamesAreNames, ScriptsAssumption
        <5> QED BY <2>1, <2>6, <2>7, <5>1, ApplyFrame
      <4>2. SameOrOneMore(g)
        BY DEF SteadyInv
      <4> QED BY <2>1, <4>1, <4>2 DEF SameOrOneMore, Same
    <3> QED BY <3>1, <3>2
  <2> QED BY <2>1, <2>5, <2>8 DEF SteadyInv
<1>6. ASSUME RecordVer(p) PROVE SteadyInv(p)'
  <2>1. PICK f \in Keys : f = k(p)
    BY <1>1
  <2>2. /\ pc[p] = "record" /\ pc'[p] = "exec" /\ db' = db /\ fed' = fed
        /\ ver' = [ver EXCEPT ![f] = MaxVer(f, pos[p] + 1)]
        /\ federated' = federated /\ switched' = switched
    BY <1>1, <1>6, <2>1 DEF RecordVer, Recorded, envVars, UpgradeTypes, TypeOK
  <2>3. pos[p] = ver[f] /\ ver[f] \in Nat /\ ver \in [Keys -> Nat]
    BY <2>1, <2>2 DEF AloneInv, CountsTheRecorded, UpgradeTypes
  <2>4. ver'[f] = ver[f] + 1 /\ \A g \in Keys : g # f => ver'[g] = ver[g]
    BY <2>2, <2>3 DEF MaxVer
  <2>5. ~switched => Same(f, db, Replay(f, ver[f] + 1, federated))
    BY <2>1, <2>2 DEF SteadyInv
  <2>6. ASSUME ~switched, NEW g \in Keys PROVE SameOrOneMore(g)'
    <3>1. CASE g = f
      BY <2>2, <2>4, <2>5, <2>6, <3>1 DEF SameOrOneMore
    <3>2. CASE g # f
      BY <2>2, <2>4, <2>6, <3>2 DEF SameOrOneMore, SteadyInv
    <3> QED BY <3>1, <3>2
  <2> QED BY <2>2, <2>6 DEF SteadyInv
<1>7. ASSUME EnableFederation PROVE SteadyInv(p)'
  BY <1>7 DEF EnableFederation, SteadyInv
<1>8. ASSUME UNCHANGED vars PROVE SteadyInv(p)'
  <2>1. UNCHANGED <<db, ver, federated, switched, pc, fed, file>>
    BY <1>8 DEF vars
  <2>2. k(p)' = k(p)
    BY <2>1 DEF k
  <2> QED BY <1>2, <2>1, <2>2 DEF SteadyInv
<1> QED BY <1>3, <1>4, <1>5, <1>6, <1>7, <1>8 DEF Next, Upgrade

LEMMA AloneStep ==
  ASSUME UpgradeTypes, NEW p, fleet = {p}, AloneInv(p), [Next]_vars
  PROVE  AloneInv(p)'
<1>1. p \in Instances /\ k(p) \in Keys
  BY KeyOf DEF UpgradeTypes
<1> DEFINE S == <<db, ver>>
           InPlace == \A f \in Keys : AppliedOrOneMore(f)
           Complete == \A f \in FilesBehind(p) : ver[f] = Len(Scripts[f])
<1>2. InPlace /\ CountsTheRecorded(p) /\ Complete
  BY DEF AloneInv
<1>3. S' = S => InPlace'
  BY <1>2 DEF AppliedOrOneMore
<1>4. ASSUME StartUp(p) PROVE AloneInv(p)'
  <2>1. S' = S /\ pc'[p] = "read" /\ file'[p] = 1
    BY <1>1, <1>4 DEF StartUp, UpgradeTypes, TypeOK
  <2>2. FilesBehind(p)' = {}
    BY <2>1 DEF FilesBehind
  <2> QED BY <1>3, <2>1, <2>2 DEF AloneInv, CountsTheRecorded
<1>5. ASSUME ReadVer(p) PROVE AloneInv(p)'
  <2>1. S' = S /\ pc'[p] = "exec" /\ file' = file /\ pos'[p] = ver[k(p)] /\ pc[p] = "read"
    BY <1>1, <1>5 DEF ReadVer, FirstScript, UpgradeTypes, TypeOK
  <2>2. FilesBehind(p)' = FilesBehind(p)
    BY <2>1 DEF FilesBehind
  <2>3. Complete'
    BY <1>2, <2>1, <2>2
  <2>4. k(p)' = k(p)
    BY <2>1 DEF k
  <2>5. CountsTheRecorded(p)'
    BY <2>1, <2>4 DEF CountsTheRecorded
  <2> QED BY <1>3, <2>1, <2>3, <2>5 DEF AloneInv
<1>6. ASSUME ExecScript(p) PROVE AloneInv(p)'
  <2>1. /\ pc[p] = "exec" /\ More(p) /\ pc'[p] = "record" /\ ver' = ver /\ file' = file
        /\ pos' = pos /\ db' = Apply(Current(p), db, fed[p])
    BY <1>1, <1>6 DEF ExecScript, UpgradeTypes, TypeOK
  <2>2. PICK f \in Keys : f = k(p)
    BY <1>1
  <2>3. k(p)' = f
    BY <2>1, <2>2 DEF k
  <2>4. /\ pos[p] = ver[f] /\ ver[f] \in 0..(Len(Scripts[f]) - 1)
        /\ Alike(f, db', Replay(f, ver[f] + 1, FALSE))
    BY <1>1, <2>1, <2>2, AloneExecutes
  <2>5. CountsTheRecorded(p)'
    BY <2>1, <2>3, <2>4 DEF CountsTheRecorded
  <2>6. /\ Current(p) = Scripts[f][ver[f] + 1] /\ ver[f] + 1 \in 1..Len(Scripts[f])
        /\ ver[f] < Len(Scripts[f])
    BY <2>2, <2>4, LenIsNat DEF Current
  <2>7. db \in Schemas /\ fed[p] \in BOOLEAN
    BY <1>1 DEF UpgradeTypes, TypeOK, Schemas
  <2>8. ASSUME NEW g \in Keys PROVE AppliedOrOneMore(g)'
    <3>1. CASE g = f
      BY <2>1, <2>4, <2>6, <3>1 DEF AppliedOrOneMore
    <3>2. CASE g # f
      <4>1. \A e : Alike(g, db, e) => Alike(g, db', e)
        BY <2>1, <2>6, <2>7, <3>2, OtherFiles
      <4>2. AppliedOrOneMore(g)
        BY <1>2
      <4> QED BY <2>1, <4>1, <4>2 DEF AppliedOrOneMore
    <3> QED BY <3>1, <3>2
  <2>9. FilesBehind(p)' = FilesBehind(p)
    BY <2>1 DEF FilesBehind
  <2>10. Complete'
    BY <1>2, <2>1, <2>9
  <2> QED BY <2>5, <2>8, <2>10 DEF AloneInv
<1>7. ASSUME ExecError(p) \/ Crash(p) PROVE AloneInv(p)'
  <2>1. S' = S /\ pc'[p] = "down"
    BY <1>1, <1>7 DEF ExecError, Crash, UpgradeTypes, TypeOK
  <2>2. FilesBehind(p)' = {}
    BY <2>1 DEF FilesBehind
  <2> QED BY <1>3, <2>1, <2>2 DEF AloneInv, CountsTheRecorded
<1>8. ASSUME RecordVer(p) PROVE AloneInv(p)'
  <2>1. PICK f \in Keys : f = k(p)
    BY <1>1
  <2>2. /\ pc[p] = "record" /\ pc'[p] = "exec" /\ file' = file /\ db' = db
        /\ pos'[p] = pos[p] + 1 /\ ver' = [ver EXCEPT ![f] = MaxVer(f, pos[p] + 1)]
    BY <1>1, <1>8, <2>1 DEF RecordVer, Recorded, UpgradeTypes, TypeOK
  <2>3. pos[p] = ver[f] /\ Alike(f, db, Replay(f, ver[f] + 1, FALSE))
    BY <1>2, <2>1, <2>2 DEF CountsTheRecorded
  <2>4. ver[f] \in Nat /\ ver \in [Keys -> Nat]
    BY DEF UpgradeTypes
  <2>5. ver'[f] = ver[f] + 1 /\ \A g \in Keys : g # f => ver'[g] = ver[g]
    BY <2>2, <2>3, <2>4 DEF MaxVer
  <2>6. k(p)' = f
    BY <2>1, <2>2 DEF k
  <2>7. CountsTheRecorded(p)'
    BY <2>2, <2>3, <2>5, <2>6 DEF CountsTheRecorded
  <2>8. ASSUME NEW g \in Keys PROVE AppliedOrOneMore(g)'
    <3>1. CASE g = f
      BY <2>2, <2>3, <2>5, <3>1 DEF AppliedOrOneMore
    <3>2. CASE g # f
      BY <1>2, <2>2, <2>5, <3>2 DEF AppliedOrOneMore
    <3> QED BY <3>1, <3>2
  <2>9. FilesBehind(p)' = FilesBehind(p) /\ FilesBehind(p) = {FileOrder[i] : i \in 1..(file[p] - 1)}
    BY <2>2 DEF FilesBehind
  <2>10. \A g \in FilesBehind(p) : g # f /\ g \in Keys
    <3> SUFFICES ASSUME NEW i \in 1..(file[p] - 1) PROVE FileOrder[i] # f /\ FileOrder[i] \in Keys
      BY <2>9
    <3>1. file[p] \in 1..Len(FileOrder) /\ i \in 1..Len(FileOrder) /\ i # file[p]
      BY <1>1, FilesAreKeys DEF UpgradeTypes, TypeOK
    <3> QED BY <2>1, <3>1, FilesAreKeys, ScriptsAssumption DEF k
  <2>11. Complete'
    BY <1>2, <2>5, <2>9, <2>10
  <2> QED BY <2>7, <2>8, <2>11 DEF AloneInv
<1>9. ASSUME NextFile(p) PROVE AloneInv(p)'
  <2>1. pc[p] = "exec" /\ ~More(p) /\ S' = S
    BY <1>9 DEF NextFile
  <2>2. ver[k(p)] = Len(Scripts[k(p)])
    BY <1>1, <1>2, <2>1, LenIsNat DEF More, CountsTheRecorded, UpgradeTypes, TypeOK
  <2>3. /\ FilesBehind(p) = {FileOrder[i] : i \in 1..(file[p] - 1)}
        /\ file[p] \in 1..Len(FileOrder) /\ Len(FileOrder) \in Nat
    BY <1>1, <2>1, FilesAreKeys DEF FilesBehind, UpgradeTypes, TypeOK
  <2>4. \A i \in 1..file[p] : ver[FileOrder[i]] = Len(Scripts[FileOrder[i]])
    <3> SUFFICES ASSUME NEW i \in 1..file[p] PROVE ver[FileOrder[i]] = Len(Scripts[FileOrder[i]])
      OBVIOUS
    <3>1. CASE i = file[p]
      BY <2>2, <3>1 DEF k
    <3>2. CASE i # file[p]
      <4>1. i \in 1..(file[p] - 1)
        BY <2>3, <3>2
      <4> QED BY <1>2, <2>3, <4>1
    <3> QED BY <3>1, <3>2
  <2>5. CASE file[p] < Len(FileOrder)
    <3>1. pc'[p] = "read" /\ file'[p] = file[p] + 1
      BY <1>1, <1>9, <2>5 DEF NextFile, UpgradeTypes, TypeOK
    <3>2. FilesBehind(p)' = {FileOrder[i] : i \in 1..file[p]}
      <4>1. FilesBehind(p)' = {FileOrder[i] : i \in 1..(file'[p] - 1)}
        BY <3>1 DEF FilesBehind
      <4>2. file'[p] - 1 = file[p]
        BY <2>3, <3>1
      <4> QED BY <4>1, <4>2
    <3>3. Complete'
      BY <2>1, <2>4, <3>2
    <3> QED BY <1>3, <2>1, <3>1, <3>3 DEF AloneInv, CountsTheRecorded
  <2>6. CASE ~(file[p] < Len(FileOrder))
    <3>1. pc'[p] = "done"
      BY <1>1, <1>9, <2>6 DEF NextFile, UpgradeTypes, TypeOK
    <3>2. FilesBehind(p)' = Keys
      BY <3>1 DEF FilesBehind
    <3>3. file[p] = Len(FileOrder)
      BY <2>3, <2>6
    <3>4. \A f \in Keys : ver[f] = Len(Scripts[f])
      BY <2>4, <3>3, FilesAreKeys
    <3>5. Complete'
      BY <2>1, <3>2, <3>4
    <3> QED BY <1>3, <2>1, <3>1, <3>5 DEF AloneInv, CountsTheRecorded
  <2> QED BY <2>5, <2>6
<1>10. ASSUME EnableFederation \/ UNCHANGED vars PROVE AloneInv(p)'
  <2>1. UNCHANGED <<db, ver, pc, file, pos>>
    BY <1>10 DEF EnableFederation, vars
  <2>2. FilesBehind(p)' = FilesBehind(p) /\ k(p)' = k(p)
    BY <2>1 DEF FilesBehind, k
  <2>3. CountsTheRecorded(p)'
    BY <1>2, <2>1, <2>2 DEF CountsTheRecorded
  <2>4. Complete'
    BY <1>2, <2>1, <2>2
  <2> QED BY <1>3, <2>1, <2>3, <2>4 DEF AloneInv
<1> QED BY <1>4, <1>5, <1>6, <1>7, <1>8, <1>9, <1>10 DEF Next, Upgrade
-----------------------------------------------------------------------------
(* Spec => []UpgradeIInv *)
LEMMA UpgradeInvariant == Spec => []UpgradeIInv
<1>1. Init => UpgradeIInv
  BY TypesInit, AloneInit, SteadyInit DEF UpgradeIInv
<1>2. UpgradeIInv /\ [Next]_vars => UpgradeIInv'
  <2> SUFFICES ASSUME UpgradeIInv, [Next]_vars PROVE UpgradeIInv'
    OBVIOUS
  <2>1. UpgradeTypes'
    BY TypesStep DEF UpgradeIInv
  <2>2. fleet' = fleet
    BY DEF Next, Upgrade, StartUp, ReadVer, ExecScript, ExecError, RecordVer, NextFile,
           Crash, EnableFederation, envVars, vars
  <2>3. ASSUME NEW p, fleet' = {p} PROVE AloneInv(p)' /\ SteadyInv(p)'
    BY <2>2, <2>3, AloneStep, SteadyStep DEF UpgradeIInv
  <2> QED BY <2>1, <2>3 DEF UpgradeIInv
<1> QED BY <1>1, <1>2, PTL DEF Spec

LEMMA OneProcess ==
  ASSUME UpgradeTypes, Cardinality(fleet) = 1
  PROVE  \E p \in Instances : fleet = {p}
<1>1. fleet \subseteq Instances /\ IsFiniteSet(fleet)
  BY SchemaAssumption, FS_Subset DEF UpgradeTypes
<1>2. PICK p : fleet = {p}
  BY <1>1, FS_Singleton
<1> QED BY <1>1, <1>2

(* update.go: whatever fleet upgrades the database, from whatever versions *)
(* and with any interruptions, no process counts beyond the end of a file, *)
(* and no recorded version does.                                           *)
THEOREM VersionsStayInTheFiles == Spec => []TypeOK
<1>1. UpgradeIInv => TypeOK
  BY DEF UpgradeIInv, UpgradeTypes
<1> QED BY <1>1, UpgradeInvariant, PTL

(* updateScripts, for any script files that fit an empty database: a       *)
(* process that is alone, however often it dies between the statement and  *)
(* the record of it and whatever FEDERATED was at the time, leaves the     *)
(* tables that the recorded versions stand for or one statement more, and  *)
(* when it is done those of the whole files.  It panics over no statement, *)
(* a repeated one included, but one that refers to the oid of a table made *)
(* before FEDERATED was switched on.                                       *)
THEOREM UpgradeSoundness == Spec => [](Cardinality(fleet) = 1 => UpgradeIsSound)
<1>1. UpgradeIInv => (Cardinality(fleet) = 1 => UpgradeIsSound)
  <2> SUFFICES ASSUME UpgradeIInv, Cardinality(fleet) = 1 PROVE UpgradeIsSound
    OBVIOUS
  <2>1. TypeOK /\ UpgradeTypes
    BY DEF UpgradeIInv, UpgradeTypes
  <2>2. PICK p \in Instances : fleet = {p}
    BY <2>1, OneProcess
  <2>3. AloneInv(p)
    BY <2>2 DEF UpgradeIInv
  <2>4. \A f \in Keys : ver[f] \in 0..Len(Scripts[f]) /\ Len(Scripts[f]) \in Nat
    BY <2>1, LenIsNat DEF TypeOK
  <2>5. RecordedMeansApplied
    <3> SUFFICES ASSUME NEW f \in Keys
                 PROVE  \E n \in {ver[f], ver[f] + 1} :
                          /\ n <= Len(Scripts[f])
                          /\ \A x \in FileNames(f) : Shape(db, x) = Shape(Replay(f, n, FALSE), x)
      BY DEF RecordedMeansApplied
    <3>1. CASE Alike(f, db, Replay(f, ver[f], FALSE))
      <4>1. ver[f] <= Len(Scripts[f])
        BY <2>4
      <4>2. \A x \in FileNames(f) : Shape(db, x) = Shape(Replay(f, ver[f], FALSE), x)
        BY <3>1, Zenon DEF Alike
      <4> QED BY <4>1, <4>2, Zenon
    <3>2. CASE ver[f] < Len(Scripts[f]) /\ Alike(f, db, Replay(f, ver[f] + 1, FALSE))
      <4>1. ver[f] + 1 <= Len(Scripts[f])
        BY <2>4, <3>2
      <4>2. \A x \in FileNames(f) : Shape(db, x) = Shape(Replay(f, ver[f] + 1, FALSE), x)
        BY <3>2, Zenon DEF Alike
      <4> QED BY <4>1, <4>2, Zenon
    <3> QED BY <2>3, <3>1, <3>2 DEF AloneInv, AppliedOrOneMore
  <2>6. SchemaConverges
    <3> SUFFICES ASSUME pc[p] = "done", NEW f \in Keys, NEW x \in FileNames(f)
                 PROVE  Shape(db, x) = Shape(Replay(f, Len(Scripts[f]), FALSE), x)
      BY <2>2 DEF SchemaConverges
    <3>1. ver[f] = Len(Scripts[f])
      BY <2>3 DEF AloneInv, FilesBehind
    <3>2. ~(ver[f] < Len(Scripts[f]))
      BY <2>4, <3>1
    <3>3. Alike(f, db, Replay(f, ver[f], FALSE))
      BY <2>3, <3>2, Zenon DEF AloneInv, AppliedOrOneMore
    <3> QED BY <3>1, <3>3, Zenon DEF Alike
  <2>7. AlonePanicsOverOid
    <3> SUFFICES ASSUME pc[p] = "exec", More(p), Fails(Current(p), db, fed[p]) PROVE SwitchedTooLate
      BY <2>2 DEF AlonePanicsOverOid
    <3>1. SteadyInv(p)
      BY <2>2 DEF UpgradeIInv
    <3>2. switched
      BY <2>1, <2>3, <3>1, SteadyExecutes
    <3>3. ~Collides(Current(p), db)
      BY <2>1, <2>3, AloneExecutes
    <3>4. LacksOid(Current(p), db, fed[p])
      BY <3>3 DEF Fails
    <3>5. PICK f \in Keys : f = k(p)
      BY <2>1, KeyOf
    <3>6. pos[p] = ver[f] /\ ver[f] < Len(Scripts[f])
      BY <2>3, <3>5 DEF AloneInv, CountsTheRecorded, More
    <3>7. Current(p) = Scripts[f][ver[f] + 1]
      BY <3>5, <3>6 DEF Current
    <3>8. LacksOid(Scripts[f][ver[f] + 1], db, federated)
      BY <3>1, <3>4, <3>7 DEF LacksOid, SteadyInv
    <3> QED BY <3>2, <3>6, <3>8 DEF SwitchedTooLate
  <2> QED BY <2>1, <2>5, <2>6, <2>7 DEF UpgradeIsSound
<1> QED BY <1>1, UpgradeInvariant, PTL

(* The index of time_series is fed through every statement of a process    *)
(* that is alone: the one it repeats after a crash included, no step takes *)
(* away the last of the views that feed it.                                *)
THEOREM OneProcessKeepsTheIndex == Spec /\ Cardinality(fleet) = 1 => IndexAlwaysFed
<1> DEFINE Fed == \E x \in Sources : db[x] # {}
<1>1. ASSUME UpgradeIInv, Cardinality(fleet) = 1, [Next]_vars, Fed PROVE Fed'
  <2>1. UpgradeTypes
    BY <1>1 DEF UpgradeIInv
  <2>2. PICK p \in Instances : fleet = {p}
    BY <1>1, <2>1, OneProcess
  <2>3. CASE db' = db
    BY <1>1, <2>3
  <2>4. CASE ExecScript(p)
    <3>1. PICK f \in Keys : f = k(p)
      BY <2>1, KeyOf
    <3>2. AloneInv(p) /\ pc[p] = "exec" /\ More(p) /\ db' = Apply(Current(p), db, fed[p])
      BY <1>1, <2>2, <2>4 DEF UpgradeIInv, ExecScript
    <3>3. /\ pos[p] = ver[f] /\ ver[f] \in 0..(Len(Scripts[f]) - 1)
          /\ Alike(f, db', Replay(f, ver[f] + 1, FALSE)) /\ AppliedOrOneMore(f)
      BY <2>1, <3>1, <3>2, AloneExecutes DEF AloneInv
    <3>4. PICK n : n = ver[f] + 1
      OBVIOUS
    <3>5. n \in 1..Len(Scripts[f]) /\ n - 1 = ver[f] /\ n \in 0..Len(Scripts[f])
          /\ n - 1 \in 0..Len(Scripts[f])
      BY <3>3, <3>4, LenIsNat
    <3>6. Current(p) = Scripts[f][n]
      BY <3>1, <3>3, <3>4 DEF Current
    <3>7. PICK x \in Sources : db[x] # {}
      BY <1>1
    <3>8. db \in Schemas /\ fed[p] \in BOOLEAN /\ x \in Names
      BY <2>1, SchemaAssumption DEF UpgradeTypes, TypeOK, Schemas
    <3>9. CASE x \notin FileNames(f)
      <4>1. /\ Scripts[f][n] \in Statement
            /\ x # Scripts[f][n].name /\ x # Scripts[f][n].to
        BY <3>5, <3>9, Statements
      <4>2. db'[x] = db[x]
        BY <3>2, <3>6, <3>8, <4>1, ApplyFrame
      <4> QED BY <3>7, <4>2
    <3>10. CASE x \in FileNames(f)
      <4>1. \E y \in Sources : Replay(f, n, FALSE)[y] # {}
        <5>1. CASE Alike(f, db, Replay(f, n - 1, FALSE))
          <6>1. Replay(f, n - 1, FALSE)[x] # {}
            BY <3>7, <3>10, <5>1 DEF Alike
          <6> QED BY <3>5, <6>1, ScriptsAssumption
        <5>2. CASE Alike(f, db, Replay(f, n, FALSE))
          BY <3>7, <3>10, <5>2 DEF Alike
        <5> QED BY <3>3, <3>4, <3>5, <5>1, <5>2 DEF AppliedOrOneMore
      <4>2. PICK y \in Sources : Replay(f, n, FALSE)[y] # {}
        BY <4>1
      <4>3. y \in FileNames(f)
        <5>1. y \in Names
          BY SchemaAssumption
        <5> QED BY <3>5, <4>2, <5>1, ReplayFrame, Zenon
      <4>4. db'[y] # {}
        BY <3>3, <3>4, <4>2, <4>3 DEF Alike
      <4> QED BY <4>4
    <3> QED BY <3>9, <3>10
  <2> QED BY <1>1, <2>2, <2>3, <2>4
          DEF Next, Upgrade, StartUp, ReadVer, ExecError, RecordVer, NextFile, Crash,
              EnableFederation, vars
<1>2. UpgradeIInv /\ Cardinality(fleet) = 1 /\ [Next]_vars =>
        [(\E x \in Sources : db[x] # {}) => (\E x \in Sources : db'[x] # {})]_vars
  BY <1>1
<1>3. Cardinality(fleet) = 1 /\ [Next]_vars => (Cardinality(fleet) = 1)'
  BY DEF Next, Upgrade, StartUp, ReadVer, ExecScript, ExecError, RecordVer, NextFile,
         Crash, EnableFederation, envVars, vars
<1> QED BY <1>2, <1>3, UpgradeInvariant, PTL DEF Spec, IndexAlwaysFed
-----------------------------------------------------------------------------
(* The rotation. *)

FunctionOn(S, f) == f = [x \in S |-> f[x]]

RotationTypes ==
  /\ FunctionOn(RotatedTables, ttl) /\ FunctionOn(RotatedTables, policy)
  /\ FunctionOn(SettingNames, settings) /\ recorded \subseteq SettingNames
  /\ rpc \in {"down", "lookup", "alter", "put", "done"}
  /\ step \in DOMAIN Steps
  /\ rpc = "alter" => tableAt \in 1..Len(Steps[step].tables)

Shared == "metrics_15s"

(* The steps that the run has behind it. *)
Behind == IF rpc = "done" THEN DOMAIN Steps ELSE 1..(step - 1)

SkipsPolicy(i) == Steps[i].kind = "policy" /\ config.policy = NoPolicy

RecordedAlone(i) == settings[Steps[i].name] = {Value(Steps[i], config)}

(* A value is of the kind of the step that has recorded it. *)
SettingsAreTrue ==
  \A i \in DOMAIN Steps : \A v \in settings[Steps[i].name] :
    v[1] = Steps[i].kind /\ i \notin unrecorded =>
      \A x \in DOMAIN Steps[i].tables : CurrentOf(Steps[i].tables[x], Steps[i].kind) = v

BehindIsRotated ==
  rpc # "down" => \A i \in Behind :
    SkipsPolicy(i) \/ Applied(Steps[i], config) \/ i \in trusted

AlterProgress ==
  /\ rpc = "alter" => \A x \in 1..(tableAt - 1) :
       CurrentOf(Steps[step].tables[x], Steps[step].kind) = Value(Steps[step], config)
  /\ rpc = "put" => Applied(Steps[step], config)

RecordedInThisRun ==
  rpc # "down" => \A n \in recorded : \A v \in settings[n] :
    \E j \in Behind : Steps[j].name = n /\ v = Value(Steps[j], config)

(* A name that one step has keeps one value. *)
OneValue ==
  \A i \in DOMAIN Steps : Steps[i].name # Shared =>
    \A v, u \in settings[Steps[i].name] : v = u

BehindIsRecorded ==
  rpc # "down" => \A i \in Behind :
    Steps[i].name # Shared => SkipsPolicy(i) \/ RecordedAlone(i)

AppliedIsRecorded ==
  /\ applied \subseteq {config}
  /\ applied # {} => \A i \in DOMAIN Steps :
       Steps[i].name # Shared => SkipsPolicy(i) \/ RecordedAlone(i)

RotationIInv ==
  /\ RotationTypes
  /\ SettingsAreTrue
  /\ BehindIsRotated
  /\ AlterProgress
  /\ RecordedInThisRun
  /\ OneValue
  /\ BehindIsRecorded
  /\ AppliedIsRecorded
-----------------------------------------------------------------------------
(* Facts about the list of steps. *)

LEMMA StepTables ==
  /\ DOMAIN Steps = 1..9 /\ Len(Steps) = 9
  /\ \A i \in DOMAIN Steps :
       /\ Steps[i].kind \in {"policy", "ttl"}
       /\ Len(Steps[i].tables) \in Nat \ {0}
       /\ DOMAIN Steps[i].tables = 1..Len(Steps[i].tables)
<1>1. DOMAIN Steps = 1..9 /\ Len(Steps) = 9
  BY DEF Steps
<1>2. ASSUME NEW i \in 1..9
      PROVE  /\ Steps[i].kind \in {"policy", "ttl"}
             /\ Len(Steps[i].tables) \in Nat \ {0}
             /\ DOMAIN Steps[i].tables = 1..Len(Steps[i].tables)
  <2>1. i \in {1, 2, 3, 4, 5, 6, 7, 8, 9}
    OBVIOUS
  <2> QED BY <2>1 DEF Steps, Policy, Ttl
<1> QED BY <1>1, <1>2

(* The names and tables of the steps are the ones that are modelled. *)
LEMMA StepNames ==
  ASSUME NEW i \in DOMAIN Steps
  PROVE  /\ Steps[i].name \in SettingNames
         /\ \A x \in DOMAIN Steps[i].tables : Steps[i].tables[x] \in RotatedTables
<1>1. ASSUME NEW x \in DOMAIN Steps[i].tables
      PROVE  Steps[i].tables[x] \in ToSet(Steps[i].tables)
  BY <1>1 DEF ToSet
<1> QED BY <1>1 DEF SettingNames, RotatedTables

(* Two steps with one name are the policy and the TTL of metrics_15s. *)
LEMMA NamesAndKinds ==
  ASSUME NEW i \in DOMAIN Steps, NEW j \in DOMAIN Steps, i # j,
         Steps[i].name = Steps[j].name
  PROVE  Steps[i].kind # Steps[j].kind /\ Steps[i].name = Shared
<1>1. i \in {1, 2, 3, 4, 5, 6, 7, 8, 9} /\ j \in {1, 2, 3, 4, 5, 6, 7, 8, 9}
  BY StepTables
<1> DEFINE name == <<"v3_storage_policy", "v1_traces_storage_policy", "metrics_15s",
                     "v3_samples_days", "v3_time_series_days", "v1_traces_days",
                     "tempo_attrs_v1", "metrics_15s", "patterns">>
<1>2. \A m \in {1, 2, 3, 4, 5, 6, 7, 8, 9} : Steps[m].name = name[m]
  BY DEF Steps, Policy, Ttl
<1>3. name[i] = name[j]
  BY <1>1, <1>2
<1>4. (i = 3 /\ j = 8) \/ (i = 8 /\ j = 3)
  BY <1>1, <1>3
<1> QED BY <1>4 DEF Steps, Policy, Ttl, Shared

(* Two steps of one kind have no table in common. *)
LEMMA TablesAreDisjoint ==
  ASSUME NEW i \in DOMAIN Steps, NEW j \in DOMAIN Steps, i # j,
         Steps[i].kind = Steps[j].kind,
         NEW x \in DOMAIN Steps[i].tables, NEW y \in DOMAIN Steps[j].tables
  PROVE  Steps[i].tables[x] # Steps[j].tables[y]
(* The step of each kind that a table belongs to. *)
<1> DEFINE owner(kind, t) ==
      IF kind = "policy"
      THEN CASE t \in {"time_series", "time_series_gin", "samples_v3"} -> 1
             [] t \in {"tempo_traces", "tempo_traces_attrs_gin", "tempo_traces_kv"} -> 2
             [] OTHER -> 3
      ELSE CASE t = "samples_v3" -> 4
             [] t \in {"time_series", "time_series_gin"} -> 5
             [] t = "tempo_traces" -> 6
             [] t \in {"tempo_traces_attrs_gin", "tempo_traces_kv"} -> 7
             [] t = "metrics_15s" -> 8
             [] OTHER -> 9
<1>1. ASSUME NEW m \in 1..9, NEW z \in DOMAIN Steps[m].tables
      PROVE  owner(Steps[m].kind, Steps[m].tables[z]) = m
  <2>1. m \in {1, 2, 3, 4, 5, 6, 7, 8, 9} /\ z \in {1, 2, 3}
    BY <1>1 DEF Steps, Policy, Ttl
  <2>2. CASE m = 1  BY <1>1, <2>1, <2>2 DEF Steps, Policy, Ttl
  <2>3. CASE m = 2  BY <1>1, <2>1, <2>3 DEF Steps, Policy, Ttl
  <2>4. CASE m = 3  BY <1>1, <2>1, <2>4 DEF Steps, Policy, Ttl
  <2>5. CASE m = 4  BY <1>1, <2>1, <2>5 DEF Steps, Policy, Ttl
  <2>6. CASE m = 5  BY <1>1, <2>1, <2>6 DEF Steps, Policy, Ttl
  <2>7. CASE m = 6  BY <1>1, <2>1, <2>7 DEF Steps, Policy, Ttl
  <2>8. CASE m = 7  BY <1>1, <2>1, <2>8 DEF Steps, Policy, Ttl
  <2>9. CASE m = 8  BY <1>1, <2>1, <2>9 DEF Steps, Policy, Ttl
  <2>10. CASE m = 9  BY <1>1, <2>1, <2>10 DEF Steps, Policy, Ttl
  <2> QED BY <2>1, <2>2, <2>3, <2>4, <2>5, <2>6, <2>7, <2>8, <2>9, <2>10
<1> HIDE DEF owner
<1>2. /\ owner(Steps[i].kind, Steps[i].tables[x]) = i
      /\ owner(Steps[j].kind, Steps[j].tables[y]) = j
  BY <1>1, StepTables
<1> QED BY <1>2

(* A value says of which kind it is, and is not the missing one. *)
LEMMA ValueKind ==
  ASSUME NEW i \in DOMAIN Steps, NEW c
  PROVE  Value(Steps[i], c)[1] = Steps[i].kind /\ Value(Steps[i], c) # <<>>
<1>1. Steps[i].kind \in {"policy", "ttl"}
  BY StepTables
<1> QED BY <1>1 DEF Value

LEMMA BehindFacts ==
  ASSUME RotationTypes
  PROVE  Behind \subseteq DOMAIN Steps /\ (rpc # "done" => step \notin Behind)
<1>1. step \in 1..9 /\ DOMAIN Steps = 1..9
  BY StepTables DEF RotationTypes
<1> QED BY <1>1 DEF Behind

(* Advance adds the step to those behind the run, and has the whole list   *)
(* behind it when it says that the configuration is applied.               *)
LEMMA AdvanceFacts ==
  ASSUME RotationTypes, rpc \in {"lookup", "put"}, Advance
  PROVE  /\ Behind' = Behind \cup {step}
         /\ rpc' \in {"lookup", "done"} /\ step' \in DOMAIN Steps
         /\ \/ applied' = applied
            \/ applied' = {config} /\ Behind' = DOMAIN Steps
<1>1. step \in 1..9 /\ DOMAIN Steps = 1..9 /\ Len(Steps) = 9
  BY StepTables DEF RotationTypes
<1>2. CASE step = 9
  BY <1>1, <1>2 DEF Advance, Behind
<1>3. CASE step # 9
  <2>1. step' = step + 1 /\ rpc' = "lookup" /\ applied' = applied
    BY <1>1, <1>3 DEF Advance
  <2>2. Behind' = 1..step /\ Behind = 1..(step - 1)
    BY <1>1, <2>1 DEF Behind
  <2> QED BY <1>1, <1>3, <2>1, <2>2
<1> QED BY <1>2, <1>3
-----------------------------------------------------------------------------
LEMMA InitIInv == RotationInit => RotationIInv
<1> SUFFICES ASSUME RotationInit PROVE RotationIInv
  OBVIOUS
<1> USE DEF RotationInit
<1>1. RotationTypes
  BY StepTables DEF RotationTypes, FunctionOn
<1>2. \A i \in DOMAIN Steps : settings[Steps[i].name] = {}
  BY StepNames
<1>3. SettingsAreTrue /\ OneValue
  BY <1>2 DEF SettingsAreTrue, OneValue
<1>4. BehindIsRotated /\ AlterProgress /\ RecordedInThisRun /\ BehindIsRecorded
        /\ AppliedIsRecorded
  BY DEF BehindIsRotated, AlterProgress, RecordedInThisRun, BehindIsRecorded,
         AppliedIsRecorded
<1> QED BY <1>1, <1>3, <1>4 DEF RotationIInv

LEMMA StartIInv ==
  ASSUME RotationIInv, NEW c \in Configs, StartRotation(c)
  PROVE  RotationIInv'
<1> USE DEF RotationIInv, StartRotation
<1>1. Behind' = {} /\ recorded' = {} /\ rpc' = "lookup"
  BY DEF Behind
<1>2. RotationTypes'
  BY StepTables DEF RotationTypes
<1>3. SettingsAreTrue' /\ OneValue'
  BY DEF SettingsAreTrue, OneValue, CurrentOf
<1>4. BehindIsRotated' /\ AlterProgress' /\ RecordedInThisRun' /\ BehindIsRecorded'
  BY <1>1 DEF BehindIsRotated, AlterProgress, RecordedInThisRun, BehindIsRecorded
<1>5. AppliedIsRecorded'
  <2>1. CASE c = config
    BY <2>1 DEF AppliedIsRecorded, SkipsPolicy, RecordedAlone
  <2>2. CASE c # config
    BY <2>2 DEF AppliedIsRecorded
  <2> QED BY <2>1, <2>2
<1> QED BY <1>2, <1>3, <1>4, <1>5

LEMMA InterruptedIInv ==
  ASSUME RotationIInv, Interrupted
  PROVE  RotationIInv'
<1> USE DEF RotationIInv, Interrupted
<1>1. RotationTypes'
  BY DEF RotationTypes
<1>2. SettingsAreTrue' /\ OneValue'
  BY DEF SettingsAreTrue, OneValue, CurrentOf
<1>3. BehindIsRotated' /\ AlterProgress' /\ RecordedInThisRun' /\ BehindIsRecorded'
  BY DEF BehindIsRotated, AlterProgress, RecordedInThisRun, BehindIsRecorded
<1>4. AppliedIsRecorded'
  BY DEF AppliedIsRecorded, SkipsPolicy, RecordedAlone
<1> QED BY <1>1, <1>2, <1>3, <1>4

(* getSetting finds what the step would record, or there is no policy: the *)
(* tables are right, unless an interrupted run has altered some of them.   *)
LEMMA LookupSkips ==
  ASSUME RotationIInv, Lookup, NEW v \in GetSetting(Steps[step].name),
         UpToDate(Steps[step], config, v), Advance,
         trusted' = trusted \cup ({step} \cap unrecorded)
  PROVE  RotationIInv'
<1> USE DEF RotationIInv
<1>1. /\ rpc = "lookup" /\ step \in DOMAIN Steps
      /\ UNCHANGED <<ttl, policy, settings, config, recorded, unrecorded>>
  BY DEF Lookup, RotationTypes
<1>2. /\ Behind' = Behind \cup {step} /\ Behind \subseteq DOMAIN Steps
      /\ rpc' \in {"lookup", "done"} /\ step' \in DOMAIN Steps
      /\ \/ applied' = applied
         \/ applied' = {config} /\ Behind' = DOMAIN Steps
  BY <1>1, AdvanceFacts, BehindFacts
<1>3. SkipsPolicy(step) \/ v = Value(Steps[step], config)
  BY DEF UpToDate, SkipsPolicy
<1>4. v = Value(Steps[step], config) => v \in settings[Steps[step].name]
  BY <1>1, ValueKind DEF GetSetting
<1>5. RotationTypes'
  BY <1>1, <1>2 DEF RotationTypes
<1>6. SettingsAreTrue' /\ OneValue'
  BY <1>1 DEF SettingsAreTrue, OneValue, CurrentOf
<1>7. BehindIsRotated'
  <2> SUFFICES ASSUME NEW i \in Behind'
               PROVE  SkipsPolicy(i) \/ Applied(Steps[i], config) \/ i \in trusted'
    BY <1>1 DEF BehindIsRotated, SkipsPolicy, Applied, CurrentOf
  <2>1. CASE i \in Behind
    BY <2>1, <1>1 DEF BehindIsRotated
  <2>2. CASE i = step /\ SkipsPolicy(step)
    BY <2>2
  <2>3. CASE i = step /\ v = Value(Steps[step], config)
    <3>1. CASE step \in unrecorded
      BY <2>3, <3>1
    <3>2. CASE step \notin unrecorded
      BY <2>3, <3>2, <1>1, <1>4, ValueKind DEF SettingsAreTrue, Applied
    <3> QED BY <3>1, <3>2
  <2> QED BY <1>2, <1>3, <2>1, <2>2, <2>3
<1>8. AlterProgress'
  BY <1>2 DEF AlterProgress
<1>9. RecordedInThisRun'
  BY <1>1, <1>2 DEF RecordedInThisRun
<1>10. Steps[step].name # Shared => SkipsPolicy(step) \/ RecordedAlone(step)
  BY <1>1, <1>3, <1>4 DEF OneValue, RecordedAlone
<1>11. \A i \in Behind' :
         Steps[i].name # Shared => SkipsPolicy(i) \/ RecordedAlone(i)
  BY <1>1, <1>2, <1>10 DEF BehindIsRecorded
<1>12. BehindIsRecorded'
  BY <1>1, <1>11 DEF BehindIsRecorded, SkipsPolicy, RecordedAlone
<1>13. AppliedIsRecorded'
  BY <1>1, <1>2, <1>11 DEF AppliedIsRecorded, SkipsPolicy, RecordedAlone
<1> QED BY <1>5, <1>6, <1>7, <1>8, <1>9, <1>12, <1>13

LEMMA LookupAlters ==
  ASSUME RotationIInv, Lookup, rpc' = "alter", tableAt' = 1, UNCHANGED <<step, applied, trusted>>
  PROVE  RotationIInv'
<1> USE DEF RotationIInv
<1>1. /\ rpc = "lookup" /\ step \in DOMAIN Steps
      /\ UNCHANGED <<ttl, policy, settings, config, recorded, unrecorded>>
  BY DEF Lookup, RotationTypes
<1>2. Behind' = Behind
  BY <1>1 DEF Behind
<1>3. RotationTypes'
  <2>1. Len(Steps[step].tables) \in Nat \ {0}
    BY <1>1, StepTables
  <2>2. 1 \in 1..Len(Steps[step].tables)
    BY <2>1
  <2> QED BY <1>1, <2>2 DEF RotationTypes
<1>4. SettingsAreTrue' /\ OneValue'
  BY <1>1 DEF SettingsAreTrue, OneValue, CurrentOf
<1>5. BehindIsRotated'
  BY <1>1, <1>2 DEF BehindIsRotated, SkipsPolicy, Applied, CurrentOf
<1>6. AlterProgress'
  BY DEF AlterProgress
<1>7. RecordedInThisRun' /\ BehindIsRecorded'
  BY <1>1, <1>2 DEF RecordedInThisRun, BehindIsRecorded, SkipsPolicy, RecordedAlone
<1>8. AppliedIsRecorded'
  BY <1>1 DEF AppliedIsRecorded, SkipsPolicy, RecordedAlone
<1> QED BY <1>3, <1>4, <1>5, <1>6, <1>7, <1>8

LEMMA LookupIInv ==
  ASSUME RotationIInv, Lookup
  PROVE  RotationIInv'
<1>1. PICK v \in GetSetting(Steps[step].name) :
        IF UpToDate(Steps[step], config, v)
        THEN Advance /\ trusted' = trusted \cup ({step} \cap unrecorded)
        ELSE rpc' = "alter" /\ tableAt' = 1 /\ UNCHANGED <<step, applied, trusted>>
  BY DEF Lookup
<1>2. CASE UpToDate(Steps[step], config, v)
  BY <1>1, <1>2, LookupSkips
<1>3. CASE ~UpToDate(Steps[step], config, v)
  BY <1>1, <1>3, LookupAlters
<1> QED BY <1>2, <1>3

(* ALTER TABLE changes one table, for this step and no other of its kind. *)
LEMMA AlterIInv ==
  ASSUME RotationIInv, AlterTable
  PROVE  RotationIInv'
<1> USE DEF RotationIInv
<1> DEFINE s == Steps[step]
           t == s.tables[tableAt]
           V == Value(s, config)
<1>1. /\ rpc = "alter" /\ step \in DOMAIN Steps /\ tableAt \in DOMAIN s.tables
      /\ tableAt \in 1..Len(s.tables) /\ Len(s.tables) \in Nat
      /\ unrecorded' = unrecorded \cup {step}
      /\ UNCHANGED <<settings, step, config, recorded, trusted, applied>>
      /\ s.kind \in {"policy", "ttl"}
  BY StepTables DEF AlterTable, RotationTypes
<1>2. \/ tableAt = Len(s.tables) /\ rpc' = "put"
      \/ tableAt # Len(s.tables) /\ rpc' = "alter" /\ tableAt' = tableAt + 1
  BY <1>1 DEF AlterTable
<1>3. Behind' = Behind /\ Behind \subseteq DOMAIN Steps /\ step \notin Behind
  BY <1>1, <1>2, BehindFacts DEF Behind
<1>4. t \in RotatedTables
  BY <1>1, StepNames
<1>5. FunctionOn(RotatedTables, ttl') /\ FunctionOn(RotatedTables, policy')
  BY DEF AlterTable, RotationTypes, FunctionOn
<1> DEFINE now(u, kind) == IF kind = "policy" THEN policy'[u] ELSE ttl'[u]
<1>6. now(t, s.kind) = V
  <2>1. CASE s.kind = "policy"
    BY <2>1, <1>4 DEF AlterTable, RotationTypes, FunctionOn
  <2>2. CASE s.kind # "policy"
    BY <2>2, <1>4 DEF AlterTable, RotationTypes, FunctionOn
  <2> QED BY <2>1, <2>2
<1>7. ASSUME NEW u \in RotatedTables, NEW kind \in {"policy", "ttl"}, u # t \/ kind # s.kind
      PROVE  now(u, kind) = CurrentOf(u, kind)
  <2>1. CASE s.kind = "policy"
    BY <2>1, <1>1, <1>4, <1>7 DEF AlterTable, CurrentOf, RotationTypes, FunctionOn
  <2>2. CASE s.kind = "ttl"
    BY <2>2, <1>1, <1>4, <1>7 DEF AlterTable, CurrentOf, RotationTypes, FunctionOn
  <2> QED BY <1>1, <2>1, <2>2
<1>8. ASSUME NEW i \in DOMAIN Steps, i # step, NEW x \in DOMAIN Steps[i].tables
      PROVE  CurrentOf(Steps[i].tables[x], Steps[i].kind)'
               = CurrentOf(Steps[i].tables[x], Steps[i].kind)
  <2>1. Steps[i].kind \in {"policy", "ttl"} /\ Steps[i].tables[x] \in RotatedTables
    BY StepTables, StepNames
  <2>2. Steps[i].tables[x] # t \/ Steps[i].kind # s.kind
    BY <1>1, <1>8, TablesAreDisjoint
  <2> QED BY <1>7, <2>1, <2>2 DEF CurrentOf
<1>9. RotationTypes'
  BY <1>1, <1>2, <1>5 DEF RotationTypes
<1>10. SettingsAreTrue'
  BY <1>1, <1>8 DEF SettingsAreTrue
<1>11. OneValue'
  BY <1>1 DEF OneValue
<1>12. BehindIsRotated'
  BY <1>1, <1>2, <1>3, <1>8 DEF BehindIsRotated, SkipsPolicy, Applied
<1>13. \A x \in 1..tableAt : now(s.tables[x], s.kind) = V
  <2> SUFFICES ASSUME NEW x \in 1..tableAt
               PROVE  now(s.tables[x], s.kind) = V
    OBVIOUS
  <2>1. CASE s.tables[x] = t
    BY <2>1, <1>6
  <2>2. CASE s.tables[x] # t
    <3>1. x \in 1..(tableAt - 1)
      BY <2>2, <1>1
    <3>2. CurrentOf(s.tables[x], s.kind) = V
      BY <3>1, <1>1 DEF AlterProgress
    <3>3. s.tables[x] \in RotatedTables
      <4>1. DOMAIN s.tables = 1..Len(s.tables)
        BY <1>1, StepTables
      <4>2. x \in DOMAIN s.tables
        BY <3>1, <4>1, <1>1
      <4> QED BY <4>2, <1>1, StepNames
    <3> QED BY <2>2, <3>2, <3>3, <1>1, <1>7
  <2> QED BY <2>1, <2>2
<1>14. AlterProgress'
  <2>1. CASE tableAt = Len(s.tables) /\ rpc' = "put"
    <3>1. DOMAIN s.tables = 1..Len(s.tables)
      BY <1>1, StepTables
    <3> QED BY <2>1, <3>1, <1>1, <1>13 DEF AlterProgress, Applied, CurrentOf
  <2>2. CASE rpc' = "alter" /\ tableAt' = tableAt + 1
    BY <2>2, <1>1, <1>13 DEF AlterProgress, CurrentOf
  <2> QED BY <1>2, <2>1, <2>2
<1>15. RecordedInThisRun' /\ BehindIsRecorded' /\ AppliedIsRecorded'
  BY <1>1, <1>2, <1>3 DEF RecordedInThisRun, BehindIsRecorded, AppliedIsRecorded,
                          SkipsPolicy, RecordedAlone
<1> QED BY <1>9, <1>10, <1>11, <1>12, <1>14, <1>15

(* The value is recorded after the last table.  What it may tie with was   *)
(* put by another step of the same name, hence of the other kind.          *)
LEMMA PutIInv ==
  ASSUME RotationIInv, PutSetting
  PROVE  RotationIInv'
<1> USE DEF RotationIInv
<1> DEFINE s == Steps[step]
<1>1. PICK V : V = Value(Steps[step], config)
  OBVIOUS
<1>2. PICK n : n = Steps[step].name
  OBVIOUS
<1>3. /\ rpc = "put" /\ step \in DOMAIN Steps /\ n \in SettingNames
      /\ recorded' = recorded \cup {n} /\ unrecorded' = unrecorded \ {step}
      /\ Advance /\ settings' \in SettingsWith(n, V)
      /\ UNCHANGED <<ttl, policy, tableAt, config, trusted>>
  BY <1>1, <1>2, StepNames DEF PutSetting, RotationTypes
<1>4. /\ Behind' = Behind \cup {step} /\ Behind \subseteq DOMAIN Steps
      /\ step \notin Behind
      /\ rpc' \in {"lookup", "done"} /\ step' \in DOMAIN Steps
      /\ \/ applied' = applied
         \/ applied' = {config} /\ Behind' = DOMAIN Steps
  BY <1>3, AdvanceFacts, BehindFacts
<1>5. /\ FunctionOn(SettingNames, settings')
      /\ \A m \in SettingNames : m # n => settings'[m] = settings[m]
      /\ \/ settings'[n] = {V}
         \/ n \in recorded /\ settings'[n] = settings[n] \cup {V}
  BY <1>3 DEF SettingsWith, RotationTypes, FunctionOn
(* What ties with the new value is of another step behind. *)
<1>6. ASSUME NEW v \in settings'[n], v # V
      PROVE  \E j \in Behind : /\ Steps[j].name = n /\ v = Value(Steps[j], config)
                               /\ v \in settings[n]
  <2>1. n \in recorded /\ v \in settings[n]
    BY <1>5, <1>6
  <2> QED BY <2>1, <1>3 DEF RecordedInThisRun
<1>7. n # Shared => settings'[n] = {V}
  <2> SUFFICES ASSUME n # Shared, NEW v \in settings'[n], v # V PROVE FALSE
    BY <1>5
  <2>1. PICK j \in Behind : Steps[j].name = n
    BY <1>6
  <2> QED BY <2>1, <1>2, <1>3, <1>4, NamesAndKinds
<1>8. RotationTypes'
  BY <1>3, <1>4, <1>5 DEF RotationTypes
<1>9. SettingsAreTrue'
  <2> SUFFICES ASSUME NEW i \in DOMAIN Steps, NEW v \in settings'[Steps[i].name],
                      v[1] = Steps[i].kind, i \notin unrecorded',
                      NEW x \in DOMAIN Steps[i].tables
               PROVE  CurrentOf(Steps[i].tables[x], Steps[i].kind) = v
    BY <1>3 DEF SettingsAreTrue, CurrentOf
  <2>1. Steps[i].name \in SettingNames
    BY StepNames
  <2>2. CASE i = step
    <3>1. CurrentOf(Steps[i].tables[x], Steps[i].kind) = V
      BY <2>2, <1>1, <1>3 DEF AlterProgress, Applied
    <3>2. ASSUME v # V PROVE FALSE
      <4>1. PICK j \in Behind : Steps[j].name = n /\ v = Value(Steps[j], config)
        BY <2>2, <3>2, <1>2, <1>6
      <4>2. v[1] = Steps[j].kind
        BY <4>1, <1>4, ValueKind
      <4> QED BY <2>2, <4>1, <4>2, <1>2, <1>3, <1>4, NamesAndKinds
    <3> QED BY <3>1, <3>2
  <2>3. CASE i # step
    <3>1. v \in settings[Steps[i].name]
      <4>1. CASE Steps[i].name # n
        BY <2>1, <4>1, <1>5
      <4>2. CASE Steps[i].name = n
        <5>1. Steps[i].kind # Steps[step].kind
          BY <2>3, <4>2, <1>2, <1>3, NamesAndKinds
        <5>2. v # V
          BY <5>1, <1>1, <1>3, ValueKind
        <5> QED BY <4>2, <5>2, <1>6
      <4> QED BY <4>1, <4>2
    <3>2. i \notin unrecorded
      BY <2>3, <1>3
    <3> QED BY <3>1, <3>2 DEF SettingsAreTrue
  <2> QED BY <2>2, <2>3
<1>10. BehindIsRotated'
  <2> SUFFICES ASSUME NEW i \in Behind'
               PROVE  SkipsPolicy(i) \/ Applied(Steps[i], config) \/ i \in trusted
    BY <1>3 DEF BehindIsRotated, SkipsPolicy, Applied, CurrentOf
  <2>1. CASE i \in Behind
    BY <2>1, <1>3 DEF BehindIsRotated
  <2>2. CASE i = step
    BY <2>2, <1>3 DEF AlterProgress
  <2> QED BY <1>4, <2>1, <2>2
<1>11. AlterProgress'
  BY <1>4 DEF AlterProgress
<1>12. RecordedInThisRun'
  <2> SUFFICES ASSUME NEW m \in recorded', NEW v \in settings'[m]
               PROVE  \E j \in Behind' : Steps[j].name = m /\ v = Value(Steps[j], config)
    BY <1>3 DEF RecordedInThisRun
  <2>1. CASE m = n
    BY <2>1, <1>1, <1>2, <1>4, <1>6
  <2>2. CASE m # n
    <3>1. v \in settings[m]
      BY <2>2, <1>3, <1>5 DEF RotationTypes
    <3> QED BY <2>2, <3>1, <1>3, <1>4 DEF RecordedInThisRun
  <2> QED BY <2>1, <2>2
<1>13. OneValue'
  <2> SUFFICES ASSUME NEW i \in DOMAIN Steps, Steps[i].name # Shared,
                      NEW v \in settings'[Steps[i].name], NEW u \in settings'[Steps[i].name]
               PROVE  v = u
    BY DEF OneValue
  <2>1. CASE Steps[i].name = n
    BY <2>1, <1>7
  <2>2. CASE Steps[i].name # n
    BY <2>2, <1>5, StepNames DEF OneValue
  <2> QED BY <2>1, <2>2
(* A step with a name of its own that is recorded stays so. *)
<1>14. ASSUME NEW i \in DOMAIN Steps, Steps[i].name # Shared,
              i = step \/ RecordedAlone(i)
       PROVE  RecordedAlone(i)'
  <2>1. CASE i = step
    BY <2>1, <1>1, <1>2, <1>3, <1>7, <1>14 DEF RecordedAlone
  <2>2. CASE i # step /\ RecordedAlone(i)
    <3>1. Steps[i].name # n
      BY <2>2, <1>2, <1>3, <1>14, NamesAndKinds
    <3> QED BY <2>2, <3>1, <1>3, <1>5, StepNames DEF RecordedAlone
  <2> QED BY <1>14, <2>1, <2>2
<1>15. \A i \in Behind' : Steps[i].name # Shared => SkipsPolicy(i)' \/ RecordedAlone(i)'
  BY <1>3, <1>4, <1>14 DEF BehindIsRecorded, SkipsPolicy
<1>16. BehindIsRecorded'
  BY <1>15 DEF BehindIsRecorded
<1>17. AppliedIsRecorded'
  <2>1. CASE applied' = applied
    BY <2>1, <1>3, <1>14 DEF AppliedIsRecorded, SkipsPolicy
  <2>2. CASE applied' = {config} /\ Behind' = DOMAIN Steps
    BY <2>2, <1>3, <1>15 DEF AppliedIsRecorded
  <2> QED BY <1>4, <2>1, <2>2
<1> QED BY <1>8, <1>9, <1>10, <1>11, <1>12, <1>13, <1>16, <1>17
-----------------------------------------------------------------------------
LEMMA StutterIInv ==
  ASSUME RotationIInv, UNCHANGED rotationVars
  PROVE  RotationIInv'
<1> USE DEF RotationIInv, rotationVars
<1>1. RotationTypes' /\ SettingsAreTrue' /\ AlterProgress' /\ OneValue'
  BY DEF RotationTypes, SettingsAreTrue, AlterProgress, OneValue, CurrentOf, Applied
<1>2. BehindIsRotated' /\ RecordedInThisRun'
  BY DEF BehindIsRotated, RecordedInThisRun, Behind, SkipsPolicy, Applied, CurrentOf
<1>3. BehindIsRecorded' /\ AppliedIsRecorded'
  BY DEF BehindIsRecorded, AppliedIsRecorded, Behind, SkipsPolicy, RecordedAlone
<1> QED BY <1>1, <1>2, <1>3

LEMMA NextIInv == RotationIInv /\ [RotationNext]_rotationVars => RotationIInv'
<1> SUFFICES ASSUME RotationIInv, [RotationNext]_rotationVars PROVE RotationIInv'
  OBVIOUS
<1>1. CASE UNCHANGED rotationVars
  BY <1>1, StutterIInv
<1>2. CASE \E c \in Configs : StartRotation(c)
  BY <1>2, StartIInv
<1>3. CASE Lookup
  BY <1>3, LookupIInv
<1>4. CASE AlterTable
  BY <1>4, AlterIInv
<1>5. CASE PutSetting
  BY <1>5, PutIInv
<1>6. CASE Interrupted
  BY <1>6, InterruptedIInv
<1> QED BY <1>1, <1>2, <1>3, <1>4, <1>5, <1>6 DEF RotationNext

(* RotationIInv holds however often the rotation is interrupted and started again, *)
(* with whichever configurations.                                          *)
THEOREM RotationInvariant == RotationSpec => []RotationIInv
<1>1. RotationInit => RotationIInv
  BY InitIInv
<1>2. RotationIInv /\ [RotationNext]_rotationVars => RotationIInv'
  BY NextIInv
<1> QED BY <1>1, <1>2, PTL DEF RotationSpec

(* rotateTables: after a run that came to its end every table has the      *)
(* policy and the TTL of the configuration, but for the tables of a step   *)
(* that an interrupted run had begun when the configuration then went back *)
(* to the recorded one.                                                    *)
THEOREM RotationIsRight == RotationSpec => []RotatedUnlessReverted
<1>1. RotationIInv => RotatedUnlessReverted
  BY DEF RotationIInv, BehindIsRotated, Behind, SkipsPolicy, RotatedUnlessReverted
<1> QED BY <1>1, RotationInvariant, PTL

(* rotateTables: a restart with the configuration of the last whole run    *)
(* alters no table, except that the policy and the TTL of metrics_15s      *)
(* overwrite each other's setting.                                         *)
THEOREM RestartIsIdle == RotationSpec => RestartAltersNothing
<1>1. RotationIInv /\ [RotationNext]_rotationVars =>
        [applied = {config} /\ rpc = "lookup" /\ rpc' = "alter"
           => Steps[step].name = "metrics_15s"]_rotationVars
  <2> SUFFICES ASSUME RotationIInv, RotationNext, applied = {config}, rpc = "lookup",
                      rpc' = "alter", Steps[step].name # "metrics_15s"
               PROVE  FALSE
    OBVIOUS
  <2>1. Lookup
    BY DEF RotationNext, StartRotation, AlterTable, PutSetting, Interrupted
  <2>2. PICK v \in GetSetting(Steps[step].name) :
          ~UpToDate(Steps[step], config, v) \/ Advance
    BY <2>1 DEF Lookup
  <2>3. ~Advance
    BY DEF Advance
  <2>4. SkipsPolicy(step) \/ RecordedAlone(step)
    BY DEF RotationIInv, AppliedIsRecorded, Shared, RotationTypes
  <2> QED BY <2>2, <2>3, <2>4 DEF UpToDate, SkipsPolicy, RecordedAlone, GetSetting
<1> QED BY <1>1, RotationInvariant, PTL DEF RotationSpec, RestartAltersNothing
=============================================================================
