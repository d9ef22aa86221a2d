--------------------------- MODULE SchemaUpgrade ----------------------------
(***************************************************************************)
(* The schema upgrade that every gigapipe process runs when it starts      *)
(* (ctrl/qryn/maintenance/update.go).  A script file with key k is a list  *)
(* of statements; the table ver remembers how many of them were executed.  *)
(* A process executes statement i and then inserts i + 1 into ver, with    *)
(* nothing that makes the two atomic and nothing that keeps two processes  *)
(* apart; a process that dies or panics is started again.                  *)
(*                                                                         *)
(* A table or view is the set of its columns; no column stands for "does   *)
(* not exist".                                                             *)
(***************************************************************************)
EXTENDS Naturals, FiniteSets, Sequences, SequencesExt

CONSTANTS Instances,   \* gigapipe processes of the deployment
          FileOrder,   \* the keys of the script files, in execution order
          Scripts,     \* [key -> Seq(Statement)]
          Names,       \* tables and views
          Columns,
          Sources,     \* the views that feed the index from time_series
          Deployments  \* the deployments to look at: their processes, the
                       \* versions their database starts from, FEDERATED,
                       \* and how often processes die and FEDERATED is
                       \* switched on at most

Keys == ToSet(FileOrder)

Statement == [op : {"create", "alter", "rename", "drop"}, name : Names,
              to : Names, cols : SUBSET Columns, guarded : BOOLEAN,
              keys : SUBSET Names]  \* tables whose oid {{.OID_KEY}} refers to

Deployment == [fleet : SUBSET Instances, from : [Keys -> Nat], federated : BOOLEAN,
               crashes : Nat, toggles : Nat]

ASSUME SchemaAssumption ==
  /\ Scripts \in [Keys -> Seq(Statement)]
  /\ Sources \subseteq Names
  /\ {"oid"} \subseteq Columns
  /\ Deployments \subseteq Deployment
  /\ IsFiniteSet(Instances)

VARIABLES db,         \* [Names -> SUBSET Columns]
          ver,        \* [Keys -> Nat]: max(ver) of the key
          federated,  \* the FEDERATED variable of the deployment
          pc, file, pos, fed,  \* of each process: where it is, its file, its
                               \* loop counter i, federation.Enabled()
          fleet,      \* the processes of the deployment
          crashes, toggles,  \* what is left of their bounds
          switched,   \* history: FEDERATED was switched on
          overtaken   \* history: the names that a process has put in place
                      \* with a statement others had recorded before

vars == <<fleet, db, ver, federated, pc, file, pos, fed, crashes, toggles, switched, overtaken>>
envVars == <<fleet, federated, crashes, toggles, switched>>

NoTables == [n \in Names |-> {}]
k(p) == FileOrder[file[p]]

TypeOK ==
  /\ db \in [Names -> SUBSET Columns]
  /\ \A f \in Keys : ver[f] \in 0..Len(Scripts[f])
  /\ pc \in [Instances -> {"down", "read", "exec", "record", "done"}]
  /\ file \in [Instances -> 1..Len(FileOrder)]
  /\ \A p \in Instances : pos[p] \in 0..Len(Scripts[k(p)])
  /\ fed \in [Instances -> BOOLEAN]
  /\ switched \in BOOLEAN /\ overtaken \subseteq Names
-----------------------------------------------------------------------------
(* What ClickHouse does with a rendered statement.  CREATE ... IF NOT      *)
(* EXISTS carries the oid column when federation is on; a statement in     *)
(* {{if .Federated}} renders to nothing when it is off; RENAME and DROP    *)
(* say IF EXISTS.                                                          *)

(* Mutant: RENAME without IF EXISTS.                                       *)
CollidesStrictRename(s, d) ==
  \/ s.op \in {"rename", "alter"} /\ d[s.name] = {}
  \/ s.op = "rename" /\ d[s.to] # {}

Collides(s, d) == \/ s.op = "rename" /\ d[s.name] # {} /\ d[s.to] # {}
                  \/ s.op = "alter" /\ d[s.name] = {}

(* {{.OID_KEY}} in a sorting key or in the SELECT of a view is an unknown  *)
(* column when the table was made before FEDERATED was on; the statement   *)
(* is analysed before IF NOT EXISTS is looked at.                          *)
LacksOid(s, d, isFed) == isFed /\ \E x \in s.keys : "oid" \notin d[x]

Fails(s, d, isFed) == Collides(s, d) \/ LacksOid(s, d, isFed)

Skipped(s, isFed) == s.guarded /\ ~isFed

Apply(s, d, isFed) ==
  CASE Skipped(s, isFed) -> d
    [] s.op = "create" /\ d[s.name] = {} /\ ~Skipped(s, isFed) ->
         [d EXCEPT ![s.name] = s.cols \cup (IF isFed THEN {"oid"} ELSE {})]
    [] s.op = "alter" /\ ~Skipped(s, isFed) -> [d EXCEPT ![s.name] = @ \cup s.cols]
    [] s.op = "rename" /\ d[s.name] # {} ->
         [d EXCEPT ![s.to] = d[s.name], ![s.name] = {}]
    [] s.op = "drop" -> [d EXCEPT ![s.name] = {}]
    [] OTHER -> d

(* The schema after the first n statements of a file. *)
Replay(f, n, isFed) ==
  LET after[i \in 0..Len(Scripts[f])] ==
        IF i = 0 THEN NoTables ELSE Apply(Scripts[f][i], after[i - 1], isFed)
  IN  after[n]

FileNames(f) == {s.name : s \in ToSet(Scripts[f])} \cup {s.to : s \in ToSet(Scripts[f])}

(* What the script files keep to: a file is executed once, no two name the *)
(* same table, a table has a column besides oid, and a guarded statement   *)
(* adds oid to a table; only CREATE and ALTER refer to oid, of tables of   *)
(* their file.  Executed one after the other on an empty database, with    *)
(* FEDERATED on or off throughout, none of the statements fails, and none  *)
(* leaves the index without a view.                                        *)
ASSUME ScriptsAssumption ==
  /\ FileOrder \in Seq(Keys) /\ Len(FileOrder) > 0
  /\ \A i, j \in DOMAIN FileOrder : FileOrder[i] = FileOrder[j] => i = j
  /\ \A f, g \in Keys : f # g => FileNames(f) \cap FileNames(g) = {}
  /\ \A f \in Keys : \A s \in ToSet(Scripts[f]) :
       /\ s.op = "create" => s.cols \ {"oid"} # {}
       /\ s.guarded => s.op = "alter" /\ s.cols = {"oid"}
       /\ s.keys # {} => s.op \in {"create", "alter"} /\ s.keys \subseteq FileNames(f)
  /\ \A f \in Keys : \A n \in 1..Len(Scripts[f]) :
       /\ \A isFed \in BOOLEAN : ~Fails(Scripts[f][n], Replay(f, n - 1, isFed), isFed)
       /\ (\E x \in Sources : Replay(f, n - 1, FALSE)[x] # {})
            => \E x \in Sources : Replay(f, n, FALSE)[x] # {}
  /\ \A d \in Deployments : \A f \in Keys : d.from[f] <= Len(Scripts[f])

(* A database without gigapipe tables, or one an earlier release has left. *)
Init ==
  /\ \E d \in Deployments :
       /\ fleet = d.fleet
       /\ ver = d.from
       /\ federated = d.federated
       /\ crashes = d.crashes /\ toggles = d.toggles
  /\ db = [x \in Names |-> UNION {Replay(f, ver[f], federated)[x] : f \in Keys}]
  /\ pc = [p \in Instances |-> "down"]
  /\ file = [p \in Instances |-> 1]
  /\ pos = [p \in Instances |-> 0]
  /\ fed = [p \in Instances |-> FALSE]
  /\ switched = FALSE /\ overtaken = {}
-----------------------------------------------------------------------------
(* Init and Update of a process. *)

StartUp(p) ==
  /\ pc[p] = "down"
  /\ pc' = [pc EXCEPT ![p] = "read"]
  /\ file' = [file EXCEPT ![p] = 1]
  /\ pos' = [pos EXCEPT ![p] = 0]
  /\ fed' = [fed EXCEPT ![p] = federated]
  /\ UNCHANGED <<db, ver, overtaken, envVars>>

(* Mutant: the loop starts behind the recorded version.                    *)
FirstScriptSkipsOne(p) == ver[k(p)] + 1

(* SELECT max(ver) *)
FirstScript(p) == ver[k(p)]

ReadVer(p) ==
  /\ pc[p] = "read"
  /\ pos' = [pos EXCEPT ![p] = FirstScript(p)]
  /\ pc' = [pc EXCEPT ![p] = "exec"]
  /\ UNCHANGED <<db, ver, file, fed, overtaken, envVars>>

Current(p) == Scripts[k(p)][pos[p] + 1]
More(p) == pos[p] < Len(Scripts[k(p)])

ExecScript(p) ==
  /\ pc[p] = "exec" /\ More(p)
  /\ ~Fails(Current(p), db, fed[p]) \/ Skipped(Current(p), fed[p])
  /\ db' = Apply(Current(p), db, fed[p])
  /\ overtaken' = IF ver[k(p)] > pos[p] /\ db[Current(p).name] # db'[Current(p).name]
                  THEN overtaken \cup {Current(p).name} ELSE overtaken
  /\ pc' = [pc EXCEPT ![p] = "record"]
  /\ UNCHANGED <<ver, file, pos, fed, envVars>>

(* initDB panics with the error. *)
ExecError(p) ==
  /\ pc[p] = "exec" /\ More(p)
  /\ Fails(Current(p), db, fed[p]) /\ ~Skipped(Current(p), fed[p])
  /\ pc' = [pc EXCEPT ![p] = "down"]
  /\ UNCHANGED <<db, ver, file, pos, fed, overtaken, envVars>>

Recorded(p) == pos[p] + 1

MaxVer(f, v) == IF v > ver[f] THEN v ELSE ver[f]

(* INSERT INTO ver *)
RecordVer(p) ==
  /\ pc[p] = "record"
  /\ ver' = [ver EXCEPT ![k(p)] = MaxVer(k(p), Recorded(p))]
  /\ pos' = [pos EXCEPT ![p] = @ + 1]
  /\ pc' = [pc EXCEPT ![p] = "exec"]
  /\ UNCHANGED <<db, file, fed, overtaken, envVars>>

NextFile(p) ==
  /\ pc[p] = "exec" /\ ~More(p)
  /\ IF file[p] < Len(FileOrder)
     THEN /\ file' = [file EXCEPT ![p] = @ + 1]
          /\ pos' = [pos EXCEPT ![p] = 0]
          /\ pc' = [pc EXCEPT ![p] = "read"]
     ELSE pc' = [pc EXCEPT ![p] = "done"] /\ UNCHANGED <<file, pos>>
  /\ UNCHANGED <<db, ver, fed, overtaken, envVars>>

(* The process dies, loses its connection or is rolled. *)
Crash(p) ==
  /\ pc[p] # "down" /\ crashes > 0
  /\ crashes' = crashes - 1
  /\ pc' = [pc EXCEPT ![p] = "down"]
  /\ UNCHANGED <<fleet, db, ver, federated, file, pos, fed, toggles, switched, overtaken>>

(* The operator switches FEDERATED on; a process sees it when it starts. *)
EnableFederation ==
  /\ ~federated /\ toggles > 0
  /\ federated' = TRUE /\ toggles' = toggles - 1 /\ switched' = TRUE
  /\ UNCHANGED <<fleet, db, ver, pc, file, pos, fed, crashes, overtaken>>

Upgrade(p) == StartUp(p) \/ ReadVer(p) \/ ExecScript(p) \/ ExecError(p)
              \/ RecordVer(p) \/ NextFile(p)

Next == \/ \E p \in fleet : Upgrade(p) \/ Crash(p)
        \/ EnableFederation

Spec == Init /\ [][Next]_vars

(* A process that runs goes on, and one that died is started again. *)
FairSpec == Spec /\ \A p \in Instances : WF_vars(p \in fleet /\ Upgrade(p))
-----------------------------------------------------------------------------
(* The schema but for the column that depends on FEDERATED. *)
Shape(d, x) == d[x] \ {"oid"}

(* However often a single process is interrupted, the schema is the one    *)
(* its recorded versions stand for, plus at most the one statement it has  *)
(* executed and not recorded: repeating that one does no harm.             *)
RecordedMeansApplied ==
  Cardinality(fleet) = 1 => \A f \in Keys :
     \E n \in {ver[f], ver[f] + 1} :
        /\ n <= Len(Scripts[f])
        /\ \A x \in FileNames(f) : Shape(db, x) = Shape(Replay(f, n, FALSE), x)

(* From the moment the index view exists, some view feeds the index from   *)
(* time_series, all through the statements that exchange it (RENAME to     *)
(* the backup name, CREATE, DROP of the backup).                           *)
IndexAlwaysFed ==
  [][(\E x \in Sources : db[x] # {}) => (\E x \in Sources : db'[x] # {})]_vars

(* Processes that upgrade the same database at the same time end with the  *)
(* schema one of them alone would have made, but for a name that one of    *)
(* them put in place with a statement the others had recorded before: that *)
(* one can be of an earlier statement, and then it stays.                  *)
SchemaConverges ==
  (\A p \in fleet : pc[p] = "done") =>
     \A f \in Keys : \A x \in FileNames(f) \ overtaken :
        Shape(db, x) = Shape(Replay(f, Len(Scripts[f]), FALSE), x)

(* FEDERATED was switched on too late: a statement that is not recorded    *)
(* refers to the oid of a table that was made without it.                  *)
SwitchedTooLate ==
  /\ switched
  /\ \E f \in Keys : /\ ver[f] < Len(Scripts[f])
                     /\ LacksOid(Scripts[f][ver[f] + 1], db, federated)

(* The upgrade comes to its end in every process, in spite of crashes and  *)
(* of statements that collide with those of another process.  Only where   *)
(* FEDERATED was switched on too late does it never come any further.      *)
UpgradeCompletes ==
  \/ <>[](\A p \in fleet : pc[p] = "done")
  \/ <>[]SwitchedTooLate

(* initDB panics when a statement fails.  A process that is alone does so  *)
(* only over the oid of a table that was made before FEDERATED was         *)
(* switched on, not over the statement that it repeats after a crash.      *)
AlonePanicsOverOid ==
  Cardinality(fleet) = 1 =>
     \A p \in fleet :
        /\ pc[p] = "exec" /\ More(p)
        /\ Fails(Current(p), db, fed[p]) /\ ~Skipped(Current(p), fed[p])
        => SwitchedTooLate

(* updateScripts: interrupted or run by two processes, the upgrade leaves  *)
(* the schema that the recorded versions stand for.                        *)
UpgradeIsSound ==
  /\ TypeOK
  /\ RecordedMeansApplied
  /\ SchemaConverges
  /\ AlonePanicsOverOid
=============================================================================
