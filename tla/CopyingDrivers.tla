-------------------------- MODULE CopyingDrivers --------------------------
(***************************************************************************)
(* internal/driver/mysql/mysql.go and internal/driver/mongodb/mongodb.go:   *)
(* the engines without a copy statement.  CreateBranch copies the base      *)
(* database object by object, each object a statement of its own, and drops *)
(* what it has made when a statement fails.  Clients on one server - hook,  *)
(* switch, TUI, proxy - look, create, delete and list without a lock among  *)
(* them, and may die between any two statements.                            *)
(*                                                                          *)
(* MySQL reserves the target with CREATE DATABASE, which one client only    *)
(* can win.  MongoDB has no such statement: the first $out brings the       *)
(* database into being, so that two clients may copy into the same one.     *)
(*                                                                          *)
(* The base database is there and has at least one table.  What             *)
(* applications write is left out, and so are the rows, but for whether     *)
(* they are there once or twice.                                            *)
(***************************************************************************)
EXTENDS Integers, Sequences, SequencesExt

CONSTANTS
  Client,         \* processes that call the driver
  Branch,         \* sanitized branch names
  DefaultBranch,  \* config default_branch: a branch, or NoBranch when unset
  NoBranch,
  Conventional,   \* main, master and default
  Base,           \* base_database: the name of the base database
  Table,          \* its tables, or collections
  Extra,          \* its views and triggers (MySQL)
  MaxAbandoned    \* bound: statements that have outlived their callers at once

ASSUME NameAssumption ==
  /\ DefaultBranch \in Branch \cup {NoBranch} /\ NoBranch \notin Branch
  /\ Conventional \subseteq Branch
  /\ Base \notin Branch
ASSUME TableAssumption == Table # {} /\ IsFiniteSet(Table) /\ IsFiniteSet(Extra)
ASSUME BoundAssumption == MaxAbandoned \in Nat

VARIABLES
  engine,     \* the driver the configuration names
  db,         \* the databases, by the branch they belong to, and the base one
  pc,         \* where each client is in its call, or how the call ended
  target,     \* the branch of its call
  todo,       \* tables its CreateBranch has not copied yet, in its order,
              \* and after the last of them the views and triggers
  late,       \* databases whose drop the server runs for a client that gave up
  abandoned,  \* statements of a copy that the server runs for such a client
  disturbed,  \* history: creators whose target was dropped under their copy,
              \* or had rows put into it by such a statement
  blamed      \* history: databases that something has gone wrong with

vars == <<engine, db, pc, target, todo, late, abandoned, disturbed, blamed>>

(* A table of a database: whether it is there, with its indexes or plain,   *)
(* and how many times its rows were copied.                                 *)
Shapes  == {"none", "plain", "indexed"}
Copies  == [shape : Shapes, rows : 0..2]
Nothing == [shape |-> "none", rows |-> 0]
Copied  == [shape |-> "indexed", rows |-> 1]

(* makers: the clients whose statements are in the database.                *)
Databases == [there : BOOLEAN, makers : SUBSET Client,
              tables : [Table -> Copies], extras : SUBSET Extra]
Absent == [there |-> FALSE, makers |-> {},
           tables |-> [t \in Table |-> Nothing], extras |-> {}]
Model  == [there |-> TRUE, makers |-> {},
           tables |-> [t \in Table |-> Copied], extras |-> Extra]

Looking  == {"look", "create", "delete"}
Copying  == {"session", "tables", "rows", "extras", "reset", "undo", "cleanup"}
Ended    == {"exists", "created", "deleted", "failed", "died"}

(* The statements of a copy, by the phase they belong to.                   *)
Statement ==
  [op : {"create"}, to : Branch \cup {Base}]
    \cup [op : {"tables", "rows"}, to : Branch, object : Table]
    \cup [op : {"extras"}, to : Branch, object : Extra]

TypeOK ==
  /\ engine \in {"mysql", "mongodb"}
  /\ db \in [Branch \cup {Base} -> Databases]
  /\ pc \in [Client -> Looking \cup Copying \cup Ended]
  /\ target \in [Client -> Branch]
  /\ todo \in [Client -> Seq(Table \cup Extra)]
  /\ late \in SUBSET (Branch \cup {Base})
  /\ abandoned \in SUBSET Statement
  /\ disturbed \in SUBSET Client
  /\ blamed \in SUBSET (Branch \cup {Base})

Init ==
  /\ engine \in {"mysql", "mongodb"}
  /\ db = [d \in Branch \cup {Base} |-> IF d = Base THEN Model ELSE Absent]
  /\ pc = [c \in Client |-> "failed"]
  /\ target \in [Client -> Branch]
  /\ todo = [c \in Client |-> <<>>]
  /\ late = {} /\ abandoned = {} /\ disturbed = {} /\ blamed = {}

-----------------------------------------------------------------------------
(* Names.                                                                   *)

isBaseBranch(b) == b \in IF DefaultBranch = NoBranch THEN Conventional ELSE {DefaultBranch}

(* Distinct branches have distinct databases, but for those of the base.    *)
formatDBName(b) == IF isBaseBranch(b) THEN Base ELSE b

DB(c) == formatDBName(target[c])

(* A database is listed in MySQL from CREATE DATABASE on, in MongoDB as     *)
(* soon as it has a collection.                                             *)
InSchemata(d) == db[d].there
HasCollection(d) == \E t \in Table : db[d].tables[t].shape # "none"
Listed(d) == IF engine = "mysql" THEN InSchemata(d) ELSE HasCollection(d)

Filled(d) == \A t \in Table : db[d].tables[t].rows = 1
Whole(d) ==
  /\ \A t \in Table : db[d].tables[t] = Copied
  /\ engine = "mysql" => db[d].extras = Extra

Goto(c, phase) == pc' = [pc EXCEPT ![c] = phase]
Move(c, from, to) == pc[c] = from /\ Goto(c, to)
Blame(d) == blamed' = blamed \cup {d}

(* Those who copy into d, and those of them with something in it.           *)
Copiers(d) == {c \in Client : pc[c] \in Copying /\ DB(c) = d}
Involved(d) == Copiers(d) \cap db[d].makers

(* The server drops d, which disturbs others for a reason that excuses what *)
(* becomes of their copies.                                                 *)
Drop(d, others) ==
  /\ db' = [db EXCEPT ![d] = Absent]
  /\ disturbed' = disturbed \cup others
  /\ blamed' = IF others = {} THEN blamed ELSE blamed \cup {d}

(* A copy begins: alone, or among strays whose own target was dropped.      *)
Begin(c) ==
  disturbed' = IF disturbed \cap Copiers(DB(c)) = {} THEN disturbed \ {c} ELSE disturbed \cup {c}

(* What CREATE TABLE ... LIKE and CreateMany, INSERT ... SELECT and $out    *)
(* make of a table: an INSERT doubles the rows, if there were some and no   *)
(* key, and $out puts all rows in place of those that were there.           *)
LaidOut(copy)  == [copy EXCEPT !.shape = "indexed"]
Inserted(copy) == [copy EXCEPT !.rows = IF @ = 0 THEN 1 ELSE 2]
PutOut(copy)   == [shape |-> IF copy.shape = "none" THEN "plain" ELSE copy.shape, rows |-> 1]

(* A client puts table t of its target into a new state.                    *)
SetTable(c, t, copy) ==
  LET d == DB(c) IN
  db' = [db EXCEPT ![d].there = TRUE, ![d].makers = @ \cup {c}, ![d].tables[t] = copy]

(* A client that gives up, or dies, may leave its statement to the server.  *)
Underway(c) ==
  CASE pc[c] = "create" -> {[op |-> "create", to |-> DB(c)]}
    [] pc[c] \in {"tables", "rows", "extras"} /\ todo[c] # <<>> ->
         {[op |-> pc[c], to |-> DB(c), object |-> Head(todo[c])]}
    [] OTHER -> {}
Abandon(c) ==
  abandoned' \in {abandoned} \cup
    IF Cardinality(abandoned) < MaxAbandoned THEN {abandoned \cup Underway(c)} ELSE {}

-----------------------------------------------------------------------------
(* Hook, switch, TUI and proxy look first, and create what they miss.       *)
Ensure(c, b) ==
  /\ pc[c] \in Ended /\ Goto(c, "look")
  /\ target' = [target EXCEPT ![c] = b]
  /\ UNCHANGED <<engine, db, todo, late, abandoned, disturbed, blamed>>

BranchExists(c) ==
  /\ \/ Move(c, "look", IF Listed(DB(c)) THEN "exists" ELSE "create")
     \/ Move(c, "look", "failed")
  /\ UNCHANGED <<engine, db, target, todo, late, abandoned, disturbed, blamed>>

(* Mutant of BranchInfo: the base database under its own name, unprotected. *)
InfoOfDatabase(d) == [Name |-> d, IsProtected |-> FALSE]

(* ListBranches: the databases by the names of their branches.  MongoDB     *)
(* leaves the name of an unset default branch empty.                        *)
listedDefaultBranch ==
  IF engine = "mysql" /\ DefaultBranch = NoBranch THEN "main" ELSE DefaultBranch
BranchInfo(d) == [Name |-> IF d = Base THEN listedDefaultBranch ELSE d, IsProtected |-> d = Base]
ListBranches  == {BranchInfo(d) : d \in {d \in Branch \cup {Base} : Listed(d)}}

(* prune lists, and deletes some time later; a protected one never.         *)
Prune(c) ==
  /\ pc[c] \in Ended
  /\ \E info \in ListBranches :
       ~info.IsProtected /\ target' = [target EXCEPT ![c] = info.Name]
  /\ Goto(c, "delete")
  /\ UNCHANGED <<engine, db, todo, late, abandoned, disturbed, blamed>>

(* DeleteBranch drops the database, if it is there, or may do so later, or  *)
(* fails.  Both engines refuse the base database.                           *)
DropForDelete(c) ==
  LET d == DB(c) IN
  /\ pc[c] = "delete"
  /\ \/ d # Base /\ Goto(c, "deleted") /\ Drop(d, Involved(d)) /\ UNCHANGED late
     \/ d # Base /\ Goto(c, "failed") /\ late' = late \cup {d} /\ UNCHANGED <<db, disturbed, blamed>>
     \/ Goto(c, "failed") /\ UNCHANGED <<db, late, abandoned, disturbed, blamed>>
  /\ UNCHANGED <<engine, target, todo, abandoned>>

MySQLDelete(c) == engine = "mysql" /\ DropForDelete(c)
MongoDelete(c) == engine = "mongodb" /\ DropForDelete(c)

(* The server carries out a drop whose client waits no longer.              *)
LateDrop(d) ==
  /\ d \in late
  /\ late' = late \ {d}
  /\ Drop(d, Involved(d))
  /\ UNCHANGED <<engine, pc, target, todo, abandoned>>

(* What an abandoned statement makes of the database it is for: where it    *)
(* would fail - no such database or table, an object there already - nothing.*)
Outcome(s) ==
  LET d == db[s.to] IN
  CASE s.op = "create" -> [d EXCEPT !.there = TRUE]
    [] s.op = "tables" /\ engine = "mysql" /\ d.there ->
         [d EXCEPT !.tables[s.object] = LaidOut(@)]
    [] s.op = "rows" /\ engine = "mysql" /\ d.tables[s.object].shape # "none" ->
         [d EXCEPT !.tables[s.object] = Inserted(@)]
    [] s.op = "extras" /\ d.there /\ \A t \in Table : d.tables[t].shape # "none" ->
         [d EXCEPT !.extras = @ \cup {s.object}]
    [] s.op = "tables" /\ engine = "mongodb" ->
         [d EXCEPT !.there = TRUE, !.tables[s.object] = PutOut(@)]
    [] s.op = "rows" /\ engine = "mongodb" ->
         [d EXCEPT !.there = TRUE, !.tables[s.object] = LaidOut(@)]
    [] OTHER -> d

(* Who is harmed by it: those whose own INSERT finds the rows there already,*)
(* or has them doubled.  All else is the same whoever does it.              *)
Harmed(s) ==
  {c \in Involved(s.to) : engine = "mysql" /\ s.op = "rows" /\ pc[c] \notin {"undo", "cleanup"}}

(* The server carries out an abandoned statement, or drops it too.  When    *)
(* nobody is at work on the database, nobody will clean up after it.        *)
LateWrite(s) ==
  /\ s \in abandoned /\ abandoned' = abandoned \ {s}
  /\ \/ /\ Outcome(s) # db[s.to]
        /\ db' = [db EXCEPT ![s.to] = Outcome(s)]
        /\ disturbed' = disturbed \cup Harmed(s)
        /\ blamed' = IF Harmed(s) = {} /\ Copiers(s.to) # {} THEN blamed ELSE blamed \cup {s.to}
     \/ UNCHANGED <<db, disturbed, blamed>>
  /\ UNCHANGED <<engine, pc, target, todo, late>>

(* A client dies.                                                           *)
Die(c) ==
  /\ pc[c] \in Copying
  /\ Goto(c, "died")
  /\ Blame(DB(c)) /\ Abandon(c)
  /\ UNCHANGED <<engine, db, target, todo, late, disturbed>>

-----------------------------------------------------------------------------
(* CreateBranch of MySQL.                                                   *)

(* Mutant of CreateDatabase: created is set before the statement.           *)
CreatedTooEarly(c) ==
  LET d == DB(c) IN
  /\ engine = "mysql"
  /\ \/ /\ ~db[d].there /\ Move(c, "create", "session")
        /\ db' = [db EXCEPT ![d] = [Absent EXCEPT !.there = TRUE, !.makers = {c}]]
     \/ db[d].there /\ Move(c, "create", "cleanup") /\ UNCHANGED db
  /\ Begin(c)
  /\ UNCHANGED <<engine, target, todo, late, abandoned, blamed>>

(* CREATE DATABASE, and once more without the character set when it fails.  *)
(* If the first one succeeds and its answer is lost, the second finds the   *)
(* database there, and the call fails over a database it has made.          *)
CreateDatabase(c) ==
  LET d == DB(c)
      made == [Absent EXCEPT !.there = TRUE, !.makers = {c}] IN
  /\ engine = "mysql"
  /\ \/ /\ ~db[d].there /\ Move(c, "create", "session")
        /\ db' = [db EXCEPT ![d] = made]
        /\ UNCHANGED <<abandoned, blamed>>
     \/ /\ ~db[d].there /\ Move(c, "create", "failed")
        /\ db' = [db EXCEPT ![d] = made]
        /\ Blame(d) /\ UNCHANGED abandoned
     \/ Move(c, "create", "failed") /\ Abandon(c) /\ UNCHANGED <<db, blamed>>
  /\ Begin(c)
  /\ UNCHANGED <<engine, target, todo, late>>

(* The tables of the base database, in the order the server lists them.     *)
ListTables(c) == \E order \in SetToSeqs(Table) : todo' = [todo EXCEPT ![c] = order]

(* Mutant of OpenSession: the cleanup is deferred after the session.        *)
SessionBeforeCleanup(c) ==
  /\ engine = "mysql"
  /\ \/ Move(c, "session", "tables") /\ ListTables(c)
     \/ Move(c, "session", "failed") /\ UNCHANGED todo
  /\ UNCHANGED <<engine, db, target, late, abandoned, disturbed, blamed>>

(* A connection of its own with SET FOREIGN_KEY_CHECKS=0, and the list.     *)
OpenSession(c) ==
  /\ engine = "mysql"
  /\ \/ Move(c, "session", "tables") /\ ListTables(c)
     \/ \E step \in {"undo", "cleanup"} : Move(c, "session", step) /\ UNCHANGED todo
  /\ UNCHANGED <<engine, db, target, late, abandoned, disturbed, blamed>>

(* CREATE TABLE IF NOT EXISTS ... LIKE, indexes included.                   *)
CreateTable(c) ==
  LET d == DB(c)  t == Head(todo[c]) IN
  /\ engine = "mysql" /\ db[d].there
  /\ Move(c, "tables", "rows")
  /\ SetTable(c, t, LaidOut(db[d].tables[t]))
  /\ UNCHANGED <<engine, target, todo, late, abandoned, disturbed, blamed>>

(* On to the next table or, after the last one, to the next phase.          *)
NextTable(c, phase) ==
  /\ Goto(c, IF Tail(todo[c]) = <<>> THEN phase ELSE "tables")
  /\ todo' = [todo EXCEPT ![c] = Tail(@)]

(* INSERT ... SELECT.  After the last table the views and triggers are read.*)
CopyRows(c) ==
  LET d == DB(c)  t == Head(todo[c]) IN
  /\ engine = "mysql" /\ pc[c] = "rows"
  /\ db[d].tables[t].shape # "none"
  /\ \/ Tail(todo[c]) # <<>> /\ NextTable(c, "tables")
     \/ /\ Tail(todo[c]) = <<>> /\ Goto(c, "extras")
        /\ \E order \in SetToSeqs(Extra) : todo' = [todo EXCEPT ![c] = order]
  /\ SetTable(c, t, Inserted(db[d].tables[t]))
  /\ UNCHANGED <<engine, target, late, abandoned, disturbed, blamed>>

(* The views and triggers, one by one, on the tables.  One that is there    *)
(* already fails its statement.                                             *)
CreateExtra(c) ==
  LET d == DB(c)  x == Head(todo[c]) IN
  /\ engine = "mysql" /\ pc[c] = "extras"
  /\ \/ /\ todo[c] # <<>> /\ x \notin db[d].extras
        /\ db[d].there /\ \A t \in Table : db[d].tables[t].shape # "none"
        /\ db' = [db EXCEPT ![d].extras = @ \cup {x}, ![d].makers = @ \cup {c}]
        /\ todo' = [todo EXCEPT ![c] = Tail(@)]
        /\ UNCHANGED pc
     \/ /\ todo[c] = <<>> /\ Goto(c, "reset")
        /\ UNCHANGED <<db, todo>>
  /\ UNCHANGED <<engine, target, late, abandoned, disturbed, blamed>>

(* A statement of the copy fails, or is given up: the session is put in     *)
(* order first.                                                             *)
FailMySQLCopy(c) ==
  /\ engine = "mysql"
  /\ \E phase \in {"tables", "rows", "extras"} : Move(c, phase, "undo")
  /\ Abandon(c)
  /\ UNCHANGED <<engine, db, target, todo, late, disturbed, blamed>>

(* Mutant of ResetSession: the copy's error is lost when the reset is fine. *)
ResetForgetsError(c) ==
  /\ \/ Move(c, "reset", "created") \/ Move(c, "undo", "created")
     \/ Move(c, "reset", "cleanup") \/ Move(c, "undo", "cleanup")
  /\ UNCHANGED <<engine, db, target, todo, late, abandoned, disturbed, blamed>>

(* SET FOREIGN_KEY_CHECKS=1.  Its failure fails the call.                   *)
ResetSession(c) ==
  /\ \/ Move(c, "reset", "created")
     \/ Move(c, "reset", "cleanup")
     \/ Move(c, "undo", "cleanup")
  /\ UNCHANGED <<engine, db, target, todo, late, abandoned, disturbed, blamed>>

(* A call that fails drops the database of its target's name, whatever that *)
(* is by then.  The statement has five seconds of its own.                  *)
DropForCleanup(c, others) ==
  LET d == DB(c) IN
  /\ Move(c, "cleanup", "failed")
  /\ \/ Drop(d, others) /\ UNCHANGED late
     \/ /\ late' \in {late, late \cup {d}}
        /\ Blame(d)
        /\ UNCHANGED <<db, disturbed>>
  /\ UNCHANGED <<engine, target, todo, abandoned>>

(* MySQL's is no excuse for what it hits, but for one that was disturbed.   *)
MySQLCleanup(c) ==
  /\ engine = "mysql"
  /\ DropForCleanup(c, IF c \in disturbed THEN Involved(DB(c)) \ {c} ELSE {})

-----------------------------------------------------------------------------
(* CreateBranch of MongoDB.                                                 *)

ListCollections(c) ==
  /\ engine = "mongodb"
  /\ \/ DB(c) # Base /\ Move(c, "create", "tables") /\ ListTables(c)
     \/ Move(c, "create", "failed") /\ UNCHANGED todo
  /\ Begin(c)
  /\ UNCHANGED <<engine, db, target, late, abandoned, blamed>>

(* $match, $out: a collection with all its rows.                            *)
CopyCollection(c) ==
  LET d == DB(c)  t == Head(todo[c]) IN
  /\ engine = "mongodb" /\ Move(c, "tables", "rows")
  /\ SetTable(c, t, PutOut(db[d].tables[t]))
  /\ UNCHANGED <<engine, target, todo, late, abandoned, disturbed, blamed>>

(* The indexes: a list that cannot be read, or not to its end, is passed    *)
(* over.  CreateMany brings the collection into being if it is gone.        *)
CreateIndexes(c) ==
  LET d == DB(c)  t == Head(todo[c]) IN
  /\ engine = "mongodb" /\ pc[c] = "rows"
  /\ \/ /\ SetTable(c, t, LaidOut(db[d].tables[t]))
        /\ UNCHANGED blamed
     \/ Blame(d) /\ UNCHANGED db
  /\ NextTable(c, "created")
  /\ UNCHANGED <<engine, target, late, abandoned, disturbed>>

(* The copy fails, or its context ends under a $out or CreateMany.  Once a  *)
(* collection has been tried, the target is dropped.                        *)
FailMongoCopy(c) ==
  /\ engine = "mongodb"
  /\ \E phase \in {"tables", "rows"} : Move(c, phase, "cleanup")
  /\ Abandon(c)
  /\ UNCHANGED <<engine, db, target, todo, late, disturbed, blamed>>

MongoCleanup(c) == engine = "mongodb" /\ DropForCleanup(c, Involved(DB(c)) \ {c})

-----------------------------------------------------------------------------
Next ==
  \/ \E c \in Client :
       \/ \E b \in Branch : Ensure(c, b)
       \/ BranchExists(c) \/ Prune(c) \/ Die(c)
       \/ CreateDatabase(c) \/ OpenSession(c) \/ CreateTable(c) \/ CopyRows(c)
       \/ CreateExtra(c) \/ ResetSession(c) \/ FailMySQLCopy(c) \/ MySQLCleanup(c)
       \/ MySQLDelete(c)
       \/ ListCollections(c) \/ CopyCollection(c) \/ CreateIndexes(c)
       \/ FailMongoCopy(c) \/ MongoCleanup(c) \/ MongoDelete(c)
  \/ \E d \in Branch : LateDrop(d)
  \/ \E s \in abandoned : LateWrite(s)

Spec == Init /\ [][Next]_vars

-----------------------------------------------------------------------------
(* CreateBranch (mysql.go:216, mongodb.go:128) that reports success leaves  *)
(* the whole branch: every table with its rows once and its indexes, views  *)
(* and triggers.  Excused is a call whose target was dropped under it, by a *)
(* prune, or in MongoDB by another call that failed, and one of MySQL that  *)
(* an INSERT has met which an earlier call had abandoned; and MongoDB, which*)
(* passes over indexes it cannot list, for the indexes.                     *)
CreatedIsWhole ==
  [][\A c \in Client : (pc[c] # "created" /\ pc'[c] = "created" /\ c \notin disturbed) =>
       /\ Filled(DB(c))'
       /\ engine = "mysql" \/ DB(c) \notin blamed' => Whole(DB(c))']_vars

(* MySQL's cleanup (mysql.go:240) drops nothing but what its own call has   *)
(* made: not the branch another client has finished, and may have told its  *)
(* caller of, nor one that is being copied.  Excused are, again, a call     *)
(* whose target a prune has dropped and one that met an abandoned INSERT.   *)
CleanupDropsOwn ==
  [][\A c \in Client :
       /\ engine = "mysql" /\ pc[c] = "cleanup" /\ pc'[c] # "cleanup"
       /\ db'[DB(c)] # db[DB(c)] /\ c \notin disturbed
       => c \in db[DB(c)].makers]_vars

(* A database that is there in part, with nobody at work on it, has a cause *)
(* on record: a client that died, a drop or an answer that was lost, a copy *)
(* that was dropped on its way, an index that could not be read, or a       *)
(* statement that the server carried out when its caller had given it up    *)
(* and cleaned up.  Else a copy that fails leaves nothing behind            *)
(* (mysql.go:240, mongodb.go:120), nor does one whose abandoned statement   *)
(* was carried out before its cleanup.                                      *)
PartialIsExplained ==
  \A d \in Branch : (db[d].there /\ Copiers(d) = {} /\ ~Whole(d)) => d \in blamed
=============================================================================
