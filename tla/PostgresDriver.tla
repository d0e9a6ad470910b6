--------------------------- MODULE PostgresDriver ---------------------------
(***************************************************************************)
(* internal/driver/postgres/postgres.go: BranchExists, CreateBranch and     *)
(* DeleteBranch, statement by statement, called by several processes at     *)
(* once on one server, with client sessions that come, go and come back.    *)
(*                                                                          *)
(* Every caller passes sanitized names (main.go:549, 933, proxy.go:373,     *)
(* tui.go:294), so the text in a database's comment is always the name the  *)
(* next caller compares it with: the comparison in CreateBranch never finds *)
(* a collision, and the comment itself has no part in the state here.       *)
(*                                                                          *)
(* databases is pg_database, restricted to the base database, which is the  *)
(* template of all others, and to its branches.                             *)
(***************************************************************************)
EXTENDS Integers, FiniteSets, StoreState

CONSTANTS
  Client,   \* application sessions
  MaxLate   \* bound: abandoned statements the server runs at one time

ASSUME BaseAssumption == Base \in Name

VARIABLES
  sessions,   \* <<client, database>>: pg_stat_activity
  busy,       \* the sessions that are in a transaction
  op,         \* the operation each process called last
  target,     \* its argument
  pc          \* the statement it is at, or how it ended

serverVars == <<databases, late, sessions, busy>>
driverVars == <<serverVars, op, target, pc>>

(* Ends of BranchExists: "exists", "missing".  Of CreateBranch and          *)
(* DeleteBranch: "created", "deleted".  Of each: "failed", an error.        *)
Finished  == {"exists", "missing", "created", "deleted", "failed"}
Statement == {"query", "inspect", "terminate", "clone", "comment", "evict", "drop", "dropped"}

(* The operation of a statement, or of an ending.                           *)
Belongs ==
  [exists |-> {"query", "exists", "missing", "failed"},
   create |-> {"inspect", "terminate", "clone", "comment", "created", "failed"},
   delete |-> {"evict", "drop", "dropped", "deleted", "failed"}]

DriverTypeOK ==
  /\ databases \in SUBSET Name
  /\ late \in SUBSET ({"create", "delete"} \X Name)
  /\ sessions \in SUBSET (Client \X Name)
  /\ busy \in SUBSET (Client \X Name)
  /\ op \in [Proc -> {"exists", "create", "delete"}]
  /\ target \in [Proc -> Name]
  /\ pc \in [Proc -> Finished \cup Statement]
  /\ \A p \in Proc : pc[p] \in Belongs[op[p]]

DriverInit ==
  /\ databases \in {S \in SUBSET Name : Base \in S}
  /\ late = {} /\ sessions = {} /\ busy = {}
  /\ op = [p \in Proc |-> "exists"]
  /\ target = [p \in Proc |-> Base]
  /\ pc = [p \in Proc |-> "failed"]

Goto(p, statement) == pc' = [pc EXCEPT ![p] = statement]
callVars == <<op, target>>

InUse(n) == \E s \in Client : <<s, n>> \in sessions

(* pg_terminate_backend for every session on n.                             *)
Terminate(n) ==
  /\ sessions' = {x \in sessions : x[2] # n}
  /\ busy' = {x \in busy : x[2] # n}

-----------------------------------------------------------------------------
(* p calls an operation; each process uses the driver from one goroutine.   *)
Call(p, operation, n) ==
  /\ pc[p] \in Finished
  /\ op' = [op EXCEPT ![p] = operation]
  /\ target' = [target EXCEPT ![p] = n]
  /\ Goto(p, CASE operation = "exists" -> "query"
               [] operation = "create" -> "inspect"
               [] operation = "delete" -> "evict")
  /\ UNCHANGED serverVars

(* BranchExists: one row of pg_database, or none.                           *)
QueryAnswered(p) ==
  /\ pc[p] = "query"
  /\ Goto(p, IF target[p] \in databases THEN "exists" ELSE "missing")
  /\ UNCHANGED <<serverVars, callVars>>

(* CreateBranch: the lengths of the names and the comment of the target are *)
(* in order.                                                                *)
Inspected(p) ==
  /\ pc[p] = "inspect"
  /\ Goto(p, "terminate")
  /\ UNCHANGED <<serverVars, callVars>>

(* The sessions on the template are terminated, or the role may not do so,  *)
(* which is tolerated.                                                      *)
TemplateFreed(p) ==
  /\ pc[p] = "terminate"
  /\ Goto(p, "clone")
  /\ Terminate(Base) \/ UNCHANGED <<sessions, busy>>
  /\ UNCHANGED <<databases, late, callVars>>

(* Mutant of CloneDuplicate: any error of CREATE is taken for a duplicate.  *)
CloneErrorIgnored(p) ==
  /\ pc[p] = "clone"
  /\ Goto(p, "created")
  /\ UNCHANGED <<serverVars, callVars>>

(* CREATE DATABASE finds the target there (42P04), which is a success.      *)
CloneDuplicate(p) ==
  /\ pc[p] = "clone" /\ target[p] \in databases
  /\ Goto(p, "created")
  /\ UNCHANGED <<serverVars, callVars>>

(* CREATE DATABASE ... TEMPLATE succeeds; it takes an unused template.      *)
Cloned(p) ==
  /\ pc[p] = "clone" /\ target[p] \notin databases /\ ~InUse(Base)
  /\ databases' = databases \cup {target[p]}
  /\ Goto(p, "comment")
  /\ UNCHANGED <<late, sessions, busy, callVars>>

(* The comment is written; it needs the database to be there still.         *)
Commented(p) ==
  /\ pc[p] = "comment" /\ target[p] \in databases
  /\ Goto(p, "created")
  /\ UNCHANGED <<serverVars, callVars>>

(* DeleteBranch, not for the base database: its sessions are terminated.    *)
Evicted(p) ==
  /\ pc[p] = "evict" /\ target[p] # Base
  /\ Goto(p, "drop")
  /\ Terminate(target[p]) \/ UNCHANGED <<sessions, busy>>
  /\ UNCHANGED <<databases, late, callVars>>

(* DROP DATABASE IF EXISTS, of a database nobody is connected to.           *)
Dropped(p) ==
  /\ pc[p] = "drop" /\ ~InUse(target[p])
  /\ databases' = databases \ {target[p]}
  /\ Goto(p, "dropped")
  /\ UNCHANGED <<late, sessions, busy, callVars>>

DropReturns(p) ==
  /\ pc[p] = "dropped"
  /\ Goto(p, "deleted")
  /\ UNCHANGED <<serverVars, callVars>>

(* Mutant of CallFails: every error is reported as a missing database.      *)
CallFindsNothing(p) ==
  /\ pc[p] \in Statement
  /\ Goto(p, "missing")
  /\ UNCHANGED <<serverVars, callVars>>

(* A statement fails (template or target in use, base database protected,   *)
(* database gone, connection lost, context done): the operation returns the *)
(* error.  A CREATE or DROP under way may still be carried out.             *)
CallFails(p) ==
  /\ pc[p] \in Statement
  /\ Goto(p, "failed")
  /\ \/ UNCHANGED late
     \/ /\ pc[p] \in {"clone", "drop"}
        /\ late' = late \cup {<<op[p], target[p]>>}
        /\ Cardinality(late') <= MaxLate
  /\ UNCHANGED <<databases, sessions, busy, callVars>>

(* The server finishes an abandoned statement, if nobody is in its way.     *)
LateStatement(operation, n) ==
  /\ <<operation, n>> \in late
  /\ late' = late \ {<<operation, n>>}
  /\ databases' =
       IF operation = "create"
       THEN IF InUse(Base) THEN databases ELSE databases \cup {n}
       ELSE IF InUse(n) THEN databases ELSE databases \ {n}
  /\ UNCHANGED <<sessions, busy, op, target, pc>>

(* An application connects (a pool does so again at once), starts a         *)
(* transaction, ends it, disconnects.                                       *)
Connect(s, n) ==
  /\ n \in databases
  /\ \A m \in Name : <<s, m>> \notin sessions
  /\ sessions' = sessions \cup {<<s, n>>}
  /\ UNCHANGED <<databases, late, busy, op, target, pc>>

Begin(x) ==
  /\ x \in sessions
  /\ busy' = busy \cup {x}
  /\ UNCHANGED <<databases, late, sessions, op, target, pc>>

Commit(x) ==
  /\ busy' = busy \ {x}
  /\ UNCHANGED <<databases, late, sessions, op, target, pc>>

Disconnect(x) ==
  /\ x \notin busy
  /\ sessions' = sessions \ {x}
  /\ UNCHANGED <<databases, late, busy, op, target, pc>>

Run(p) ==
  \/ QueryAnswered(p)
  \/ Inspected(p) \/ TemplateFreed(p) \/ CloneDuplicate(p) \/ Cloned(p) \/ Commented(p)
  \/ Evicted(p) \/ Dropped(p) \/ DropReturns(p)
  \/ CallFails(p)

Applications ==
  \/ \E s \in Client, n \in Name : Connect(s, n)
  \/ \E x \in sessions : Begin(x) \/ Commit(x) \/ Disconnect(x)

Server == \E operation \in {"create", "delete"}, n \in Name : LateStatement(operation, n)

(* The driver under callers that call what they like.                       *)
DriverNext ==
  \/ \E p \in Proc : Run(p) \/ \E o \in {"exists", "create", "delete"}, n \in Name : Call(p, o, n)
  \/ Applications \/ Server

DriverSpec == DriverInit /\ [][DriverNext]_driverVars

-----------------------------------------------------------------------------
Result(p) ==
  CASE pc[p] = "exists"  -> "yes"
    [] pc[p] = "missing" -> "no"
    [] pc[p] = "failed"  -> "error"
    [] pc[p] \in {"created", "deleted"} -> "ok"
    [] pc[p] \in {"comment", "dropped"} -> "done"
    [] OTHER -> "pending"

callOf == [p \in Proc |-> [op |-> op[p], name |-> target[p], result |-> Result(p)]]

Contract == INSTANCE BranchStore WITH call <- callOf

(* The driver keeps its contract (driver.go:24-45): calls of several        *)
(* processes take effect one at a time, success means the effect has been   *)
(* had, and the base database is never dropped.                             *)
ImplementsBranchStore == Contract!Spec
=============================================================================
