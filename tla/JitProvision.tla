---------------------------- MODULE JitProvision ----------------------------
(***************************************************************************)
(* internal/proxy/proxy.go: on-demand ("JIT") provisioning.  Every client   *)
(* connection of the proxy runs ensureBranchExists for the branch it is     *)
(* routed to: look in the in-memory cache of provisioned branches, take the *)
(* keyed lock of the branch, look again, ask the driver whether the         *)
(* database exists, create it if not, and put the branch into the cache.    *)
(*                                                                          *)
(* Around it: other BranchBase processes (switch, the Git hook, the TUI)    *)
(* that create databases, others (prune) that drop them, a database server  *)
(* that can fail, be slow, or finish a CREATE DATABASE whose client has     *)
(* given up, and the two nested deadlines of the code (10 s for the         *)
(* connection, 5 s for the driver calls).                                   *)
(*                                                                          *)
(* The keyed lock is used through what KeyLock promises, which KeyedMutex   *)
(* implements.                                                              *)
(***************************************************************************)
EXTENDS Integers

CONSTANTS
  Conn,           \* connection handler goroutines
  Branch,         \* sanitized branch names
  DefaultBranch,  \* its database is the base database
  ConnBudget,     \* startupTimeout, in units of the clock
  ProvBudget      \* the timeout of the driver calls, in the same unit

ASSUME BranchAssumption == DefaultBranch \in Branch
ASSUME BudgetAssumption == ConnBudget \in Nat /\ ProvBudget \in Nat

VARIABLES
  db,           \* the database of each branch, and where it came from
  running,      \* abandoned CREATE DATABASE statements the server still runs
  provisioned,  \* Server.provisioned, the cache
  pc,           \* where each handler is in ensureBranchExists
  branch,       \* the branch each handler was routed to
  connLeft,     \* what is left of the handler's connCtx
  provLeft      \* what is left of its provCtx

vars == <<db, running, provisioned, pc, branch, connLeft, provLeft>>

(* "start": about to read the cache. "waiting": in keyLock.Lock. "locked":  *)
(* about to read the cache again. "exists", "creating", "created": in the   *)
(* driver. "mark": about to write the cache.                                *)
InDriver  == {"exists", "creating", "created"}
InSection == InDriver \cup {"locked", "mark"}
Active    == InSection \cup {"start", "waiting"}
Ended     == {"served", "refused"}

TypeOK ==
  /\ db \in [Branch -> {"absent", "own", "foreign", "dropped"}]
  /\ running \in SUBSET Branch
  /\ provisioned \in SUBSET Branch
  /\ pc \in [Conn -> Active \cup Ended \cup {"new"}]
  /\ branch \in [Conn -> Branch]
  /\ connLeft \in [Conn -> 0..ConnBudget]
  /\ provLeft \in [Conn -> 0..ProvBudget]

Init ==
  /\ db \in {f \in [Branch -> {"absent", "foreign"}] : f[DefaultBranch] = "foreign"}
  /\ running = {}
  /\ provisioned = {}
  /\ pc = [c \in Conn |-> "new"]
  /\ branch = [c \in Conn |-> DefaultBranch]
  /\ connLeft = [c \in Conn |-> 0]
  /\ provLeft = [c \in Conn |-> 0]

(* "absent": never created. "own": created by a handler that waited for it. *)
(* "foreign": it was there, or another process or an abandoned statement    *)
(* created it. "dropped": it existed, and another process dropped it.       *)
databases == {b \in Branch : db[b] \in {"own", "foreign"}}

(* The effect of CREATE DATABASE: none if the database exists.              *)
Create(b, origin) == db' = [db EXCEPT ![b] = IF b \in databases THEN @ ELSE origin]

Goto(c, phase) == pc' = [pc EXCEPT ![c] = phase]

-----------------------------------------------------------------------------
(* handleConnection has resolved the active branch b and starts connCtx.    *)
(* The default branch is never provisioned.                                 *)
Route(c, b) ==
  /\ pc[c] = "new"
  /\ branch' = [branch EXCEPT ![c] = b]
  /\ connLeft' = [connLeft EXCEPT ![c] = ConnBudget]
  /\ Goto(c, IF b = DefaultBranch THEN "served" ELSE "start")
  /\ UNCHANGED <<db, running, provisioned, provLeft>>

(* The fast path: a cached branch is served with no lock and no query.      *)
FastPath(c) ==
  /\ pc[c] = "start"
  /\ Goto(c, IF branch[c] \in provisioned THEN "served" ELSE "waiting")
  /\ UNCHANGED <<db, running, provisioned, branch, connLeft, provLeft>>

(* Mutant of TakeLock: no keyed lock.                                       *)
TakeNoLock(c) ==
  /\ pc[c] = "waiting"
  /\ Goto(c, "locked")
  /\ UNCHANGED <<db, running, provisioned, branch, connLeft, provLeft>>

(* keyLock.Lock(targetBranch) returns.  It does not look at the context.    *)
TakeLock(c) ==
  /\ pc[c] = "waiting"
  /\ \A d \in Conn : ~(pc[d] \in InSection /\ branch[d] = branch[c])
  /\ Goto(c, "locked")
  /\ UNCHANGED <<db, running, provisioned, branch, connLeft, provLeft>>

(* Mutant of DoubleCheck: the cache is not looked at again.                 *)
NoDoubleCheck(c) ==
  /\ pc[c] = "locked"
  /\ Goto(c, "exists")
  /\ provLeft' = [provLeft EXCEPT
       ![c] = IF connLeft[c] < ProvBudget THEN connLeft[c] ELSE ProvBudget]
  /\ UNCHANGED <<db, running, provisioned, branch, connLeft>>

(* The double check under the lock; then provCtx is derived from connCtx,   *)
(* so that it ends no later, and BranchExists is called.                    *)
DoubleCheck(c) ==
  /\ pc[c] = "locked"
  /\ \/ /\ branch[c] \in provisioned
        /\ Goto(c, "served")
        /\ UNCHANGED provLeft
     \/ /\ branch[c] \notin provisioned
        /\ Goto(c, "exists")
        /\ provLeft' = [provLeft EXCEPT
             ![c] = IF connLeft[c] < ProvBudget THEN connLeft[c] ELSE ProvBudget]
  /\ UNCHANGED <<db, running, provisioned, branch, connLeft>>

(* BranchExists answers; if there is no database, CreateBranch is called.   *)
ExistsAnswers(c) ==
  /\ pc[c] = "exists"
  /\ provLeft[c] > 0
  /\ Goto(c, IF branch[c] \in databases THEN "mark" ELSE "creating")
  /\ UNCHANGED <<db, running, provisioned, branch, connLeft, provLeft>>

(* The server carries out CREATE DATABASE, or finds that another process    *)
(* has done so (SQLSTATE 42P04, which the driver takes for success).        *)
ServerCreates(c) ==
  /\ pc[c] = "creating"
  /\ Create(branch[c], "own")
  /\ Goto(c, "created")
  /\ UNCHANGED <<running, provisioned, branch, connLeft, provLeft>>

(* CreateBranch returns without error: CREATE and COMMENT have succeeded.   *)
CreateAnswers(c) ==
  /\ pc[c] = "created"
  /\ provLeft[c] > 0
  /\ Goto(c, "mark")
  /\ UNCHANGED <<db, running, provisioned, branch, connLeft, provLeft>>

(* Mutants of DriverFails: an error of BranchExists counts as "absent"; an  *)
(* error of CreateBranch is only logged.                                    *)
ExistsErrorIgnored(c) ==
  /\ pc[c] \in InDriver
  /\ Goto(c, IF pc[c] = "exists" THEN "creating" ELSE "refused")
  /\ UNCHANGED <<db, running, provisioned, branch, connLeft, provLeft>>

CreateErrorIgnored(c) ==
  /\ pc[c] \in InDriver
  /\ Goto(c, IF pc[c] = "exists" THEN "refused" ELSE "mark")
  /\ UNCHANGED <<db, running, provisioned, branch, connLeft, provLeft>>

(* A driver call returns an error (server gone, source database in use,     *)
(* COMMENT refused, context done): ensureBranchExists returns it and        *)
(* unlocks.  A CREATE that was under way may still run on the server.       *)
DriverFails(c) ==
  /\ pc[c] \in InDriver
  /\ Goto(c, "refused")
  /\ \/ UNCHANGED running
     \/ pc[c] = "creating" /\ running' = running \cup {branch[c]}
  /\ UNCHANGED <<db, provisioned, branch, connLeft, provLeft>>

(* The same, for the one reason that is sure to come: provCtx is done.      *)
DeadlinePasses(c) == provLeft[c] = 0 /\ DriverFails(c)

(* The cache is written and the lock given back.                            *)
MarkProvisioned(c) ==
  /\ pc[c] = "mark"
  /\ provisioned' = provisioned \cup {branch[c]}
  /\ Goto(c, "served")
  /\ UNCHANGED <<db, running, branch, connLeft, provLeft>>

(* The handler ends; its identity stands for a later connection.            *)
Disconnect(c) ==
  /\ pc[c] \in Ended
  /\ Goto(c, "new")
  /\ branch' = [branch EXCEPT ![c] = DefaultBranch]
  /\ connLeft' = [connLeft EXCEPT ![c] = 0]
  /\ provLeft' = [provLeft EXCEPT ![c] = 0]
  /\ UNCHANGED <<db, running, provisioned>>

-----------------------------------------------------------------------------
(* Mutants of Tick: a budget that is exhausted runs on; provCtx derived     *)
(* from context.Background() without a timeout.                             *)
TickBelowZero ==
  /\ connLeft' = [c \in Conn |->
       IF pc[c] \in Active THEN connLeft[c] - 1 ELSE connLeft[c]]
  /\ UNCHANGED <<db, running, provisioned, pc, branch, provLeft>>

TickWithoutDeadline ==
  /\ connLeft' = [c \in Conn |->
       IF pc[c] \in Active /\ connLeft[c] > 0 THEN connLeft[c] - 1 ELSE connLeft[c]]
  /\ UNCHANGED <<db, running, provisioned, pc, branch, provLeft>>

(* One unit of time passes for the contexts that are alive.                 *)
Tick ==
  /\ connLeft' = [c \in Conn |->
       IF pc[c] \in Active /\ connLeft[c] > 0 THEN connLeft[c] - 1 ELSE connLeft[c]]
  /\ provLeft' = [c \in Conn |->
       IF pc[c] \in InDriver /\ provLeft[c] > 0 THEN provLeft[c] - 1 ELSE provLeft[c]]
  /\ UNCHANGED <<db, running, provisioned, pc, branch>>

(* The server finishes a CREATE DATABASE that nobody waits for any more.    *)
LateCreate(b) ==
  /\ b \in running
  /\ running' = running \ {b}
  /\ Create(b, "foreign")
  /\ UNCHANGED <<provisioned, pc, branch, connLeft, provLeft>>

(* switch, the hook or the TUI provisions b from another process.           *)
CliCreate(b) ==
  /\ Create(b, "foreign")
  /\ UNCHANGED <<running, provisioned, pc, branch, connLeft, provLeft>>

(* prune drops b; the base database is protected.                 *)
CliDrop(b) ==
  /\ b \in databases \ {DefaultBranch}
  /\ db' = [db EXCEPT ![b] = "dropped"]
  /\ UNCHANGED <<running, provisioned, pc, branch, connLeft, provLeft>>

Handler(c) ==
  \/ FastPath(c) \/ TakeLock(c) \/ DoubleCheck(c) \/ ExistsAnswers(c)
  \/ ServerCreates(c) \/ CreateAnswers(c) \/ DriverFails(c) \/ MarkProvisioned(c)

Next ==
  \/ \E c \in Conn : Handler(c) \/ Disconnect(c) \/ \E b \in Branch : Route(c, b)
  \/ \E b \in Branch : LateCreate(b) \/ CliCreate(b) \/ CliDrop(b)
  \/ Tick

Spec == Init /\ [][Next]_vars

(* Time passes; a handler that can run does; a contended Go mutex starves   *)
(* nobody.  The server owes no answer: only the deadline ends a call.       *)
FairSpec ==
  /\ Spec
  /\ WF_vars(Tick)
  /\ \A c \in Conn : /\ WF_vars(FastPath(c)) /\ WF_vars(DoubleCheck(c))
                     /\ WF_vars(DeadlinePasses(c)) /\ WF_vars(MarkProvisioned(c))
                     /\ SF_vars(TakeLock(c))

-----------------------------------------------------------------------------
(* A handler in the driver has seen, under the lock, that its branch is not *)
(* cached, and nobody can cache it meanwhile: connections that queued up    *)
(* behind a successful provisioning ask the driver nothing.  This is what   *)
(* the second look at the cache is for (proxy.go:354-360).                  *)
NoQueryForCachedBranch ==
  \A c \in Conn : pc[c] \in InDriver \cup {"mark"} => branch[c] \notin provisioned

(* A connection is let through to the backend only if the database it is    *)
(* routed to exists, or has existed and was dropped by another process,     *)
(* whichever path it took and whatever failed or timed out for others: an   *)
(* error is never cached (proxy.go:367-382).                                *)
ServedHasDatabase ==
  \A c \in Conn : pc[c] = "served" => db[branch[c]] # "absent"

(* CREATE DATABASE is issued only for a database that does not exist,       *)
(* unless another process, or a statement whose client gave up, created it  *)
(* after BranchExists had answered: "preventing accidental database         *)
(* overwrites" (ARCHITECTURE.md:118).                                       *)
NoCreateOverExisting ==
  \A c \in Conn : pc[c] = "creating" => db[branch[c]] # "own"

At(phases) == {<<c, branch[c]>> : c \in {d \in Conn : pc[d] \in phases}}

KL == INSTANCE KeyLock WITH
        Proc <- Conn, Key <- Branch, asking <- At({"waiting"}), inside <- At(InSection)

(* Every path through ensureBranchExists uses the keyed lock as KeyLock     *)
(* allows: one lock per handler, exclusive per branch, given back by the    *)
(* handler that has it, on errors and early returns too.                    *)
LockDiscipline == KL!Spec

(* ensureBranchExists returns: waiting for the lock is not bounded by any   *)
(* deadline, but each holder's driver calls are (proxy.go:365).             *)
EnsureReturns ==
  \A c \in Conn : pc[c] \in Active ~> pc[c] \in Ended
=============================================================================
