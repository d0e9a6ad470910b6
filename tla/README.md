# BranchBase: verification project

BranchBase gives every Git branch a database of its own. A proxy on the
developer's machine accepts the application's connections, looks up which
branch is checked out, makes sure that branch has a database, rewrites the
database name in the client's handshake and pipes the rest. Commands and a Git
hook create databases ahead of time and prune the ones nobody needs.

This directory holds TLA+ models of that program, TLC configurations that check
them on small instances, and proofs, checked by TLAPS, that hold for every
instance. Each definition is translated from the Go source under `src/`;
`PROJECT.json` maps definitions to lines.

Contents: [inventory](#1-inventory) · [modules](#2-modules) ·
[runs](#3-runs-and-bounds) · [fairness](#4-fairness) · [proofs](#5-proofs) ·
[disagreements](#6-where-the-code-and-its-documentation-disagree) ·
[left out](#7-what-is-not-modelled) · [what may follow](#8-what-may-follow)

## 1. Inventory

### Parts, their state, and how they meet

| Part (source) | State | Operations | What makes it correct |
|---|---|---|---|
| Keyed mutex (`internal/proxy/keyed_mutex.go`) | map of reference-counted entries, a mutex in each | `Lock`, the unlock function | exclusive per key; every Lock is granted; an idle key has no entry |
| On-demand provisioning (`proxy.go`, `ensureBranchExists`) | cache `provisioned` | cache look-up, lock, second look-up, `BranchExists`, `CreateBranch` | nothing is served that never existed; one creation per branch; every call returns |
| Server life cycle (`proxy.go`) | listener, `stopped`, slots, WaitGroup, `activeConns` | `Start`, `Stop`, accept loop, `handleConnection`, `pipeConnections` | slots and counters exact; sockets closed; the loop ends; `Stop` returns with nothing left |
| Branch identity (`git/resolver.go`, `validateBranchIdentity`) | HEAD, rebase head-name, refs; cache `branchChecks` | resolve, validate once per branch | two branches never share a database |
| Wire handshakes (`proxy/pgwire`, `proxy/mysqlwire`) | bytes read so far, negotiation state | SSL/GSS refusal, cancel, startup rewrite; greeting and response rewrite | the packet forwarded differs from the one read in its database name only |
| Driver contract (`driver/driver.go`) | registry of factories | `BranchExists`, `CreateBranch`, `DeleteBranch`, `ListBranches` | a database exists or not, success means done, the base is never dropped |
| PostgreSQL driver | the server: databases, sessions | inspect, terminate, `CREATE ... TEMPLATE`, `COMMENT`; terminate, `DROP` | implements the contract |
| MySQL, MongoDB drivers | the server: databases, tables copied so far | copy table by table, clean up on failure | success means a whole branch; a failure leaves nothing behind and drops nothing of others |
| SQLite driver | files: base database, branches, copy markers | look, checkpoint, reserve with a marker, copy, look again, unmark; remove | a branch without a marker is a snapshot of the base, whatever died or wrote meanwhile |
| Commands (`cmd/branchbase/main.go`) | none but the driver's and Git's | `switch`, `prune`, `hook trigger`, `list` | prune spares what is in use |
| Risk gate (`internal/risk`, `cmd/branchbase/risk.go`, the hook in `main.go`) | policy, pending migrations, assessment cache and its file | load, parse, introspect, look in the cache, classify, override, save, decide | nothing passes unassessed, or below what its statements demand; the cache file survives crashes |
| SQL text (`risk/parser.go`, `risk/policy.go`) | position in a text, quotes and comments open | strip comments, split into statements, prepare for the policy's patterns | the gate sees what the server would execute, no more and no less |
| Git hooks (`internal/hook`) | hook files | install, uninstall | the user's own hook survives |
| TUI (`internal/tui`) | cursor, list, pending action | refresh, switch, delete | the action applies to the branch selected |

How they interact. One proxy process runs a goroutine per client connection;
these share the provisioning cache, the identity cache, the keyed mutex, the
slots and `activeConns`, each under a mutex of its own, none of which is held
while another is waited for except the keyed mutex, which is held across driver
calls. Other processes (`switch`, the hook, the TUI, `prune`) share nothing
with the proxy but Git's files and the database server. Calls of the risk gate
(the hook, `risk check`, `risk analyze`) share the policy and the cache file. The developer changes
Git at any moment; application sessions come and go on the databases that the
drivers clone and drop.

### What is hard

* Steps of goroutines between unlocking one mutex and taking the next: the
  keyed mutex releases an entry before it uncounts it; `validateBranchIdentity`
  checks outside its mutex; `Stop` runs against accepts half way through.
* Answers that come late: a `CREATE DATABASE` whose context has ended may still
  be carried out, after somebody else has gone on.
* State read once and used later: the caches of the proxy; prune's four
  readings and its prompt.
* Several processes on one server with no lock between them.
* Deadlines that nest, and one read that has none.
* Partial failure of a sequence of statements (clone, then comment; copy table
  by table; reserve, copy, verify, unmark; write a temporary file, rename it),
  and crashes inside one.
* Three scanners for the same text, in three dialects, that must agree with each
  other and with a server that none of them can ask.

`PROJECT.json` lists each such hazard at the line where it bites, with the
property that covers it, or the reason why none does.

## 2. Modules

```
KeyLock  <---implements---  KeyedMutex            keyed_mutex.go
   ^
   +------uses it as promised-----  JitProvision  proxy.go, ensureBranchExists

BranchStore  <---implements---  PostgresDriver    driver/postgres/postgres.go
   ^
   +------built on it-------------  Prune         main.go, runPrune

CopyingDrivers                                    driver/mysql/mysql.go, driver/mongodb/mongodb.go
RiskGate                                          internal/risk, cmd/branchbase/risk.go
SqlText                                           risk/parser.go, risk/policy.go
ProxyServer                                       proxy.go, Start ... Stop
SqliteDriver                                      driver/sqlite/sqlite.go, clone_linux.go
BranchIdentity                                    git/resolver.go, validateBranchIdentity
```

Each module `XProofs` holds the theorems about `X` (section 5); `StoreProofs`
has those about `PostgresDriver` and `Prune`, and `RiskGateProofs` also those
about `SqlText`.

The two abstract modules are where components meet. `KeyLock` is a lock per key
with no map and no counts: `KeyedMutex` is shown to implement it, and
`JitProvision` is shown to use it as it allows, so what is proved of
provisioning rests on what the mutex promises and not on its code.
`BranchStore` is the driver contract: `PostgresDriver` is shown to implement
it, and `Prune` is built on it, so what is shown of prune holds over any driver
that keeps the contract.

**KeyedMutex.** An action is one critical section of `km.mu` or one operation
on an entry's mutex. `Register` is the first half of `Lock`, `Acquire` its
`entry.mu.Lock()`, `Release` and `Deregister` the two halves of the unlock
function. `once` is the `sync.Once` of each unlock function, which its holder
may call again. Entries are heap addresses: an address nothing refers to can be
handed out again, so an entry deleted too early and a stale pointer to it are
states of the model. A goroutine uses one key at a time, as the proxy does.

**JitProvision.** `pc` follows a handler through `ensureBranchExists`:
`FastPath`, `TakeLock`, `DoubleCheck`, `ExistsAnswers`, `ServerCreates` (the
effect on the server) apart from `CreateAnswers` (the reply), `MarkProvisioned`;
`DriverFails` is every error return inside the driver calls. Contexts are two
budgets, `connLeft` and `provLeft`, that `Tick` counts down. `db` records where
a database came from, so that "created by us" can be told from "created by
another process". `CliCreate`, `CliDrop` and `LateCreate` are other processes
and the server's late statements.

**ProxyServer.** The server's fields are variables of the same name; `loop` is
the accept loop, `stopper` the call of `Stop` that found the server running
(every other returns at once), `conn` the place of each connection. The
deferred functions of `handleConnection` are actions in their order: unregister
and close the backend, then the client, give the slot back, `wg.Done`. Each
socket is open or closed from the proxy's side; reads without a deadline end
only if the socket is closed or a peer acts. `missed` is a history variable:
the connections not fully registered when `Stop` closed the sockets. Between
registering the client and dialling there are two phases: "resolving", in which
Git names and validates the branch with no deadline (`BranchIdentity` is its
detail), and "setup" under `connCtx` (`JitProvision`). A PostgreSQL client may
ask for TLS: `RegisterTLS` puts a third entry into `activeConns`, beside the
client socket it wraps. `deferred` holds what each registration has deferred, to
be run last in, first out, by `RemoveDeferred` and `CloseDeferred`.

**BranchIdentity.** A handler reads HEAD, then, if detached, `head-name` of a
rebase (`ReadHead`, `ReadRebase`); looks in `branchChecks` (`LookUpCheck`);
lists the branches and compares (`CheckUnique`); remembers (`RememberCheck`).
The developer's Git commands are actions between any two of these.
`SanitizeBranchName` is a constant many-to-one function `Sanitized`.

**BranchStore, PostgresDriver.** In `BranchStore` a call is pending, done or
finished, takes effect at one instant, and an error says nothing about the
effect, which may even be `late`. The databases and the late statements are
declared once, in `StoreState`, for the contract, the driver and prune.
`PostgresDriver` has one action per SQL
statement, sessions that reconnect after `pg_terminate_backend`, transactions,
and any statement failing at any time.

**SqliteDriver.** `CreateBranch` in its order: `CreateLocks` (with the first
`os.Stat` of the source), `Checkpoint`, `Inspect` (the target is not there),
`Reserve` (the marker, `O_EXCL`), `OpenTarget` and `Reflink` or, after a second
`OpenTarget`, `CopyPage` by page, `Verify` (size and time of the source),
`Recheck`, `Unmark`; on an error `CopyFails`, `CleanUp`, `Unmark`. `mu` is
held by whoever is between its lock and its end. A file is its maker and the
transaction each page is from; `changed` is the set of goroutines whose second
`os.Stat` will differ from the first. `WriterBegins` to `WriterDies` are an
application's transaction on the base database, in a rollback journal mode:
pages are written one by one under SQLite's lock, which the copy does not take,
and SQLite rolls a dead writer back when it next reads (`SqliteReads`). `Crash`
ends every goroutine of a process. `leftover` is a history variable: half copies
whose removal failed.

**CopyingDrivers.** One module for the two engines that have no statement to
copy a database: `engine` is chosen at the start, and each driver has its own
actions for `CreateBranch`. MySQL: `CreateDatabase` (with its second attempt),
`OpenSession` (a connection, `SET FOREIGN_KEY_CHECKS=0`, the list of tables),
`CreateTable` and `CopyRows` per table, `CreateExtra` per view or trigger,
`ResetSession` (the deferred reset, which can fail the call), and `MySQLCleanup`
(the deferred `DROP DATABASE`, whose deadline is its own). MongoDB:
`ListCollections`, `CopyCollection` (`$out`), `CreateIndexes` (which passes over
a list it cannot read), `MongoCleanup`. `Ensure` and `BranchExists` are what
every caller does first, `Prune` and the two deletions what drops a branch. A
client can die between any two statements. The server does not know that a client
has given up, or died: the statement it waited for (`Underway`), whether
`CREATE`, `INSERT`, `$out` or `CreateMany`, stays in `abandoned` and is carried
out, or not, at any later moment (`LateWrite`), as is a drop (`LateDrop`). A table is there or not, with its
indexes or plain, and has its rows not at all, once or twice. `makers` is the
set of clients whose statements are in a database; `disturbed` (creators whose
target was dropped under them, or had rows put into it by an abandoned `INSERT`)
and `blamed` (databases something went wrong with) are history variables, in which the properties find their exceptions.

**RiskGate.** Each call of the gate is a process with the policy and the cache
it has loaded: `Start` (`NewRiskAnalyzer`), `Collect`
(`changedMigrationFiles`), then per migration `ExcludePath`, `HitCache`,
`AnalyzeSQL` or `JevUnavailable`, then `Decide`. A new result is written to the
cache at once: `OpenTmp`, `WriteData`, `Rename`, `RemoveTmp` are the system
calls of `persist`, and `fd` tells whether a call's descriptor is on the
temporary file, on a file that has been renamed meanwhile, or on one without a
name. `ReadFails`, `Skip` and `Die` are its errors and its end. The data is
translated whole: `LoadPolicy`, `Evaluate` with the escalation of low
confidence, the order of the parser's patterns, `OperationLevel`, what
`AnalyzeSQL` adds to any classifier's answer (`FinalLevel`), and the cache key.
A statement is the set of patterns it matches and the words the heuristics look
for; what the remote classifier may answer is a constant.

**SqlText.** The author writes a text token by token (`Write`), so that TLC
visits every text up to `MaxLength`, while the server's lexer (`ReadOn`, the
dialect) reads along: `lexer[p]` is its state before token `p`, from which
`Role` says whether the token is code, comment, quoted, in a dollar-quoted body,
or the end of a statement. Then one function is called (`Call`).
`StripComments` and `sqlForPolicyMatching` have the same cases twice in the
source, so an action is an iteration of either: of the outer loop, or of the
loop for a comment or a quoted text that it is in (`loop`); `closing` is the tag
up to which `sqlForPolicyMatching` calls itself. `SplitStatements` goes through
what `StripComments` has kept, an action per iteration. `kept`, `current` and
`statements` are places in the text, so that what the functions make of it can
be compared with what the lexer made of it. The lexer is used by no action of
theirs. A lone dollar may open a body for `SplitStatements` or not, for whether
another is within 30 characters is not in the text.

**Prune.** `runPrune` in the order of the code: `ListDatabases`,
`ResolveActive` (HEAD, or what a rebase has noted), `ResolveLocal`,
`ResolveMerged` (with the choice of candidates), the prompt, `DeleteNext`, each
reading apart from the next. Git is the local branches, which of them are merged,
HEAD and the rebase; without the default branch the others are compared with
`origin/<default>` (`GitDefault`), and branches with "detached" in their names are
passed over among the merged ones (`Unlisted`). Two history variables: `kept`, the
names in use at every moment since prune began, and why (active, or with unmerged
work), and `shared`, the names that a merged branch and one with unmerged work had
in common when prune read the merged branches.

`MCBranchIdentity`, `MCCopyingDrivers`, `MCPrune`, `MCRiskGate` and
`MCSqliteDriver` give these modules concrete values for TLC. The `*Proofs` modules hold theorems about the module of that name.

Definitions described as "Mutant of X" in their comments are wrong variants of
X, used nowhere in the specifications: putting one in X's place must make the
property it is paired with in `PROJECT.json` fail, which shows that the property
is sensitive to such a bug.

## 3. Runs and bounds

Run a configuration with `tlc -config X.cfg M`. Ten runs pass:

| Run | Instance | Distinct states | What it shows |
|---|---|---|---|
| `keyed_mutex` | 3 goroutines, 2 keys, 4 addresses | 15 000 | Exclusion, no leaked entry, one owner per locked mutex, refinement of `KeyLock`, every Lock granted |
| `jit_provision` | 3 connections, 2 branches, budgets 2 and 1 | 107 000 | Cached branches are not queried, nothing unborn is served, no CREATE over the proxy's own database, lock discipline, every call returns |
| `proxy_server` | 2 connections, 1 slot, both protocols, with and without TLS | 13 900 | Slots, WaitGroup and `activeConns` exact; nothing left after `Stop`; the accept loop ends; handshake and `Stop` end too, unless Git hangs, MySQL's backend does not greet, or a half-registered connection survived |
| `identity_safety` | 2 handlers, 4 branches of which 2 collide, 1 transient | 584 000 | Served branches that exist do not share a database |
| `postgres_driver` | 2 processes, base and one branch, 2 clients, 2 late statements | 148 000 | The driver implements `BranchStore` |
| `sqlite_driver` | 2 goroutines of one process, 1 of another, 1 branch, 2 pages, 1 transaction | 1 672 000 | One copier per marker; an unmarked branch is a snapshot; no overwriting within a process |
| `prune` | prune, one provisioning process, 3 branches with 2 names | 1 093 000 | A branch active all along keeps its database; so does one with unmerged work all along, unless a merged branch shares its name |
| `copying_drivers` | 2 clients, 2 branches of which one is the base's, 2 tables, 1 view, both engines, 1 abandoned statement at a time | 1 415 000 | Reported success is a whole branch; MySQL's clean-up drops only what its call made; a partial branch nobody works on has a cause on record |
| `risk_gate` | 2 overlapping calls, 3 files, 2 texts, 2 policies, 1 table | 1 207 000 | Nothing passes unassessed, below what its statements demand, or against its own policy; only overlapping writers tear the cache |
| `sql_text` | every text of up to 4 of 12 to 15 tokens, 3 dialects | 1 767 000 | Statements are cut where the server cuts them, and the policy's patterns see exactly the code, but for the texts the properties except |

Two more each look for a statement of the documentation and find it violated;
they are the first two subjects of section 6: `sqlite_overwrites` and
`sql_dollar_quotes`.

Why these instances are enough to be worth running:

* Three goroutines are the least at which one holds, one leaves between the two
  halves of unlock, and a third registers. Four addresses are one more than the
  goroutines can refer to, so that allocation is never the thing that blocks
  (a bound on addresses is a bound of the model, not of Go).
* Three connections for one branch put one in the driver, one behind the lock
  and one on the fast path. With budgets of 2 and 1 units the connection's
  deadline can pass while a handler waits and while it is in the driver.
* One slot for two clients: the limit is reached, and a rejection happens while
  another client is served. Two protocols, because only MySQL has the read
  without a deadline.
* Two names that sanitize to the same identifier are the least for a collision;
  `topic`, which collides with nothing, may be deleted and recreated, and `main`
  is always there.
* The driver is called by processes that call anything at any time, so that two
  of them cover creation against creation, creation against deletion and either
  against late statements. `MaxLate` bounds abandoned statements at one time.
  The two clients are needed for a session that is in the way of a statement
  while another reconnects.
* For the SQLite driver two goroutines share `mu` and the third does not, so
  that the same sequence is tried inside and outside its protection. Two pages
  are the least a transaction can be torn over; one transaction on top of the
  initial state gives two versions to mix.
* For the copying drivers two clients cover creation against creation, pruning
  and late drops; two tables make "half a copy" differ from "no copy" and from
  "one table half done"; one view stands for what follows the tables. Of the two
  branches one is the default branch, whose database is the base. `MaxAbandoned`
  bounds the abandoned statements at one time; a second one waits its turn, but
  each may come after any clean-up and into any later copy.
* For the risk gate, one text drops a column, which the catalog may or may not
  know and show to be referenced, and the other is outside the parser. It is in
  two files, so that the second is assessed from the first's cached result; the
  file that a policy excludes is pending alone. One policy is the default, the
  other turns the actions of the two highest levels round, so that the highest
  level is not the strictest action, blocks without the remote classifier, and
  has an always-critical pattern the other lacks. Two calls are the least that
  share the temporary file. Each call is made once: a further one would start
  from a cache file of some earlier pair.
* Four tokens are enough for a nested comment that ends too early or too late
  (`/* /* */ x` in two dialects of three), a doubled or escaped quote, a quoted
  semicolon, code in a dollar-quoted body, and a statement after one. Longer texts
  are what the theorems are for. The tokens include all that the code reads
  otherwise than a dialect does: `#`, backslashes, MySQL's two dashes without a
  blank and its double quotes for strings, a lone dollar, and `$$` in every
  dialect.
* For prune, `Detached/HEAD` and `detached-head` share `detached_head` with the
  words "detached HEAD" that Git notes when a rebase begins at a commit; one of
  them is passed over among the merged branches, the other is not.

No state constraint is used; bounds are in the constants and, for `MaxLate` and
`MaxAbandoned`, in a guard. Symmetry is used for the handlers of
`identity_safety`, the calls of `risk_gate` and the clients and tables of
`copying_drivers`, which have no liveness property. Deadlock is not checked for
`ProxyServer`, because a stopped server whose clients have gone has nothing left
to do, for `RiskGate`, whose calls end, and for `SqlText`, whose functions return.

## 4. Fairness

Only `KeyedMutex`, `JitProvision` and `ProxyServer` have liveness properties.

* A goroutine that can run is scheduled: weak fairness of each of its steps.
* A contended `sync.Mutex` starves nobody (Go's starvation mode hands it to a
  waiter of 1 ms): strong fairness of `Acquire` and `TakeLock`.
* Time passes (`Tick`), and a context whose budget is gone ends the driver call
  (`DeadlinePasses`). The server itself owes no answer: there is no fairness on
  `ExistsAnswers`, `ServerCreates` or `CreateAnswers`.
* `KeyedMutex` assumes that holders release; `JitProvision` shows that they do
  (`EnsureReturns`).
* In `ProxyServer` the setup phase ends by `connCtx`, which is made at
  `proxy.go:459`, after the branch is known. The wait for the branch's lock
  inside it (`proxy.go:350`) does not look at `connCtx`, but ends when the holders
  before it have released the lock, each bounded by a `connCtx` of its own:
  `EnsureReturns` of `JitProvision` checks that. The startup phase, encrypted or
  not, ends by the deadline on the client socket. There is no fairness on
  `BranchResolved` and `ResolveFails`: Git runs under `context.Background()`
  (`resolver.go:152`, `resolver.go:171`), so a Git process that hangs holds its
  handler for ever, and `HandshakeEnds` and `StopReturnsUnlessMissed` except it.
  Nothing makes a peer hang up, a backend greet, or a user call `Start`, `Stop`
  or cancel. `AcceptFails` is fair only once the listening socket is closed, and
  `WatcherCloses` only while the accept loop runs: after that, its goroutine may
  choose the other case of its `select`. The handler's reads end by themselves
  only where the socket has been closed by the proxy.

## 5. Proofs

Check a module with `tlapm M.tla`. The theorems hold for every value of the
constants; the assumptions they use are the named `ASSUME`s of the modules,
which TLC evaluates on each run, and, where stated, a hypothesis of the theorem.

**KeyedMutexProofs** (finite set of goroutines, `NoEntry` not an address).
`TypeCorrect`, `Exclusion`, `NoLeak`, `UnlockIsSound`, `Refinement`. None of the
properties is inductive alone: exclusion needs that all users of a key use the
map's entry for it (`OneEntryPerKey`), which needs that an entry in use is not
deleted, which needs exact counts (`NoLeakedEntry`), and counts are exact only
because an unlock function runs its body once (`UnlockRunsOnce`). The inductive
invariant is the conjunction of the five; one lemma says what adding and
removing a user does to the cardinality of `Users(e)`. `Refinement` is for
`KeyLock!Spec`; its fairness part is model-checked.

**JitProvisionProofs** (the default branch is a branch; budgets are naturals).
`TypeCorrect`, `DoubleCheckWorks`, `ServedIsProvisioned`, `CreatesOnlyAbsent`,
`LockUse`. The invariant adds to the four properties that the lock's section is
exclusive and that a cached branch, or one about to be cached, has existed.
`CreatesOnlyAbsent` is the subtle one: between "there is none" and CREATE, only
a handler that waited for its own CREATE makes a database "own", and it would
have to be inside the same lock.

**BranchIdentityProofs.** `TypeCorrect`, and `Isolation`, under
`TransientsCollideWithNone`: branches that are deleted or checked out unborn
have an identifier of their own. Without it the statement is false
(section 6). The invariant: whatever passed the check, remembered
or not, collides with no existing branch that has passed it.

**StoreProofs**, first half: `PostgresDriver` (the base is a name).
`DriverTypeCorrect`, `BaseSurvives`, `Refinement`. The invariant adds to the types that the base database is there
and that no process and no late statement is about to drop it. The refinement
is proved action by action: the statement that has the effect maps to the
abstract effect, the rest to stutters.

**SqliteDriverProofs** (every goroutine has a process; `Hole` is no version).
`TypeCorrect`, `CopierExclusion`, `Snapshots`, `WithinProcess`. The snapshot
property rests on four further parts: the file is as committed unless somebody
writes (`BaseExact`, SQLite's lock); a goroutine that will find no change is
copying from a file as committed (`SourceExact`, because a checkpoint read it
after the first look, and a write shows); what it has copied so far is of that
version (`CopyExact`); and it copies alone (`OneCopier`, which needs that only
the maker of a marker removes it). `WithinProcess` adds `MuExclusive` and that
what stands where a goroutine found nothing is of another process
(`MadeElsewhere`).

**StoreProofs**, second half: `Prune`. `TypeCorrect`, `SparesInUse`. The invariant carries what each
of the readings established forward to the deletion: a name in `kept` because
it was active is no candidate once HEAD has been read (`ActiveSpared`); one in
`kept` because of unmerged work is not orphaned once the branches have been read,
and a candidate, once the merged ones have, only if it is `shared`
(`WorkSpared`). `kept` only shrinks during a run of prune.

**RiskGateProofs** (the constants describe texts, statements, policies and
answers; files are numbered). `TypeCorrect`, `NothingUnassessed`,
`TornByOverlapOnly`. That a call passes nothing below its floor cannot be seen
from the call: its results may come from a cache file that others wrote. The
invariant `Assessed` therefore speaks of every place a result can be in, the
memory of each call, its report, and both files; `AssessmentSound` says that
what `AnalyzeSQL` adds raises any classifier's answer to the floor, and
`CachedSame` that a cached result keeps it. `Fresh` ties the exception of the
hook to the time before its migrations are known. `SoleWriter` is what
`TornByOverlapOnly` needs: a call that met nobody at the temporary file has
opened, written and is about to rename that file, and no other.

`RiskGateProofs` also has the two theorems about `SqlText`, for every text of any
length: `PolicySeesAllCode` and `SplitsAllAtCode`. They are inductions over a
text, but the text is gone through by steps, and the lexer's states are kept
beside it, so that the induction is the temporal one, over steps, and no
operator is recursive.

* What the lexer has read is as the dialect says (`LexerOK`), and it is in a
  dollar-quoted body from a tag to the next (`Bodies`).
* `InStep`: in a text whose quotes and comments end, the loop the code is in is
  the mode the server's lexer is in at that place (`Follows`), of the text or of
  the body that is gone through (`Here`), with the same depth of comments. It
  would break at the first token the two take differently. The exception is the
  newline at the end of a line comment, which the code reads as code and the
  lexer as comment.
* `KeepsCode`: of the places behind the code, those are kept that the server
  executes (or, by `StripComments`, that are in no comment), and they are
  `Sorted`. A lemma for every kind of mode (`CodeRead`, `CommentRead`,
  `QuoteRead`) says what the lexer makes of a token there, and `Iteration` that
  an iteration which suits it keeps the invariant `ScanIInv`.
* `AtRune`: `SplitStatements` reads what is kept as if it were the text. From
  one place that is kept to the next there are only comments, in which no quotes
  begin or end (`Comments`, `NextPlace`), so that its `quote` is the lexer's, its
  `current` is the part of the statement up to there, and what it has found are
  the statements that have ended, in their order (`RuneReads`, `FoundNext`).
  A backslash that is the last thing kept is where the two would part: there the
  string does not end, and the text is not well-formed.

Both are under the exceptions their properties make (`Covered` in the proofs): a
text that the dialect reads otherwise (`ReadsAlike`), two dollar tags in the code
where they are words (`TagsAreWords`), and, for the split, PostgreSQL's dollars
(`DollarOpens`). For those texts the code is wrong (section 6).

**ProxyServerProofs** (a finite set of connections, any number of slots).
`TypeCorrect`, `Capped`, `CountedOnce`, `Tracked`, `Quiescent`, `NoLateAdd`, for
`Spec`, which the specification with fairness implies. That no counter goes
below zero is already the hard part of `TypeCorrect`: `slots` and `wg` are
numbers that handlers decrement on their own, so the invariant has that they
equal the cardinality of a set of phases (`SlotsExact`, `WaitGroupExact`), and
one lemma (`MoveCounts`) says what a move between phases does to a cardinality.
The accept loop holds at most the one connection that is accepted and has no
handler (`HandExact`), which is the one `Add` still to come. `Registered` says
which connections are in `activeConns` at each phase of a handler, and what it
has deferred for them (the TLS connection's entry goes before the client's), and
`OpenOnlyWhileHandled` that a socket outlives neither its handler nor its
accept; `Tracked` and `Quiescent` follow from the two and from
`ServerPhases`: a stopped server gets no listener again, so that once `wg` is
zero the loop that could add to it is gone (`DoneIsDrained`, `NoLateAdd`).

**CopyingDriversProofs** (a finite set of tables with at least one, a base
database that is no branch's own; any clients, branches, views and triggers).
`CopyTypeCorrect`, `Explained`, `BaseSurvives`, `SuccessMeansWhole`,
`CleanupIsOwn`. None of the properties is inductive: each is about the end of a
call that others may have interfered with all along. The invariant `Sound` says
what holds of a client at every step of its copy. MySQL (`Owns`,
`MySQLProgress`): a client whose target was not dropped copies alone, into a
database it has made, and each table is in the state that its place in `todo`
implies; another could only have come in through CREATE DATABASE, after a drop
that disturbed the first, and a copy that begins among disturbed ones counts as
disturbed itself. MongoDB
(`MongoProgress`): others may well copy into the same database, but what a copy
relies on, all rows at once and indexes, is never taken away except by a drop,
which disturbs it if it has anything there (`GrowthKeeps`, `DropKeeps`). A
disturbed copy may find anything, but its database is `blamed`. An abandoned
statement only adds to a database (`OutcomeGrows`), which a copy bears unless it is
MySQL's `INSERT` (`LateWriteStep`). The exceptions
in the properties are therefore exactly these two sets, for any number of
clients. `BaseSurvives` (the base database stays as it was) is part of the
invariant because a clean-up drops its target unlooked at: it is safe only
because no copy into the base database begins. The order of the tables is any
permutation; `OrderIsWhole` and `OneLess` are what the proofs know of it.

Only model-checked: everything temporal beyond safety (`LockGranted`,
`EnsureReturns`, `AcceptLoopEnds`, `HandshakeEnds`, `StopReturnsUnlessMissed`,
the fairness in `ImplementsKeyLock`), because liveness is outside what the
prover supports. Every invariant and every action property of a run is proved.

## 6. Where the code and its documentation disagree

1. `sqlite_overwrites`: the target is looked for before it is reserved, and
   opened with `O_TRUNC`; a branch that another process makes in between is
   overwritten (`sqlite.go:161`, `sqlite.go:163`, `sqlite.go:185`).
2. `sql_dollar_quotes`: the scan for the tag that closes a dollar-quoted body
   starts, and stops, at the dollar sign it was called for, so that the
   candidate is always `$` and the body never ends. `DO $$ ... $$; DROP TABLE t`
   is one statement to `SplitStatementsForEngine`, outside the parser's patterns
   (`parser.go:171`, `parser.go:197`). The gate does not let it pass for that:
   `AnalyzeSQL` raises unclassified statements to HIGH, and the policy's
   patterns do not depend on the split (`PolicySeesCode`).

The following show up as an exception that a passing property has to make; each
was found by stating the property without it.

3. A connection that registers its socket after the only pass of
   `closeActiveConns` keeps `Stop` waiting as long as its peers stay
   (`proxy.go:222`; CHANGELOG.md:55 has "forced termination on proxy
   shutdown"). `StopReturnsUnlessMissed` excepts exactly these.
4. `branchChecks` is never invalidated; a branch deleted and created again
   passes onto the database of one created meanwhile (`proxy.go:252`,
   `resolver.go:129`). `NoSharedDatabase` is checked, and proved, for branches
   that come and go without colliding with any.
5. prune reads the active branch once, before the prompt; one that is checked
   out afterwards loses its database (`main.go:714`, `main.go:747`).
   `SparesBranchesInUse` is about branches in use since prune began.
6. prune goes by branches when it asks what is merged and by sanitized names when
   it deletes: if `feat-x` is merged, the database `feat_x` goes, and with it that
   of `feat/x`, which may have unmerged work (`main.go:756`; README.md:94 has
   "Safely delete"). `SparesBranchesInUse` excepts exactly the names that are
   `shared` in this way.
7. Databases are listed by the prefix of their name, so another program's
   `base_test` counts as an orphan and is pruned (`postgres.go:356`,
   `driver.go:40`). `Prune` lists them as the code does (`ListDatabases`).
8. A cached assessment is taken before the policy's patterns are looked at, and
   the cache key has neither the policy nor the engine: a pattern that was added
   after the assessment is not applied (`analyzer.go:142`).
   `PassedWasAssessed` excepts results from the cache, for this clause only.
9. The cache is "written atomically" (`cache.go:104`), but through one temporary
   name for all processes: two that overlap can put an empty or mixed-up file in
   its place. `TornOnlyByOverlap` says that nothing else can. The next call
   begins without results and assesses everything again.
10. A Git process that does not answer holds a handler and its slot for ever, and
   `Stop` with it: branch resolution has no deadline, and neither closing the
   client socket nor cancelling the context reaches it (`proxy.go:437`,
   `proxy.go:449`, `resolver.go:152`, `resolver.go:171`; SECURITY.md:45 has
   "Startup packets have a deadline"). `HandshakeEnds` and
   `StopReturnsUnlessMissed` except it.
11. A statement of a copy whose client has given up may be carried out after the
   clean-up: a late `$out` brings the dropped target back, with one collection in
   it (`mongodb.go:120`, `mongodb.go:143`), a late `CREATE DATABASE` leaves an
   empty branch (`mysql.go:228`), and a late `INSERT` of an earlier call doubles
   rows that a new copy brings, or fails it. `PartialIsExplained` has such a
   database `blamed`, and `CreatedIsWhole` and `CleanupDropsOwn` except the copy
   the `INSERT` has met.
12. Texts that the scanners read otherwise than the server does. `ReadsAlike` names
   the comments and strings: `#` begins a comment, and a backslash escapes in
   single quotes, in PostgreSQL and SQLite too (`parser.go:58`, `parser.go:151`,
   `policy.go:165`, `policy.go:254`); in MySQL two dashes begin one without the
   blank the server wants after them, and a backslash does not escape in double
   quotes. `DollarOpens`: in PostgreSQL anything between two dollars within 30
   characters opens a body for `SplitStatementsForEngine`, so that
   `EXECUTE p($1); DROP TABLE t; EXECUTE q($2)` is one statement
   (`parser.go:214`). `TagsAreWords`: `$$` opens a body for the policy's patterns
   in MySQL and SQLite too, and a quote in that "body" ends with it
   (`policy.go:217`). The properties of `SqlText` except just these texts.

Two smaller ones are plain from the code and have no run. The driver's five
seconds (`proxy.go:365`) are derived from the connection's ten, which also run
during the wait for the lock, so that they are not "dedicated"
(ARCHITECTURE.md:119). `pg_terminate_backend` is called for every session on the
source database, not only "idle connections" (`postgres.go:283`, README.md:172).
Of the risk gate: the hook prewarms a branch when the policy cannot be loaded or
the migrations cannot be listed, and does not when one of them cannot be read
(`main.go:884-896`); SQL files outside the five directories of `risk.go:179` are
not looked at, and `--branch` does not change which are (`risk.go:312`); an `ALTER TABLE` with several actions is
classified by the first pattern that matches; a level the remote classifier
words differently is UNKNOWN, whose action is "warn" (`policy.go:297`).

## 7. What is not modelled

* Byte formats of packets, SQL text and connection strings; pool settings, the
  TLS handshake's own messages, removal of a stale Unix socket file: no modelled
  state depends on them. (The TLS connection's entry in `activeConns` is
  modelled.)
* The comment on a PostgreSQL database: every caller passes sanitized names, so
  the comparison in `CreateBranch` never has an effect.
* The wire handshakes, beyond their outcomes in `ProxyServer`: one goroutine
  reads one connection's bytes in order. What could be wrong are offsets within
  a packet, which would have to be written out byte by byte, as the package's
  own table tests do.
* `SanitizeBranchName` character by character: the models take it for any
  many-to-one function, which is all that their properties depend on.
* Git hooks and the TUI: one process that edits a file between two markers, and
  one event loop that handles one key at a time. Nothing runs concurrently in
  either but the driver calls, which are modelled.
* Listing, doctor, Compose detection, completion scripts, configuration
  loading: one-shot reading and printing.
* The regular expressions of the parser, the text of flags and suggestions, the
  saved report, the HTTP client and the catalogue queries of the risk gate: data
  and I/O. Their outcomes are inputs of `RiskGate`, and so is the list of pending
  migrations, which `changedMigrationFiles` filters by directory: what
  `PassedWasAssessed` says is of the migrations that were collected.
* Losing entries of the assessment cache to the last of two writers: the next call
  assesses again.
* In `SqlText`: several different dollar tags in one text, tags of 30 characters
  and more, PostgreSQL's E strings, backticks outside MySQL, names in brackets,
  and statements that contain others (the `BEGIN ... END` of a trigger), which the
  code does cut up; `BEGIN`, `COMMIT` and savepoints, which are dropped after the
  split.
* SQLite: two changes of the base database within one tick of the file system's
  clock that leave its size as it is, which the second `os.Stat` cannot tell
  (`sqlite.go:195`); the model takes it to see every change.
* SQLite in WAL mode and the sidecar files, which decide there whether a branch
  can be made at all; what applications write to SQLite branches; the clone
  calls of macOS and other systems.
* What applications write to a MySQL or MongoDB base database while it is
  copied: the copies promise no common moment for their tables.

## 8. What may follow

1. *Proofs* beyond the properties of the runs: the lemmas about the other
   components' operators, and the next item's refinement.
2. The part of `BranchStore` that the SQLite and the copying drivers keep: a
   marker, or a partial copy, that outlives its maker makes a name neither
   existing nor creatable; then provisioning over each of them.
3. SQLite bases in WAL mode.
