------------------------------- MODULE Prune -------------------------------
(***************************************************************************)
(* cmd/branchbase/main.go, runPrune: list the databases, resolve the active *)
(* branch, the local branches and the merged ones, choose the databases of  *)
(* merged and orphaned branches, ask the user, delete them one by one.      *)
(* Meanwhile the developer goes on using Git, and other BranchBase          *)
(* processes (proxy, hook, switch, TUI) provision databases: BranchExists,  *)
(* then CreateBranch if there is none.  The driver is any that keeps the    *)
(* contract BranchStore.                                                    *)
(*                                                                          *)
(* Each of the four readings can fail, and all statements fail once the     *)
(* ten seconds of prune's context are over, of which the prompt is part.    *)
(***************************************************************************)
EXTENDS StoreState

CONSTANTS
  Pruner,     \* the process that runs prune
  Branch,     \* Git branch names
  Default,    \* the default branch
  Detached,   \* what Git writes where no branch is checked out
  NoRebase,   \* there is no rebase-merge or rebase-apply directory
  Unlisted,   \* branches that ResolveMergedBranches passes over: "detached" in the name
  Sanitized,  \* Sanitized[b]: SanitizeBranchName(b)
  Managed     \* names whose databases are BranchBase's, not another program's

ASSUME PrunerAssumption == Pruner \in Proc
ASSUME DefaultAssumption == Default \in Branch
ASSUME DetachedAssumption == {Detached, NoRebase} \cap Branch = {} /\ Detached # NoRebase
ASSUME SanitizedAssumption ==
  Sanitized \in [Branch \cup {Detached} -> Name] /\ Sanitized[Default] = Base

ASSUME ManagedAssumption == Managed \subseteq Name

VARIABLES
  call,        \* the calls of the driver: see BranchStore
  local,       \* the local branches
  merged,      \* the local branches with nothing that the default branch lacks
  head,        \* what HEAD refers to: a branch, or a commit (Detached)
  rebasing,    \* rebase-merge/head-name: what HEAD was when a rebase began
  prune,       \* where prune is
  candidates,  \* what it may delete, as far as it knows
  orphaned,    \* those of them that have no local branch
  shared,      \* history: names of merged branches that also had unmerged work
  kept         \* history: <<why, name>> in use at every moment since prune began

Store == INSTANCE BranchStore

storeVars == <<databases, call, late>>
gitVars == <<local, merged, head, rebasing>>
pruneVars == <<prune, candidates, orphaned, shared>>
vars == <<storeVars, gitVars, pruneVars, kept>>

(* "list", "active", "local", "merged": about to read these. "prompt":      *)
(* waiting for the user. "deleting": deleting candidates.                   *)
TypeOK ==
  /\ databases \in SUBSET Name
  /\ call \in [Proc -> Store!Calls]
  /\ late \in SUBSET ({"create", "delete"} \X Name)
  /\ local \in SUBSET Branch
  /\ merged \in SUBSET local
  /\ head \in Branch \cup {Detached}
  /\ rebasing \in Branch \cup {Detached, NoRebase}
  /\ prune \in {"off", "list", "active", "local", "merged", "prompt", "deleting"}
  /\ candidates \in SUBSET (Name \ {Base})
  /\ orphaned \in SUBSET candidates
  /\ shared \in SUBSET Name
  /\ kept \in SUBSET ({"active", "work"} \X Name)

Init ==
  /\ Store!Init
  /\ local = {Default} /\ merged = {Default}
  /\ head = Default /\ rebasing = NoRebase
  /\ prune = "off" /\ candidates = {} /\ orphaned = {} /\ shared = {} /\ kept = {}

NamesOf(branches) == {Sanitized[b] : b \in branches}

(* ResolveCurrentBranch: the branch checked out, or else what a rebase in   *)
(* progress has noted, which is a branch or the words "detached HEAD".      *)
Active(h, r) == IF h # Detached THEN {h} ELSE {r} \ {NoRebase}

(* A name is in use because its branch is active, or because a local branch *)
(* of that name has work that is not merged.                                *)
InUseBy(h, r, l, m) ==
  ({"active"} \X NamesOf(Active(h, r))) \cup ({"work"} \X NamesOf(l \ m))

Observe == kept' = kept \cap InUseBy(head', rebasing', local', merged')
Unobserved == UNCHANGED <<gitVars, kept>>

-----------------------------------------------------------------------------
(* git checkout, of a branch or of a commit.                                *)
GitCheckout(b) ==
  /\ b \in local \cup {Detached}
  /\ head' = b
  /\ UNCHANGED <<local, merged, rebasing, storeVars, pruneVars>> /\ Observe

(* git branch, with commits that the default branch lacks or not.          *)
GitBranch(b) ==
  /\ b \notin local \cup {Default}
  /\ local' = local \cup {b}
  /\ merged' \in {merged, merged \cup {b}}
  /\ UNCHANGED <<head, rebasing, storeVars, pruneVars>> /\ Observe

(* git commit on the branch that is checked out.                            *)
GitCommit ==
  /\ head \in local \ {Default}
  /\ merged' = merged \ {head}
  /\ UNCHANGED <<local, head, rebasing, storeVars, pruneVars>> /\ Observe

(* b is merged into the default branch.                                     *)
GitMerge(b) ==
  /\ b \in local
  /\ merged' = merged \cup {b}
  /\ UNCHANGED <<local, head, rebasing, storeVars, pruneVars>> /\ Observe

(* git branch -D.                                                           *)
GitDelete(b) ==
  /\ b \in local \ {head, rebasing, Default}
  /\ local' = local \ {b} /\ merged' = merged \ {b}
  /\ UNCHANGED <<head, rebasing, storeVars, pruneVars>> /\ Observe

(* The default branch goes (git branch -D), or comes back.  Without it the  *)
(* others are compared with origin/<default> (resolver.go:272-286), and     *)
(* different ones are merged.                                               *)
GitDefault ==
  /\ \/ Default \in local \ {head, rebasing} /\ local' = local \ {Default}
     \/ Default \notin local /\ local' = local \cup {Default}
  /\ merged' \in SUBSET local' /\ (Default \in local' => Default \in merged')
  /\ UNCHANGED <<head, rebasing, storeVars, pruneVars>> /\ Observe

(* git rebase detaches HEAD and notes what was checked out.                 *)
GitRebase ==
  /\ rebasing = NoRebase
  /\ rebasing' = head /\ head' = Detached
  /\ UNCHANGED <<local, merged, storeVars, pruneVars>> /\ Observe

(* The rebase is finished or aborted (HEAD returns), or quit (it stays); a  *)
(* rebased branch may have no commit left that the default branch lacks.    *)
GitRebaseEnds ==
  /\ rebasing # NoRebase
  /\ head' \in {head, rebasing} /\ rebasing' = NoRebase
  /\ merged' \in {merged, merged \cup ({rebasing} \cap local)}
  /\ UNCHANGED <<local, storeVars, pruneVars>> /\ Observe

-----------------------------------------------------------------------------
Prunes(from, to) == prune = from /\ prune' = to

(* prune is started.                                                        *)
PruneStarts ==
  /\ Prunes("off", "list")
  /\ kept' = InUseBy(head, rebasing, local, merged)
  /\ UNCHANGED <<storeVars, gitVars, candidates, orphaned, shared>>

(* Mutant of ListDatabases: the base database is not protected.             *)
ListUnprotected ==
  /\ Prunes("list", "active")
  /\ candidates' = databases
  /\ UNCHANGED <<storeVars, orphaned, shared>> /\ Unobserved

(* ListBranches: every database named base_..., whoever made it; the base   *)
(* database is protected.                                                   *)
ListDatabases ==
  /\ Prunes("list", "active")
  /\ candidates' = databases \ {Base}
  /\ UNCHANGED <<storeVars, orphaned, shared>> /\ Unobserved

(* ResolveCurrentBranch; without one prune gives up.                        *)
ResolveActive ==
  /\ Active(head, rebasing) # {}
  /\ Prunes("active", "local")
  /\ candidates' = candidates \ NamesOf(Active(head, rebasing))
  /\ UNCHANGED <<storeVars, orphaned, shared>> /\ Unobserved

(* Mutant of ResolveLocal: names are compared before they are sanitized.    *)
ResolveLocalRaw ==
  /\ Prunes("local", "merged")
  /\ orphaned' = IF local = {} THEN {} ELSE candidates \ local
  /\ UNCHANGED <<storeVars, candidates, shared>> /\ Unobserved

(* ResolveLocalBranches: a database without a local branch is orphaned,     *)
(* unless there seems to be no local branch at all.                         *)
ResolveLocal ==
  /\ Prunes("local", "merged")
  /\ orphaned' = IF local = {} THEN {} ELSE candidates \ NamesOf(local)
  /\ UNCHANGED <<storeVars, candidates, shared>> /\ Unobserved

(* ResolveMergedBranches, and the choice of the candidates: first those     *)
(* whose name a merged branch has, whatever other branches have it, then    *)
(* the orphaned ones.                                                       *)
ResolveMerged ==
  /\ Prunes("merged", "prompt")
  /\ candidates' = orphaned \cup (candidates \cap NamesOf(merged \ ({Default} \cup Unlisted)))
  /\ shared' = NamesOf(merged \ Unlisted) \cap NamesOf(local \ merged)
  /\ orphaned' = {}
  /\ UNCHANGED storeVars /\ Unobserved

(* A reading fails (as when there is neither a default branch nor           *)
(* origin/<default>), there is nothing to prune, it is a dry run, or the user *)
(* does not say yes.                                                        *)
PruneGivesUp ==
  /\ prune \in {"list", "active", "local", "merged", "prompt"}
  /\ prune' = "off" /\ candidates' = {} /\ orphaned' = {} /\ shared' = {} /\ kept' = {}
  /\ UNCHANGED <<storeVars, gitVars>>

(* The user says yes, or has said --force.                                  *)
Confirmed ==
  /\ candidates # {}
  /\ Prunes("prompt", "deleting")
  /\ UNCHANGED <<storeVars, candidates, orphaned, shared>> /\ Unobserved

(* DeleteBranch of the next candidate, whatever became of the last one.     *)
DeleteNext(n) ==
  /\ prune = "deleting" /\ n \in candidates
  /\ Store!Ask(Pruner, "delete", n)
  /\ candidates' = candidates \ {n}
  /\ UNCHANGED <<prune, orphaned, shared>> /\ Unobserved

(* The last deletion has returned.                                          *)
PruneEnds ==
  /\ candidates = {} /\ call[Pruner].result \in Store!Finished
  /\ Prunes("deleting", "off")
  /\ shared' = {} /\ kept' = {}
  /\ UNCHANGED <<storeVars, gitVars, candidates, orphaned>>

-----------------------------------------------------------------------------
(* Another process provisions n: BranchExists, and CreateBranch if the      *)
(* answer was no.                                                           *)
Provision(p, n) ==
  /\ p # Pruner
  /\ \/ Store!Ask(p, "exists", n)
     \/ /\ call[p].op = "exists" /\ call[p].name = n /\ call[p].result = "no"
        /\ Store!Ask(p, "create", n)
  /\ UNCHANGED <<gitVars, pruneVars, kept>>

(* A call under way goes on, and ends.                                      *)
CallGoesOn(p) ==
  /\ \/ Store!Answer(p) \/ Store!Create(p) \/ Store!Delete(p)
     \/ Store!Succeed(p) \/ Store!Fail(p)
  /\ UNCHANGED <<gitVars, pruneVars, kept>>

(* The server finishes an abandoned statement.                              *)
LateEffect(op, n) ==
  /\ Store!LateEffect(op, n)
  /\ UNCHANGED <<gitVars, pruneVars, kept>>

Developer ==
  \/ \E b \in Branch : GitCheckout(b) \/ GitBranch(b) \/ GitMerge(b) \/ GitDelete(b)
  \/ GitCheckout(Detached) \/ GitCommit \/ GitDefault \/ GitRebase \/ GitRebaseEnds

RunPrune ==
  \/ PruneStarts \/ ListDatabases \/ ResolveActive \/ ResolveLocal \/ ResolveMerged
  \/ PruneGivesUp \/ Confirmed \/ (\E n \in Name : DeleteNext(n)) \/ PruneEnds

Next ==
  \/ Developer \/ RunPrune
  \/ \E p \in Proc : CallGoesOn(p) \/ \E n \in Managed \ {Base} : Provision(p, n)
  \/ \E op \in {"create", "delete"}, n \in Name : LateEffect(op, n)

Spec == Init /\ [][Next]_vars

-----------------------------------------------------------------------------
(* prune drops n, or leaves it to the server to drop it.                    *)
DropsNow(n) ==
  /\ call[Pruner].op = "delete" /\ call[Pruner].name = n
  /\ call[Pruner].result = "pending"
  /\ call'[Pruner].result # "error" \/ <<"delete", n>> \in late' \ late

(* "Safely delete" (README.md:94), and what the code makes of it.  A name   *)
(* whose branch was active (checked out, or being rebased) at every moment  *)
(* since prune began keeps its database, although prune reads the           *)
(* databases, HEAD, the branches and the merged branches one after the      *)
(* other and deletes much later.  A name with unmerged work at every such   *)
(* moment keeps it too, but for one case: a merged branch had the same      *)
(* sanitized name when prune read the merged branches (main.go:756), and    *)
(* then the database goes, work or not.  A branch that becomes active after *)
(* HEAD was read may lose its database (main.go:714-719), for all that      *)
(* main.go:747 says.                                                        *)
SparesBranchesInUse ==
  [][\A n \in Name :
       DropsNow(n) => <<"active", n>> \notin kept /\ (<<"work", n>> \in kept => n \in shared)]_vars
=============================================================================
