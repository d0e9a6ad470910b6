--------------------------- MODULE BranchIdentity ---------------------------
(***************************************************************************)
(* Which branch a proxy connection is routed to, and the guard against two  *)
(* branches sharing one database: internal/git/resolver.go (HEAD, a rebase  *)
(* in progress, local branches, sanitized names) and validateBranchIdentity *)
(* in internal/proxy/proxy.go, with its cache of branches already checked.  *)
(* The developer uses Git at any moment between the handler's steps.        *)
(***************************************************************************)
CONSTANTS
  Conn,        \* connection handlers
  Branch,      \* Git branch names
  Name,        \* database identifiers
  Detached,    \* what Git writes where no branch is checked out
  NoRebase,    \* there is no rebase-merge or rebase-apply directory
  Sanitized,   \* Sanitized[b]: SanitizeBranchName(b), many to one
  Main,        \* a branch that exists from the start
  Transient    \* branches that may be deleted, or be checked out unborn

ASSUME NameAssumption == Sanitized \in [Branch \cup {Detached} -> Name]
ASSUME MainAssumption == Main \in Branch
ASSUME DetachedAssumption == {Detached, NoRebase} \cap Branch = {} /\ Detached # NoRebase
ASSUME TransientAssumption == Transient \subseteq Branch

VARIABLES
  branches,      \* the local branches, as refs/heads lists them
  head,          \* what HEAD refers to: a branch, or a commit (Detached)
  rebasing,      \* rebase-merge/head-name: what HEAD was when a rebase began
  branchChecks,  \* Server.branchChecks
  pc,            \* where each handler is
  branch         \* the branch it resolved

gitVars == <<branches, head, rebasing>>
vars == <<gitVars, branchChecks, pc, branch>>

(* "detached": HEAD is a commit, about to look for a rebase. "resolved":    *)
(* the branch is known. "checking": not in branchChecks, about to list the  *)
(* branches. "unique": the check passed and is not yet remembered.          *)
TypeOK ==
  /\ branches \in SUBSET Branch
  /\ head \in Branch \cup {Detached}
  /\ rebasing \in Branch \cup {Detached, NoRebase}
  /\ branchChecks \in SUBSET (Branch \cup {Detached})
  /\ pc \in [Conn -> {"new", "detached", "resolved", "checking", "unique",
                      "serving", "refused"}]
  /\ branch \in [Conn -> Branch \cup {Detached}]

Init ==
  /\ branches = {Main} /\ head = Main /\ rebasing = NoRebase
  /\ branchChecks = {}
  /\ pc = [c \in Conn |-> "new"]
  /\ branch = [c \in Conn |-> Main]

Goto(c, phase) == pc' = [pc EXCEPT ![c] = phase]
proxyVars == <<branchChecks, pc, branch>>

-----------------------------------------------------------------------------
(* git checkout, of a branch or of a commit.                                *)
GitCheckout(b) ==
  /\ b \in branches \cup {Detached}
  /\ head' = b
  /\ UNCHANGED <<branches, rebasing, proxyVars>>

(* git checkout --orphan: HEAD names a branch that has no commit yet.       *)
GitOrphan(b) ==
  /\ b \in Transient \ branches
  /\ head' = b
  /\ UNCHANGED <<branches, rebasing, proxyVars>>

(* git branch, or the first commit on an unborn branch.                     *)
GitCreate(b) ==
  /\ branches' = branches \cup {b}
  /\ UNCHANGED <<head, rebasing, proxyVars>>

(* git branch -D (or -m), refused for a branch in use.                      *)
GitDelete(b) ==
  /\ b \in Transient \ {head, rebasing}
  /\ branches' = branches \ {b}
  /\ UNCHANGED <<head, rebasing, proxyVars>>

(* git rebase detaches HEAD and notes in head-name what was checked out: a  *)
(* branch, or the words "detached HEAD".                                    *)
GitRebase ==
  /\ rebasing = NoRebase
  /\ head \in branches \cup {Detached}
  /\ rebasing' = head /\ head' = Detached
  /\ UNCHANGED <<branches, proxyVars>>

(* The rebase is finished or aborted (HEAD returns), or quit (it stays).    *)
GitRebaseEnds ==
  /\ rebasing # NoRebase
  /\ head' \in {head, rebasing}
  /\ rebasing' = NoRebase
  /\ UNCHANGED <<branches, proxyVars>>

-----------------------------------------------------------------------------
(* ResolveCurrentBranch reads HEAD.                                         *)
ReadHead(c) ==
  /\ pc[c] = "new"
  /\ \/ head = Detached /\ Goto(c, "detached") /\ UNCHANGED branch
     \/ /\ head # Detached
        /\ Goto(c, "resolved")
        /\ branch' = [branch EXCEPT ![c] = head]
  /\ UNCHANGED <<gitVars, branchChecks>>

(* Mutant of ReadRebase: head-name is taken without looking for it.         *)
RebaseAssumed(c) ==
  /\ pc[c] = "detached"
  /\ Goto(c, "resolved")
  /\ branch' = [branch EXCEPT ![c] = rebasing]
  /\ UNCHANGED <<gitVars, branchChecks>>

(* With HEAD a commit: what head-name contains, if there is such a file and *)
(* it is not empty, is the branch; else the connection is refused.          *)
ReadRebase(c) ==
  /\ pc[c] = "detached"
  /\ \/ rebasing = NoRebase /\ Goto(c, "refused") /\ UNCHANGED branch
     \/ /\ rebasing # NoRebase
        /\ Goto(c, "resolved")
        /\ branch' = [branch EXCEPT ![c] = rebasing]
  /\ UNCHANGED <<gitVars, branchChecks>>

(* validateBranchIdentity: a branch checked before passes without a check.  *)
LookUpCheck(c) ==
  /\ pc[c] = "resolved"
  /\ Goto(c, IF branch[c] \in branchChecks THEN "serving" ELSE "checking")
  /\ UNCHANGED <<gitVars, branchChecks, branch>>

(* Mutant of Unique: names are compared before they are sanitized.          *)
UniqueRaw(b) == \A d \in branches : d # b => d # Sanitized[b]

(* No other local branch has the database identifier of b.                  *)
Unique(b) == \A d \in branches : d # b => Sanitized[d] # Sanitized[b]

(* Mutant of CheckUnique: the result of the check is ignored.               *)
CheckIgnored(c) ==
  /\ pc[c] = "checking"
  /\ Goto(c, "unique")
  /\ UNCHANGED <<gitVars, branchChecks, branch>>

(* ValidateBranchNameUnique, outside branchCheckMu: list the local branches *)
(* (or fail to) and compare.  A directory that is no repository passes, but *)
(* the branch has been read from this one.                                  *)
CheckUnique(c) ==
  /\ pc[c] = "checking"
  /\ \/ Unique(branch[c]) /\ Goto(c, "unique")
     \/ Goto(c, "refused")
  /\ UNCHANGED <<gitVars, branchChecks, branch>>

(* The check is remembered for the life of the proxy; the connection goes on. *)
RememberCheck(c) ==
  /\ pc[c] = "unique"
  /\ branchChecks' = branchChecks \cup {branch[c]}
  /\ Goto(c, "serving")
  /\ UNCHANGED <<gitVars, branch>>

(* The connection ends.                                                     *)
Disconnect(c) ==
  /\ pc[c] \in {"serving", "refused"}
  /\ Goto(c, "new")
  /\ branch' = [branch EXCEPT ![c] = Main]
  /\ UNCHANGED <<gitVars, branchChecks>>

Handler(c) ==
  \/ ReadHead(c) \/ ReadRebase(c) \/ LookUpCheck(c)
  \/ CheckUnique(c) \/ RememberCheck(c) \/ Disconnect(c)

Developer ==
  \/ \E b \in Branch : GitCheckout(b) \/ GitOrphan(b) \/ GitCreate(b) \/ GitDelete(b)
  \/ GitCheckout(Detached) \/ GitRebase \/ GitRebaseEnds

Next == Developer \/ \E c \in Conn : Handler(c)

Spec == Init /\ [][Next]_vars

-----------------------------------------------------------------------------
(* "Sharing one database across distinct branches would violate             *)
(* BranchBase's isolation guarantee" (git/resolver.go:129): two connections *)
(* that are served for two existing branches have different databases, even *)
(* when the branches appear while connections are being checked, and        *)
(* although a check is done once per branch.  It takes that the branches    *)
(* that are deleted, or checked out unborn, are not those that collide.     *)
NoSharedDatabase ==
  \A c, d \in Conn :
    /\ pc[c] = "serving" /\ pc[d] = "serving"
    /\ {branch[c], branch[d]} \subseteq branches
    /\ Sanitized[branch[c]] = Sanitized[branch[d]]
    => branch[c] = branch[d]

=============================================================================
