-------------------------- MODULE MCBranchIdentity --------------------------
(* Instances of BranchIdentity for TLC: "feat/x" and "feat-x" have the same  *)
(* database identifier.                                                      *)
EXTENDS BranchIdentity, TLC

MCBranch == {"main", "topic", "feat/x", "feat-x"}
MCName == {"main", "topic", "feat_x", "detached_head"}
MCSanitized ==
  [b \in MCBranch \cup {"detached HEAD"} |->
     IF b \in {"main", "topic"} THEN b
     ELSE IF b = "detached HEAD" THEN "detached_head" ELSE "feat_x"]

Symmetry == Permutations(Conn)
=============================================================================
