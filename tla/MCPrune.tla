------------------------------ MODULE MCPrune ------------------------------
(* Instances of Prune for TLC: two branches that share the sanitized name    *)
(* "detached_head" with what Git notes when a rebase begins at a commit;     *)
(* merged branches with "detached" in their names are not listed.            *)
EXTENDS Prune

MCName == {"main", "detached_head"}
MCBranch == {"main", "Detached/HEAD", "detached-head"}
MCSanitized ==
  [b \in MCBranch \cup {"detached HEAD"} |-> IF b = "main" THEN "main" ELSE "detached_head"]
=============================================================================
