---------------------------- MODULE BranchStore ----------------------------
(***************************************************************************)
(* What internal/driver/driver.go's Driver promises of BranchExists,        *)
(* CreateBranch and DeleteBranch to callers in several processes.           *)
(*                                                                          *)
(* A call that returns without error took effect at one instant between its *)
(* start and its return, and what BranchExists says was true at such an     *)
(* instant.  A call that returns an error may have taken effect, may never  *)
(* take it, or may take it later: the server goes on with a statement whose *)
(* client has given up.  A database is there or it is not, never half of    *)
(* it, and the base database always is.                                     *)
(***************************************************************************)
EXTENDS StoreState

VARIABLE call  \* the latest call of each process

vars == <<databases, call, late>>

Operations == {"exists", "create", "delete"}
Finished   == {"yes", "no", "ok", "error"}

(* "pending": no effect yet. "done": took effect, has not returned.         *)
Calls == [op : Operations, name : Name, result : Finished \cup {"pending", "done"}]

Init ==
  /\ databases \in {S \in SUBSET Name : Base \in S}
  /\ call = [p \in Proc |-> [op |-> "exists", name |-> Base, result |-> "error"]]
  /\ late = {}

Becomes(p, result) == call' = [call EXCEPT ![p].result = result]

(* p calls an operation.                                                    *)
Ask(p, op, n) ==
  /\ call[p].result \in Finished
  /\ call' = [call EXCEPT ![p] = [op |-> op, name |-> n, result |-> "pending"]]
  /\ UNCHANGED <<databases, late>>

(* BranchExists sees whether the database is there.                         *)
Answer(p) ==
  /\ call[p].op = "exists" /\ call[p].result = "pending"
  /\ Becomes(p, IF call[p].name \in databases THEN "yes" ELSE "no")
  /\ UNCHANGED <<databases, late>>

(* CreateBranch makes the database, or finds it there.                      *)
Create(p) ==
  /\ call[p].op = "create" /\ call[p].result = "pending"
  /\ databases' = databases \cup {call[p].name}
  /\ \E result \in {"done", "ok"} : Becomes(p, result)
  /\ UNCHANGED late

(* DeleteBranch removes the database, or finds it gone.                     *)
Delete(p) ==
  /\ call[p].op = "delete" /\ call[p].result = "pending"
  /\ call[p].name # Base
  /\ databases' = databases \ {call[p].name}
  /\ \E result \in {"done", "ok"} : Becomes(p, result)
  /\ UNCHANGED late

(* A call that took effect returns without error.                           *)
Succeed(p) ==
  /\ call[p].result = "done"
  /\ Becomes(p, "ok")
  /\ UNCHANGED <<databases, late>>

(* A call returns an error; its effect may be still to come.                *)
Fail(p) ==
  /\ call[p].result \in {"pending", "done"}
  /\ Becomes(p, "error")
  /\ \/ UNCHANGED late
     \/ /\ call[p].result = "pending" /\ call[p].op \in {"create", "delete"}
        /\ call[p].op = "delete" => call[p].name # Base
        /\ late' = late \cup {<<call[p].op, call[p].name>>}
  /\ UNCHANGED databases

(* A statement whose caller has gone runs, or is given up too.              *)
LateEffect(op, n) ==
  /\ <<op, n>> \in late
  /\ late' = late \ {<<op, n>>}
  /\ databases' \in {databases, IF op = "create" THEN databases \cup {n} ELSE databases \ {n}}
  /\ UNCHANGED call

Next ==
  \/ \E p \in Proc :
       \/ \E op \in Operations, n \in Name : Ask(p, op, n)
       \/ Answer(p) \/ Create(p) \/ Delete(p) \/ Succeed(p) \/ Fail(p)
  \/ \E op \in {"create", "delete"}, n \in Name : LateEffect(op, n)

Spec == Init /\ [][Next]_vars
=============================================================================
