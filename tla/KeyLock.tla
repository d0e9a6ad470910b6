------------------------------ MODULE KeyLock ------------------------------
(***************************************************************************)
(* What proxy/keyed_mutex.go promises: one mutual-exclusion lock per key.   *)
(* "keyedMutex provides fine-grained mutual exclusion per string key."      *)
(* There is no map, no entry and no reference count here; a caller asks     *)
(* for a key, is granted it when nobody holds it, and gives it back.        *)
(* KeyedMutex implements it, and JitProvision uses it.                      *)
(***************************************************************************)
CONSTANTS Proc,   \* the goroutines that call Lock
          Key     \* the keys they call it with

VARIABLES asking, \* the <<p, k>> such that p has called Lock(k) and waits
          inside  \* the <<p, k>> such that Lock(k) has returned to p

vars == <<asking, inside>>

Init == asking = {} /\ inside = {}

(* p calls Lock(k); it uses one key at a time.                              *)
Ask(p, k) ==
  /\ \A k2 \in Key : <<p, k2>> \notin asking \cup inside
  /\ asking' = asking \cup {<<p, k>>}
  /\ UNCHANGED inside

(* Lock(k) returns to p: nobody is inside k.                                *)
Grant(p, k) ==
  /\ <<p, k>> \in asking
  /\ \A q \in Proc : <<q, k>> \notin inside
  /\ asking' = asking \ {<<p, k>>}
  /\ inside' = inside \cup {<<p, k>>}

(* p calls the unlock function it was given.                                *)
GiveBack(p, k) ==
  /\ <<p, k>> \in inside
  /\ inside' = inside \ {<<p, k>>}
  /\ UNCHANGED asking

Next == \E p \in Proc, k \in Key : Ask(p, k) \/ Grant(p, k) \/ GiveBack(p, k)

Spec == Init /\ [][Next]_vars

(* A lock that is asked for is granted, as long as its holders give it back. *)
FairSpec ==
  Spec /\ \A p \in Proc, k \in Key : SF_vars(Grant(p, k)) /\ WF_vars(GiveBack(p, k))
=============================================================================
