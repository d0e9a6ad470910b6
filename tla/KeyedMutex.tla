----------------------------- MODULE KeyedMutex -----------------------------
(***************************************************************************)
(* internal/proxy/keyed_mutex.go: a mutex per key, whose entries live in a  *)
(* map as long as a goroutine uses them.                                    *)
(*                                                                          *)
(* Each action is one critical section of km.mu, or one operation on        *)
(* entry.mu: the granularity at which goroutines can interleave.  A Lock is *)
(* Register; Acquire, and the function it returns is Release; Deregister:   *)
(* the entry's mutex is released BEFORE the reference count is decremented, *)
(* so another goroutine can be inside the key, or can register for it,      *)
(* between the two.                                                         *)
(***************************************************************************)
EXTENDS Integers, FiniteSets

CONSTANTS Proc,    \* goroutines; each uses one key at a time, as the proxy does
          Key,     \* keys (sanitized branch names in the proxy)
          Entry,   \* heap addresses of keyLockEntry objects
          NoEntry  \* locks[k] = NoEntry: the map has no entry for k

ASSUME ProcAssumption == IsFiniteSet(Proc)
ASSUME EntryAssumption == NoEntry \notin Entry

VARIABLES
  locks,     \* km.locks: the entry of every key that has one
  refCount,  \* entry.refCount
  locked,    \* the entries whose mu is locked
  pc,        \* where each goroutine is
  key,       \* the key of the goroutine's last Lock call
  entry,     \* the entry captured by that call and its unlock function
  once       \* goroutines whose unlock function has already run its body

vars == <<locks, refCount, locked, pc, key, entry, once>>

(* "idle": never called Lock. "waiting": registered, blocked on entry.mu.   *)
(* "holding": Lock returned. "leaving": entry.mu released, reference still  *)
(* counted. "returned": unlocked; the unlock function can be called again.  *)
Phases == {"idle", "waiting", "holding", "leaving", "returned"}

TypeOK ==
  /\ locks \in [Key -> Entry \cup {NoEntry}]
  /\ refCount \in [Entry -> Nat]
  /\ locked \in SUBSET Entry
  /\ pc \in [Proc -> Phases]
  /\ key \in [Proc -> Key]
  /\ entry \in [Proc -> Entry \cup {NoEntry}]
  /\ once \in SUBSET Proc

-----------------------------------------------------------------------------
(* The goroutines that hold a counted reference to e, and its owner(s).     *)
Counted == {"waiting", "holding", "leaving"}
Users(e) == {p \in Proc : pc[p] \in Counted /\ entry[p] = e}

(* An address the allocator can hand out: the garbage collector has         *)
(* reclaimed what neither the map nor a goroutine refers to.  A goroutine   *)
(* that has unlocked still refers to its entry through the closure.         *)
Unreachable(e) == /\ \A k \in Key : locks[k] # e
                  /\ \A p \in Proc : entry[p] # e

Init ==
  /\ locks = [k \in Key |-> NoEntry]
  /\ refCount = [e \in Entry |-> 0]
  /\ locked = {}
  /\ pc = [p \in Proc |-> "idle"]
  /\ key \in [Proc -> Key]
  /\ entry = [p \in Proc |-> NoEntry]
  /\ once = {}

(* Mutant of Register: a waiter that finds an entry is not counted.         *)
RegisterUncounted(p, k) ==
  /\ pc[p] \in {"idle", "returned"}
  /\ \/ /\ locks[k] # NoEntry
        /\ entry' = [entry EXCEPT ![p] = locks[k]]
        /\ UNCHANGED <<locks, locked, refCount>>
     \/ /\ locks[k] = NoEntry
        /\ \E e \in Entry :
             /\ Unreachable(e)
             /\ locks' = [locks EXCEPT ![k] = e]
             /\ entry' = [entry EXCEPT ![p] = e]
             /\ refCount' = [refCount EXCEPT ![e] = 1]
             /\ locked' = locked \ {e}
  /\ pc' = [pc EXCEPT ![p] = "waiting"]
  /\ key' = [key EXCEPT ![p] = k]
  /\ once' = once \ {p}

(* Lock, the section under km.mu: find or create the entry, count the use.  *)
(* The goroutine drops the closure of an earlier Lock when it calls again.  *)
Register(p, k) ==
  /\ pc[p] \in {"idle", "returned"}
  /\ \/ /\ locks[k] # NoEntry
        /\ entry' = [entry EXCEPT ![p] = locks[k]]
        /\ refCount' = [refCount EXCEPT ![locks[k]] = @ + 1]
        /\ UNCHANGED <<locks, locked>>
     \/ /\ locks[k] = NoEntry
        /\ \E e \in Entry :
             /\ Unreachable(e)
             /\ locks' = [locks EXCEPT ![k] = e]
             /\ entry' = [entry EXCEPT ![p] = e]
             /\ refCount' = [refCount EXCEPT ![e] = 1]
             /\ locked' = locked \ {e}
  /\ pc' = [pc EXCEPT ![p] = "waiting"]
  /\ key' = [key EXCEPT ![p] = k]
  /\ once' = once \ {p}

(* Lock, entry.mu.Lock(): blocks while the entry's mutex is locked.         *)
Acquire(p) ==
  /\ pc[p] = "waiting"
  /\ entry[p] \notin locked
  /\ locked' = locked \cup {entry[p]}
  /\ pc' = [pc EXCEPT ![p] = "holding"]
  /\ UNCHANGED <<locks, refCount, key, entry, once>>

(* Mutants of Release: an unlock function without sync.Once; one that only  *)
(* gives its reference back and leaves entry.mu locked.                     *)
ReleaseTwice(p) ==
  /\ pc[p] \in {"holding", "returned"}
  /\ locked' = locked \ {entry[p]}
  /\ pc' = [pc EXCEPT ![p] = "leaving"]
  /\ UNCHANGED <<locks, refCount, key, entry, once>>

ReleaseNothing(p) ==
  /\ pc[p] = "holding"
  /\ once' = once \cup {p}
  /\ pc' = [pc EXCEPT ![p] = "leaving"]
  /\ UNCHANGED <<locks, refCount, locked, key, entry>>

(* unlock(), the first half of the body of once.Do: entry.mu.Unlock().  The *)
(* caller has the function from the moment Lock returns and may call it     *)
(* again after it has unlocked; only once.Do keeps the body from running.   *)
Release(p) ==
  /\ pc[p] \in {"holding", "returned"}
  /\ p \notin once
  /\ once' = once \cup {p}
  /\ locked' = locked \ {entry[p]}
  /\ pc' = [pc EXCEPT ![p] = "leaving"]
  /\ UNCHANGED <<locks, refCount, key, entry>>

(* Mutants of Deregister: the entry is deleted without looking at the       *)
(* count; an unused entry is never deleted.                                 *)
DeregisterAlways(p) ==
  /\ pc[p] = "leaving"
  /\ refCount' = [refCount EXCEPT ![entry[p]] = @ - 1]
  /\ locks' = [locks EXCEPT ![key[p]] = NoEntry]
  /\ pc' = [pc EXCEPT ![p] = "returned"]
  /\ UNCHANGED <<locked, key, entry, once>>

DeregisterKeeps(p) ==
  /\ pc[p] = "leaving"
  /\ refCount' = [refCount EXCEPT ![entry[p]] = @ - 1]
  /\ pc' = [pc EXCEPT ![p] = "returned"]
  /\ UNCHANGED <<locks, locked, key, entry, once>>

(* unlock(), the second half, under km.mu: uncount, delete an unused entry. *)
Deregister(p) ==
  /\ pc[p] = "leaving"
  /\ refCount' = [refCount EXCEPT ![entry[p]] = @ - 1]
  /\ locks' = IF refCount'[entry[p]] <= 0
              THEN [locks EXCEPT ![key[p]] = NoEntry]
              ELSE locks
  /\ pc' = [pc EXCEPT ![p] = "returned"]
  /\ UNCHANGED <<locked, key, entry, once>>

(* The goroutine ends or drops the unlock function: its closure is garbage. *)
Forget(p) ==
  /\ pc[p] = "returned"
  /\ pc' = [pc EXCEPT ![p] = "idle"]
  /\ entry' = [entry EXCEPT ![p] = NoEntry]
  /\ once' = once \ {p}
  /\ UNCHANGED <<locks, refCount, locked, key>>

Next == \E p \in Proc :
  \/ Acquire(p) \/ Release(p) \/ Deregister(p) \/ Forget(p)
  \/ \E k \in Key : Register(p, k)

Spec == Init /\ [][Next]_vars

(* A goroutine that can run does run; Go's sync.Mutex hands a contended     *)
(* lock to a waiter that has starved (its starvation mode), hence strong    *)
(* fairness of Acquire; a holder's critical section ends (every driver call *)
(* in it has a deadline), hence fairness of Release.  Nobody is forced to   *)
(* call Lock.                                                               *)
FairSpec ==
  Spec /\ \A p \in Proc : /\ SF_vars(Acquire(p))
                          /\ WF_vars(Release(p))
                          /\ WF_vars(Deregister(p))
-----------------------------------------------------------------------------
(* Safety: what makes the double-checked provisioning of the proxy sound.   *)

(* The critical section of a key is exclusive (keyed_mutex.go:5): two       *)
(* goroutines whose Lock(k) has returned and that have not called unlock    *)
(* are one.  It fails if an entry is deleted while someone still uses it,   *)
(* because the next Lock then creates a second mutex for the same key.      *)
MutualExclusion ==
  \A p, q \in Proc :
    pc[p] = "holding" /\ pc[q] = "holding" /\ key[p] = key[q] => p = q

(* Everyone who counts as a user of a key uses the entry the map holds for  *)
(* it, even while a goroutine sits between entry.mu.Unlock() and            *)
(* refCount-- (keyed_mutex.go:43-46), and no two keys share an entry.       *)
OneEntryPerKey ==
  /\ \A p \in Proc : pc[p] \in Counted => locks[key[p]] = entry[p]
  /\ \A k1, k2 \in Key : locks[k1] = locks[k2] /\ locks[k1] # NoEntry => k1 = k2

(* "... entries are automatically removed from the internal map when idle, *)
(* preventing memory leaks" (keyed_mutex.go:6): the count is exact, and an  *)
(* entry nobody uses is not in the map.                                     *)
NoLeakedEntry ==
  /\ \A e \in Entry : refCount[e] = Cardinality(Users(e))
  /\ \A k \in Key : locks[k] # NoEntry => refCount[locks[k]] > 0

(* A mutex that is locked has exactly one goroutine that will unlock it, so *)
(* Unlock never meets an unlocked mutex (a fatal error in Go) and no mutex  *)
(* stays locked for ever (keyed_mutex.go:38-43).                            *)
LockedHasOneOwner ==
  /\ \A p \in Proc : pc[p] = "holding" => entry[p] \in locked
  /\ \A e \in locked : \E p \in Proc : pc[p] = "holding" /\ entry[p] = e
  /\ \A p, q \in Proc :
       pc[p] = "holding" /\ pc[q] = "holding" /\ entry[p] = entry[q] => p = q

(* What the exclusivity of the unlock body rests on: the function has not   *)
(* run while its lock is held, and has run once the lock is given back.     *)
UnlockRunsOnce ==
  \A p \in Proc : p \in once <=> pc[p] \in {"leaving", "returned"}

-----------------------------------------------------------------------------
(* Refinement: goroutines that have released entry.mu no longer exclude     *)
(* anyone, so the abstract lock is given back at Release, not Deregister.   *)
At(phase) == {<<p, key[p]>> : p \in {q \in Proc : pc[q] = phase}}

KL == INSTANCE KeyLock WITH asking <- At("waiting"), inside <- At("holding")

(* keyedMutex is a lock per key, granted fairly (KeyLock).                  *)
ImplementsKeyLock == KL!FairSpec

(* A goroutine that has called Lock eventually gets the lock, whatever the  *)
(* other goroutines do with the same key and whenever its entry is deleted  *)
(* and created again.                                                       *)
LockGranted == \A p \in Proc : pc[p] = "waiting" ~> pc[p] = "holding"
=============================================================================
