-------------------------- MODULE KeyedMutexProofs --------------------------
(***************************************************************************)
(* KeyedMutex is correct for every finite set of goroutines and every set   *)
(* of keys and entries: the invariants of the module hold, and it           *)
(* implements the safety part of KeyLock.                                   *)
(***************************************************************************)
EXTENDS KeyedMutex, FiniteSetTheorems, TLAPS

(* A goroutine that counts as a user has an entry.                          *)
UsersHaveEntries == \A p \in Proc : pc[p] \in Counted => entry[p] \in Entry

(* The inductive invariant.  Exclusion rests on OneEntryPerKey, which rests *)
(* on the count being exact: only then does Deregister delete an entry that *)
(* nobody else is about to lock.                                            *)
IInv ==
  /\ TypeOK
  /\ UsersHaveEntries
  /\ OneEntryPerKey
  /\ NoLeakedEntry
  /\ LockedHasOneOwner
  /\ UnlockRunsOnce

(* The users of an entry are finitely many, so that they can be counted.    *)
LEMMA UsersFinite ==
  ASSUME NEW e PROVE IsFiniteSet(Users(e)) /\ Cardinality(Users(e)) \in Nat
  <1>1. Users(e) \in SUBSET Proc
    BY DEF Users
  <1>2. IsFiniteSet(Users(e))
    BY <1>1, ProcAssumption, FS_Subset
  <1> QED
    BY <1>2, FS_CardinalityType

(* The empty map satisfies the inductive invariant.                         *)
LEMMA InitIInv == Init => IInv
  <1> SUFFICES ASSUME Init PROVE IInv
    OBVIOUS
  <1> USE DEF Init
  <1>1. TypeOK /\ UsersHaveEntries /\ OneEntryPerKey /\ LockedHasOneOwner /\ UnlockRunsOnce
    BY DEF TypeOK, Phases, UsersHaveEntries, OneEntryPerKey, LockedHasOneOwner,
           UnlockRunsOnce, Counted
  <1>2. ASSUME NEW e \in Entry PROVE Cardinality(Users(e)) = 0
    <2>1. Users(e) = {}
      BY DEF Users, Counted
    <2> QED
      BY <2>1, FS_EmptySet
  <1> QED
    BY <1>1, <1>2 DEF IInv, NoLeakedEntry

(* Lock's section under km.mu keeps the invariant.                          *)
LEMMA RegisterIInv ==
  ASSUME IInv, NEW p \in Proc, NEW k \in Key, Register(p, k) PROVE IInv'
  <1> USE DEF IInv
  <1>1. PICK e \in Entry :
          /\ \/ locks[k] = e /\ refCount' = [refCount EXCEPT ![e] = @ + 1]
                /\ UNCHANGED <<locks, locked>>
             \/ locks[k] = NoEntry /\ Unreachable(e)
                /\ locks' = [locks EXCEPT ![k] = e]
                /\ refCount' = [refCount EXCEPT ![e] = 1]
                /\ locked' = locked \ {e}
          /\ entry' = [entry EXCEPT ![p] = e]
    BY DEF Register, TypeOK
  <1>2. /\ pc[p] \notin Counted
        /\ pc' = [pc EXCEPT ![p] = "waiting"]
        /\ key' = [key EXCEPT ![p] = k]
        /\ once' = once \ {p}
    BY DEF Register, Counted
  <1>3. TypeOK'
    BY <1>1, <1>2 DEF TypeOK, Phases
  <1>4. /\ locks'[k] = e
        /\ \A k2 \in Key : k2 # k => locks'[k2] = locks[k2] /\ locks[k2] # e
    BY <1>1, EntryAssumption DEF TypeOK, OneEntryPerKey, Unreachable
  <1>5. UsersHaveEntries'
    BY <1>1, <1>2 DEF UsersHaveEntries, TypeOK, Counted
  <1>6. OneEntryPerKey'
    <2>1. ASSUME NEW q \in Proc, pc'[q] \in Counted PROVE locks'[key'[q]] = entry'[q]
      <3>1. CASE q = p
        BY <3>1, <1>1, <1>2, <1>4 DEF TypeOK
      <3>2. CASE q # p
        <4>1. pc[q] \in Counted /\ key'[q] = key[q] /\ entry'[q] = entry[q]
          BY <3>2, <2>1, <1>1, <1>2 DEF TypeOK
        <4>2. locks[key[q]] = entry[q] /\ entry[q] \in Entry /\ key[q] \in Key
          BY <4>1 DEF OneEntryPerKey, UsersHaveEntries, TypeOK
        <4>3. CASE key[q] = k
          BY <4>1, <4>2, <4>3, <1>1, EntryAssumption
        <4>4. CASE key[q] # k
          BY <4>1, <4>2, <4>4, <1>4
        <4> QED
          BY <4>3, <4>4
      <3> QED
        BY <3>1, <3>2
    <2>2. ASSUME NEW k1 \in Key, NEW k2 \in Key,
                 locks'[k1] = locks'[k2], locks'[k1] # NoEntry
          PROVE  k1 = k2
      BY <2>2, <1>4 DEF OneEntryPerKey
    <2> QED
      BY <2>1, <2>2 DEF OneEntryPerKey, Counted
  <1>7. NoLeakedEntry'
    <2>1. Users(e)' = Users(e) \cup {p} /\ p \notin Users(e)
      BY <1>1, <1>2 DEF Users, Counted, TypeOK
    <2>2. Cardinality(Users(e)') = Cardinality(Users(e)) + 1
      BY <2>1, UsersFinite, FS_AddElement
    <2>3. refCount'[e] = Cardinality(Users(e)')
      <3>1. CASE locks[k] = e
        BY <3>1, <1>1, <2>2, EntryAssumption DEF NoLeakedEntry, TypeOK
      <3>2. CASE Unreachable(e)
        <4>1. Users(e) = {}
          BY <3>2 DEF Unreachable, Users
        <4>2. Cardinality(Users(e)) = 0
          BY <4>1, FS_EmptySet
        <4>3. locks[k] # e
          BY <3>2 DEF Unreachable
        <4> QED
          BY <4>2, <4>3, <1>1, <2>2 DEF TypeOK
      <3> QED
        BY <3>1, <3>2, <1>1
    <2>4. ASSUME NEW f \in Entry, f # e PROVE refCount'[f] = Cardinality(Users(f)')
      <3>1. Users(f)' = Users(f)
        BY <2>4, <1>1, <1>2 DEF Users, Counted, TypeOK
      <3> QED
        BY <3>1, <2>4, <1>1 DEF NoLeakedEntry, TypeOK
    <2>5. ASSUME NEW k2 \in Key, locks'[k2] # NoEntry PROVE refCount'[locks'[k2]] > 0
      <3>1. CASE k2 = k
        BY <3>1, <1>4, <2>2, <2>3, UsersFinite
      <3>2. CASE k2 # k
        BY <3>2, <2>5, <1>1, <1>4 DEF NoLeakedEntry, TypeOK
      <3> QED
        BY <3>1, <3>2
    <2> QED
      BY <2>3, <2>4, <2>5 DEF NoLeakedEntry
  <1>8. LockedHasOneOwner'
    <2>1. ASSUME NEW q \in Proc, pc'[q] = "holding"
          PROVE  q # p /\ pc[q] = "holding" /\ entry'[q] = entry[q] /\ entry[q] \in locked'
      <3>1. q # p /\ pc[q] = "holding" /\ entry'[q] = entry[q]
        BY <2>1, <1>1, <1>2 DEF TypeOK
      <3>2. entry[q] \in locked
        BY <3>1 DEF LockedHasOneOwner
      <3> QED
        BY <3>1, <3>2, <1>1 DEF Unreachable
    <2>2. ASSUME NEW f \in locked' PROVE \E q \in Proc : pc'[q] = "holding" /\ entry'[q] = f
      <3>1. PICK q \in Proc : pc[q] = "holding" /\ entry[q] = f
        BY <1>1 DEF LockedHasOneOwner
      <3>2. q # p
        BY <3>1, <1>2 DEF Counted
      <3> QED
        BY <3>1, <3>2, <1>1, <1>2 DEF TypeOK
    <2> QED
      BY <2>1, <2>2 DEF LockedHasOneOwner
  <1>9. UnlockRunsOnce'
    BY <1>2 DEF UnlockRunsOnce, TypeOK
  <1> QED
    BY <1>3, <1>5, <1>6, <1>7, <1>8, <1>9

(* Taking entry.mu, which nobody owns, makes the goroutine its one owner.   *)
LEMMA AcquireIInv ==
  ASSUME IInv, NEW p \in Proc, Acquire(p) PROVE IInv'
  <1> USE DEF IInv
  <1>1. /\ pc[p] = "waiting" /\ entry[p] \in Entry /\ entry[p] \notin locked
        /\ locked' = locked \cup {entry[p]}
        /\ pc' = [pc EXCEPT ![p] = "holding"]
        /\ UNCHANGED <<locks, refCount, key, entry, once>>
    BY DEF Acquire, UsersHaveEntries, Counted
  <1>2. TypeOK' /\ UsersHaveEntries' /\ UnlockRunsOnce'
    <2>1. p \notin once
      BY <1>1 DEF UnlockRunsOnce
    <2> QED
      BY <1>1, <2>1 DEF TypeOK, Phases, UsersHaveEntries, UnlockRunsOnce, Counted
  <1>3. \A q \in Proc : pc'[q] \in Counted <=> pc[q] \in Counted
    BY <1>1 DEF TypeOK, Counted
  <1>4. OneEntryPerKey'
    BY <1>1, <1>3 DEF OneEntryPerKey, Counted
  <1>5. NoLeakedEntry'
    <2>1. ASSUME NEW e PROVE Users(e)' = Users(e)
      BY <1>1, <1>3 DEF Users, Counted
    <2> QED
      BY <1>1, <2>1 DEF NoLeakedEntry
  <1>6. LockedHasOneOwner'
    <2>1. \A q \in Proc : q # p => pc'[q] = pc[q]
      BY <1>1 DEF TypeOK
    <2>2. pc'[p] = "holding"
      BY <1>1 DEF TypeOK
    <2> QED
      BY <1>1, <2>1, <2>2 DEF LockedHasOneOwner
  <1> QED
    BY <1>2, <1>4, <1>5, <1>6

(* The body of once.Do runs only for a goroutine that holds its lock; its   *)
(* first half leaves entry.mu without an owner, and the count as it is.     *)
LEMMA ReleaseIInv ==
  ASSUME IInv, NEW p \in Proc, Release(p) PROVE IInv'
  <1> USE DEF IInv
  <1>1. /\ pc[p] = "holding" /\ entry[p] \in Entry
        /\ once' = once \cup {p}
        /\ locked' = locked \ {entry[p]}
        /\ pc' = [pc EXCEPT ![p] = "leaving"]
        /\ UNCHANGED <<locks, refCount, key, entry>>
    BY DEF Release, UnlockRunsOnce, UsersHaveEntries, Counted
  <1>2. TypeOK' /\ UsersHaveEntries' /\ UnlockRunsOnce'
    BY <1>1 DEF TypeOK, Phases, UsersHaveEntries, UnlockRunsOnce, Counted
  <1>3. \A q \in Proc : pc'[q] \in Counted <=> pc[q] \in Counted
    BY <1>1 DEF TypeOK, Counted
  <1>4. OneEntryPerKey'
    BY <1>1, <1>3 DEF OneEntryPerKey, Counted
  <1>5. NoLeakedEntry'
    <2>1. ASSUME NEW e PROVE Users(e)' = Users(e)
      BY <1>1, <1>3 DEF Users, Counted
    <2> QED
      BY <1>1, <2>1 DEF NoLeakedEntry
  <1>6. LockedHasOneOwner'
    <2>1. \A q \in Proc : pc'[q] = "holding" <=> q # p /\ pc[q] = "holding"
      BY <1>1 DEF TypeOK
    <2> QED
      BY <1>1, <2>1 DEF LockedHasOneOwner
  <1> QED
    BY <1>2, <1>4, <1>5, <1>6

(* Uncounting deletes the map entry exactly when the last user leaves.      *)
LEMMA DeregisterIInv ==
  ASSUME IInv, NEW p \in Proc, Deregister(p) PROVE IInv'
  <1> USE DEF IInv
  <1>1. PICK e \in Entry, n \in Int :
        /\ e = entry[p] /\ n = refCount[e] - 1
        /\ pc[p] = "leaving" /\ key[p] \in Key /\ locks[key[p]] = e
        /\ refCount' = [refCount EXCEPT ![e] = n]
        /\ pc' = [pc EXCEPT ![p] = "returned"]
        /\ UNCHANGED <<locked, key, entry, once>>
    <2>1. /\ pc[p] = "leaving" /\ key[p] \in Key
          /\ entry[p] \in Entry /\ locks[key[p]] = entry[p]
      BY DEF Deregister, UsersHaveEntries, OneEntryPerKey, Counted, TypeOK
    <2>2. refCount[entry[p]] - 1 \in Int
      BY <2>1 DEF TypeOK
    <2> QED
      BY <2>1, <2>2 DEF Deregister
  <1>2. refCount'[e] = n /\ refCount'[entry[p]] = n
    BY <1>1 DEF TypeOK
  <1>3. Users(e)' = Users(e) \ {p} /\ p \in Users(e)
    BY <1>1 DEF Users, Counted, TypeOK
  <1>4. n = Cardinality(Users(e)') /\ n \in Nat
    <2>1. Cardinality(Users(e)') = Cardinality(Users(e)) - 1
      BY <1>3, UsersFinite, FS_RemoveElement
    <2>2. Cardinality(Users(e)) # 0
      BY <1>3, UsersFinite, FS_EmptySet
    <2> QED
      BY <1>1, <2>1, <2>2, UsersFinite DEF NoLeakedEntry
  <1>5. /\ n = 0 => locks' = [locks EXCEPT ![key[p]] = NoEntry] /\ Users(e)' = {}
        /\ n # 0 => locks' = locks
    <2>1. locks' = IF n <= 0 THEN [locks EXCEPT ![key[p]] = NoEntry] ELSE locks
      BY <1>2 DEF Deregister
    <2>2. IsFiniteSet(Users(e)')
      BY <1>3, UsersFinite, FS_RemoveElement
    <2> QED
      BY <1>4, <2>1, <2>2, FS_EmptySet
  <1>6. \A q \in Proc : pc'[q] \in Counted => q # p /\ pc[q] \in Counted
    BY <1>1 DEF TypeOK, Counted
  <1>7. TypeOK' /\ UsersHaveEntries' /\ UnlockRunsOnce'
    <2>1. locks' \in [Key -> Entry \cup {NoEntry}]
      BY <1>1, <1>5 DEF TypeOK
    <2>2. refCount' \in [Entry -> Nat]
      BY <1>1, <1>4 DEF TypeOK
    <2>3. p \in once
      BY <1>1 DEF UnlockRunsOnce
    <2> QED
      BY <1>1, <1>6, <2>1, <2>2, <2>3 DEF TypeOK, Phases, UsersHaveEntries, UnlockRunsOnce, Counted
  <1>8. OneEntryPerKey'
    <2>1. ASSUME NEW q \in Proc, pc'[q] \in Counted PROVE locks'[key'[q]] = entry'[q]
      <3>1. locks[key[q]] = entry[q] /\ key[q] \in Key
        BY <2>1, <1>6 DEF OneEntryPerKey, TypeOK
      <3>2. CASE n # 0
        BY <3>1, <3>2, <1>1, <1>5
      <3>3. CASE n = 0
        <4>1. q \notin Users(e)'
          BY <3>3, <1>5
        <4>2. entry[q] # e
          BY <4>1, <2>1, <1>1 DEF Users, Counted
        <4>3. key[q] # key[p]
          BY <4>2, <3>1, <1>1
        <4> QED
          BY <4>3, <3>1, <3>3, <1>1, <1>5 DEF TypeOK
      <3> QED
        BY <3>2, <3>3
    <2>2. ASSUME NEW k1 \in Key, NEW k2 \in Key,
                 locks'[k1] = locks'[k2], locks'[k1] # NoEntry
          PROVE  k1 = k2
      BY <2>2, <1>1, <1>5 DEF OneEntryPerKey, TypeOK
    <2> QED
      BY <2>1, <2>2 DEF OneEntryPerKey, Counted
  <1>9. NoLeakedEntry'
    <2>1. ASSUME NEW f \in Entry PROVE refCount'[f] = Cardinality(Users(f)')
      <3>1. CASE f = e
        BY <3>1, <1>2, <1>4
      <3>2. CASE f # e
        <4>1. Users(f)' = Users(f)
          BY <3>2, <1>1 DEF Users, Counted, TypeOK
        <4> QED
          BY <4>1, <3>2, <1>1 DEF NoLeakedEntry, TypeOK
      <3> QED
        BY <3>1, <3>2
    <2>2. ASSUME NEW k \in Key, locks'[k] # NoEntry PROVE refCount'[locks'[k]] > 0
      <3>1. locks'[k] = locks[k] /\ locks[k] \in Entry /\ (locks[k] = e => n # 0)
        BY <2>2, <1>1, <1>5 DEF TypeOK, OneEntryPerKey
      <3>2. CASE locks[k] = e
        BY <3>1, <3>2, <1>2, <1>4
      <3>3. CASE locks[k] # e
        BY <3>1, <3>3, <1>1, EntryAssumption DEF NoLeakedEntry, TypeOK
      <3> QED
        BY <3>2, <3>3
    <2> QED
      BY <2>1, <2>2 DEF NoLeakedEntry
  <1>10. LockedHasOneOwner'
    <2>1. \A q \in Proc : pc'[q] = "holding" <=> pc[q] = "holding"
      BY <1>1 DEF TypeOK
    <2> QED
      BY <1>1, <2>1 DEF LockedHasOneOwner
  <1> QED
    BY <1>7, <1>8, <1>9, <1>10

(* Dropping the closure of an unlocked lock touches no live entry.          *)
LEMMA ForgetIInv ==
  ASSUME IInv, NEW p \in Proc, Forget(p) PROVE IInv'
  <1> USE DEF IInv
  <1>1. /\ pc[p] = "returned"
        /\ pc' = [pc EXCEPT ![p] = "idle"]
        /\ entry' = [entry EXCEPT ![p] = NoEntry]
        /\ once' = once \ {p}
        /\ UNCHANGED <<locks, refCount, locked, key>>
    BY DEF Forget
  <1>2. \A q \in Proc : pc'[q] \in Counted <=> pc[q] \in Counted /\ q # p
    BY <1>1 DEF TypeOK, Counted
  <1>3. \A q \in Proc : q # p => pc'[q] = pc[q] /\ entry'[q] = entry[q]
    BY <1>1 DEF TypeOK
  <1>4. TypeOK' /\ UsersHaveEntries' /\ OneEntryPerKey' /\ UnlockRunsOnce'
    BY <1>1, <1>2, <1>3
       DEF TypeOK, Phases, UsersHaveEntries, OneEntryPerKey, UnlockRunsOnce, Counted
  <1>5. NoLeakedEntry'
    <2>1. ASSUME NEW e \in Entry PROVE Users(e)' = Users(e)
      BY <1>1, <1>2, <1>3 DEF Users, Counted
    <2> QED
      BY <1>1, <2>1 DEF NoLeakedEntry
  <1>6. LockedHasOneOwner'
    <2>1. \A q \in Proc : pc'[q] = "holding" <=> pc[q] = "holding" /\ q # p
      BY <1>1 DEF TypeOK
    <2>2. pc[p] # "holding"
      BY <1>1
    <2> QED
      BY <1>1, <1>3, <2>1, <2>2 DEF LockedHasOneOwner
  <1> QED
    BY <1>4, <1>5, <1>6

(* Nothing but the variables matters.                                       *)
LEMMA StutterIInv == IInv /\ UNCHANGED vars => IInv'
  BY DEF vars, IInv, TypeOK, UsersHaveEntries, OneEntryPerKey, NoLeakedEntry,
         LockedHasOneOwner, UnlockRunsOnce, Users

(* Every step of every goroutine keeps the inductive invariant.             *)
LEMMA NextIInv == IInv /\ [Next]_vars => IInv'
  <1> SUFFICES ASSUME IInv, [Next]_vars PROVE IInv'
    OBVIOUS
  <1>1. ASSUME NEW p \in Proc, NEW k \in Key, Register(p, k) PROVE IInv'
    BY <1>1, RegisterIInv
  <1>2. ASSUME NEW p \in Proc, Acquire(p) PROVE IInv'
    BY <1>2, AcquireIInv
  <1>3. ASSUME NEW p \in Proc, Release(p) PROVE IInv'
    BY <1>3, ReleaseIInv
  <1>4. ASSUME NEW p \in Proc, Deregister(p) PROVE IInv'
    BY <1>4, DeregisterIInv
  <1>5. ASSUME NEW p \in Proc, Forget(p) PROVE IInv'
    BY <1>5, ForgetIInv
  <1>6. CASE UNCHANGED vars
    BY <1>6, StutterIInv
  <1> QED
    BY <1>1, <1>2, <1>3, <1>4, <1>5, <1>6 DEF Next

(* The inductive invariant holds in every reachable state of the map.       *)
THEOREM Invariance == Spec => []IInv
  BY InitIInv, NextIInv, PTL DEF Spec

-----------------------------------------------------------------------------
(* keyed_mutex.go keeps its data well typed; in particular a reference      *)
(* count is never negative, whatever the order of unlocks.                  *)
THEOREM TypeCorrect == Spec => []TypeOK
  <1>1. IInv => TypeOK
    BY DEF IInv
  <1> QED
    BY <1>1, Invariance, PTL

(* Two goroutines with one key would share its entry, and an entry has one  *)
(* owner.                                                                   *)
LEMMA IInvExcludes == IInv => MutualExclusion
  <1> SUFFICES ASSUME IInv, NEW p \in Proc, NEW q \in Proc,
                      pc[p] = "holding", pc[q] = "holding", key[p] = key[q]
               PROVE  p = q
    BY DEF MutualExclusion
  <1>1. entry[p] = entry[q]
    BY DEF IInv, OneEntryPerKey, Counted
  <1> QED
    BY <1>1 DEF IInv, LockedHasOneOwner

(* keyedMutex provides mutual exclusion per key (keyed_mutex.go:5), for any *)
(* number of goroutines and keys, although entries come and go.             *)
THEOREM Exclusion == Spec => []MutualExclusion
  BY Invariance, IInvExcludes, PTL

(* The map holds an entry exactly as long as somebody uses it, with an      *)
(* exact count: no leak and no early deletion (keyed_mutex.go:6).           *)
THEOREM NoLeak == Spec => [](OneEntryPerKey /\ NoLeakedEntry)
  <1>1. IInv => OneEntryPerKey /\ NoLeakedEntry
    BY DEF IInv
  <1> QED
    BY <1>1, Invariance, PTL

(* The unlock function never unlocks a mutex that is not locked by its own  *)
(* Lock, and no entry stays locked without an owner.                        *)
THEOREM UnlockIsSound == Spec => [](LockedHasOneOwner /\ UnlockRunsOnce)
  <1>1. IInv => LockedHasOneOwner /\ UnlockRunsOnce
    BY DEF IInv
  <1> QED
    BY <1>1, Invariance, PTL


-----------------------------------------------------------------------------
(* Who is where in the abstract lock, without the set of pairs.             *)
LEMMA AtMembers ==
  ASSUME NEW p \in Proc, NEW k \in Key, NEW phase
  PROVE  <<p, k>> \in At(phase) <=> pc[p] = phase /\ key[p] = k
  BY DEF At

(* Each step of the map is a step of the abstract lock, or invisible to it. *)
LEMMA NextRefines ==
  IInv /\ [Next]_vars => [KL!Next]_(KL!vars)
  <1> SUFFICES ASSUME IInv, [Next]_vars PROVE [KL!Next]_(KL!vars)
    OBVIOUS
  <1> USE DEF IInv
  <1>1. ASSUME NEW p \in Proc, NEW k \in Key, Register(p, k) PROVE KL!Ask(p, k)
    <2>1. /\ pc[p] \in {"idle", "returned"}
          /\ pc' = [pc EXCEPT ![p] = "waiting"] /\ key' = [key EXCEPT ![p] = k]
      BY <1>1 DEF Register
    <2>2. \A k2 \in Key : <<p, k2>> \notin At("waiting") \cup At("holding")
      BY <2>1, AtMembers
    <2>3. At("waiting")' = At("waiting") \cup {<<p, k>>}
      BY <2>1 DEF At, TypeOK
    <2>4. At("holding")' = At("holding")
      BY <2>1 DEF At, TypeOK
    <2> QED
      BY <2>2, <2>3, <2>4 DEF KL!Ask
  <1>2. ASSUME NEW p \in Proc, Acquire(p) PROVE KL!Grant(p, key[p])
    <2>1. pc[p] = "waiting" /\ pc' = [pc EXCEPT ![p] = "holding"] /\ UNCHANGED key
      BY <1>2 DEF Acquire
    <2>2. key[p] \in Key
      BY DEF TypeOK
    <2>3. ASSUME NEW q \in Proc, <<q, key[p]>> \in At("holding") PROVE FALSE
      <3>1. pc[q] = "holding" /\ key[q] = key[p]
        BY <2>2, <2>3, AtMembers
      <3>2. entry[q] = entry[p]
        BY <3>1, <2>1 DEF OneEntryPerKey, Counted
      <3> QED
        BY <3>1, <3>2, <1>2 DEF LockedHasOneOwner, Acquire
    <2>4. At("waiting")' = At("waiting") \ {<<p, key[p]>>}
      BY <2>1 DEF At, TypeOK
    <2>5. At("holding")' = At("holding") \cup {<<p, key[p]>>}
      BY <2>1 DEF At, TypeOK
    <2>6. <<p, key[p]>> \in At("waiting")
      BY <2>1, <2>2, AtMembers
    <2> QED
      BY <2>3, <2>4, <2>5, <2>6 DEF KL!Grant
  <1>3. ASSUME NEW p \in Proc, Release(p) PROVE KL!GiveBack(p, key[p])
    <2>1. pc[p] = "holding" /\ pc' = [pc EXCEPT ![p] = "leaving"] /\ UNCHANGED key
      BY <1>3 DEF Release, UnlockRunsOnce
    <2>2. At("waiting")' = At("waiting")
      BY <2>1 DEF At, TypeOK
    <2>3. At("holding")' = At("holding") \ {<<p, key[p]>>}
      BY <2>1 DEF At, TypeOK
    <2>4. <<p, key[p]>> \in At("holding")
      BY <2>1 DEF At
    <2> QED
      BY <2>2, <2>3, <2>4 DEF KL!GiveBack
  <1>4. ASSUME NEW p \in Proc, Deregister(p) \/ Forget(p) PROVE UNCHANGED KL!vars
    <2>1. PICK s \in {"returned", "idle"} : pc' = [pc EXCEPT ![p] = s]
      BY <1>4 DEF Deregister, Forget
    <2>2. pc[p] \notin {"waiting", "holding"} /\ UNCHANGED key
      BY <1>4 DEF Deregister, Forget
    <2>3. At("waiting")' = At("waiting") /\ At("holding")' = At("holding")
      BY <2>1, <2>2 DEF At, TypeOK
    <2> QED
      BY <2>3 DEF KL!vars
  <1>5. CASE UNCHANGED vars
    BY <1>5 DEF vars, KL!vars, At
  <1>6. \A p \in Proc : key[p] \in Key
    BY DEF TypeOK
  <1> QED
    BY <1>1, <1>2, <1>3, <1>4, <1>5, <1>6 DEF Next, KL!Next

(* keyedMutex implements the abstract lock per key, for any number of       *)
(* goroutines and keys (its fairness is left to TLC).                       *)
THEOREM Refinement == Spec => KL!Spec
  <1>1. Init => KL!Init
    BY DEF Init, KL!Init, At
  <1> QED
    BY <1>1, NextRefines, Invariance, PTL DEF Spec, KL!Spec

=============================================================================
