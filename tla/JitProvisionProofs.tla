------------------------- MODULE JitProvisionProofs -------------------------
(***************************************************************************)
(* JitProvision for every set of connections and branches and every pair of *)
(* timeouts: the keyed lock is used as KeyLock allows, the driver is never  *)
(* asked about a cached branch or told to create over its own database, and *)
(* what a connection is let through to has existed.                         *)
(***************************************************************************)
EXTENDS JitProvision, TLAPS

(* The lock of a branch has at most one holder.                             *)
OneHolder ==
  \A c, d \in Conn :
    pc[c] \in InSection /\ pc[d] \in InSection /\ branch[c] = branch[d] => c = d

(* The inductive invariant, whatever other processes do.                    *)
IInv ==
  /\ TypeOK
  /\ OneHolder
  /\ NoQueryForCachedBranch

(* What the cache and the handlers know of databases stays true, except for *)
(* databases that other processes drop.                                     *)
CacheIsTrue ==
  /\ db[DefaultBranch] # "absent"
  /\ \A b \in provisioned : db[b] # "absent"
  /\ \A c \in Conn : pc[c] \in {"created", "mark", "served"} => db[branch[c]] # "absent"

(* The names of the phases, expanded once.                                  *)
LEMMA Phases ==
  /\ InDriver = {"exists", "creating", "created"}
  /\ InSection = {"exists", "creating", "created", "locked", "mark"}
  /\ Active = {"exists", "creating", "created", "locked", "mark", "start", "waiting"}
  /\ Ended = {"served", "refused"}
  BY DEF InDriver, InSection, Active, Ended

(* Nobody is connected at first.                                            *)
LEMMA InitIInv == Init => IInv
  <1> SUFFICES ASSUME Init PROVE IInv
    OBVIOUS
  <1>1. TypeOK
    BY BranchAssumption, BudgetAssumption DEF Init, TypeOK
  <1>2. OneHolder /\ NoQueryForCachedBranch
    BY Phases DEF Init, OneHolder, NoQueryForCachedBranch
  <1> QED
    BY <1>1, <1>2 DEF IInv

(* A handler step that leaves the connections' branches and the cache alone *)
(* and does not enter the critical section keeps the lock exclusive.        *)
LEMMA MoveKeeps ==
  ASSUME IInv, NEW c \in Conn, NEW to,
         pc' = [pc EXCEPT ![c] = to], UNCHANGED <<branch, provisioned>>,
         to \in InSection => pc[c] \in InSection,
         to \in InDriver \cup {"mark"} => branch[c] \notin provisioned
  PROVE  OneHolder' /\ NoQueryForCachedBranch'
  <1>1. \A d \in Conn : pc'[d] = IF d = c THEN to ELSE pc[d]
    BY DEF IInv, TypeOK
  <1>2. OneHolder'
    BY <1>1, Phases DEF IInv, OneHolder
  <1>3. NoQueryForCachedBranch'
    BY <1>1, Phases DEF IInv, NoQueryForCachedBranch
  <1> QED
    BY <1>2, <1>3

(* Every action keeps the types.                                            *)
LEMMA NextTypeOK == TypeOK /\ [Next]_vars => TypeOK'
  <1> SUFFICES ASSUME TypeOK, [Next]_vars PROVE TypeOK'
    OBVIOUS
  <1> USE DEF TypeOK, Goto
  <1> USE Phases
  <1>1. ASSUME NEW c \in Conn, NEW b \in Branch, Route(c, b) PROVE TypeOK'
    <2>1. connLeft' \in [Conn -> 0..ConnBudget]
      BY <1>1, BudgetAssumption DEF Route
    <2> QED
      BY <1>1, <2>1 DEF Route
  <1>2. ASSUME NEW c \in Conn, Disconnect(c) PROVE TypeOK'
    BY <1>2, BranchAssumption, BudgetAssumption DEF Disconnect
  <1>3. ASSUME NEW c \in Conn, FastPath(c) PROVE TypeOK'
    BY <1>3 DEF FastPath
  <1>4. ASSUME NEW c \in Conn, TakeLock(c) PROVE TypeOK'
    BY <1>4 DEF TakeLock
  <1>5. ASSUME NEW c \in Conn, DoubleCheck(c) PROVE TypeOK'
    <2>1. CASE branch[c] \in provisioned
      BY <1>5, <2>1 DEF DoubleCheck
    <2>2. CASE branch[c] \notin provisioned
      <3> DEFINE left == IF connLeft[c] < ProvBudget THEN connLeft[c] ELSE ProvBudget
      <3>1. left \in 0..ProvBudget
        BY BudgetAssumption
      <3>2. provLeft' = [provLeft EXCEPT ![c] = left]
        BY <1>5, <2>2 DEF DoubleCheck
      <3>3. provLeft' \in [Conn -> 0..ProvBudget]
        BY <3>1, <3>2
      <3> QED
        BY <3>3, <1>5, <2>2 DEF DoubleCheck
    <2> QED
      BY <2>1, <2>2
  <1>6. ASSUME NEW c \in Conn, ExistsAnswers(c) PROVE TypeOK'
    BY <1>6 DEF ExistsAnswers
  <1>7. ASSUME NEW c \in Conn, ServerCreates(c) PROVE TypeOK'
    BY <1>7 DEF ServerCreates, Create
  <1>8. ASSUME NEW c \in Conn, CreateAnswers(c) PROVE TypeOK'
    BY <1>8 DEF CreateAnswers
  <1>9. ASSUME NEW c \in Conn, DriverFails(c) PROVE TypeOK'
    BY <1>9 DEF DriverFails
  <1>10. ASSUME NEW c \in Conn, MarkProvisioned(c) PROVE TypeOK'
    BY <1>10 DEF MarkProvisioned
  <1>11. ASSUME NEW b \in Branch, LateCreate(b) \/ CliCreate(b) \/ CliDrop(b) PROVE TypeOK'
    BY <1>11 DEF LateCreate, CliCreate, CliDrop, Create
  <1>12. CASE Tick
    <2>1. connLeft' \in [Conn -> 0..ConnBudget]
      BY <1>12, BudgetAssumption DEF Tick
    <2>2. provLeft' \in [Conn -> 0..ProvBudget]
      BY <1>12, BudgetAssumption DEF Tick
    <2> QED
      BY <1>12, <2>1, <2>2 DEF Tick
  <1>13. CASE UNCHANGED vars
    BY <1>13 DEF vars
  <1> QED
    BY <1>1, <1>2, <1>3, <1>4, <1>5, <1>6, <1>7, <1>8, <1>9, <1>10, <1>11, <1>12, <1>13
       DEF Next, Handler

(* The lock stays exclusive, and only an uncached branch gets to the driver.*)
LEMMA NextIInv == IInv /\ [Next]_vars => IInv'
  <1> SUFFICES ASSUME IInv, [Next]_vars PROVE OneHolder' /\ NoQueryForCachedBranch'
    BY NextTypeOK DEF IInv
  <1>a. TypeOK
    BY DEF IInv
  <1>1. ASSUME NEW c \in Conn, NEW b \in Branch, Route(c, b)
        PROVE  OneHolder' /\ NoQueryForCachedBranch'
    <2>1. \A d \in Conn : /\ d # c => pc'[d] = pc[d] /\ branch'[d] = branch[d]
                          /\ pc'[c] \in {"served", "start"}
      BY <1>1, <1>a DEF Route, Goto, TypeOK
    <2> QED
      BY <2>1, <1>1, Phases DEF IInv, OneHolder, NoQueryForCachedBranch, Route
  <1>2. ASSUME NEW c \in Conn, Disconnect(c)
        PROVE  OneHolder' /\ NoQueryForCachedBranch'
    <2>1. \A d \in Conn : /\ d # c => pc'[d] = pc[d] /\ branch'[d] = branch[d]
                          /\ pc'[c] = "new"
      BY <1>2, <1>a DEF Disconnect, Goto, TypeOK
    <2> QED
      BY <2>1, <1>2, Phases DEF IInv, OneHolder, NoQueryForCachedBranch, Disconnect
  <1>3. ASSUME NEW c \in Conn, FastPath(c) PROVE OneHolder' /\ NoQueryForCachedBranch'
    BY <1>3, MoveKeeps, Phases DEF FastPath, Goto
  <1>4. ASSUME NEW c \in Conn, TakeLock(c) PROVE OneHolder' /\ NoQueryForCachedBranch'
    <2>1. \A d \in Conn : pc'[d] = IF d = c THEN "locked" ELSE pc[d]
      BY <1>4, <1>a DEF TakeLock, Goto, TypeOK
    <2>2. OneHolder'
      BY <2>1, <1>4, Phases DEF TakeLock, OneHolder, IInv
    <2>3. NoQueryForCachedBranch'
      BY <2>1, <1>4, Phases DEF TakeLock, NoQueryForCachedBranch, IInv
    <2> QED
      BY <2>2, <2>3
  <1>5. ASSUME NEW c \in Conn, DoubleCheck(c) PROVE OneHolder' /\ NoQueryForCachedBranch'
    BY <1>5, MoveKeeps, Phases DEF DoubleCheck, Goto
  <1>6. ASSUME NEW c \in Conn, ExistsAnswers(c) \/ ServerCreates(c) \/ CreateAnswers(c) \/ DriverFails(c)
        PROVE  OneHolder' /\ NoQueryForCachedBranch'
    <2>1. pc[c] \in InDriver /\ branch[c] \notin provisioned
      BY <1>6, Phases DEF ExistsAnswers, ServerCreates, CreateAnswers, DriverFails,
                          IInv, NoQueryForCachedBranch
    <2> QED
      BY <2>1, <1>6, MoveKeeps, Phases
         DEF ExistsAnswers, ServerCreates, CreateAnswers, DriverFails, Goto
  <1>7. ASSUME NEW c \in Conn, MarkProvisioned(c) PROVE OneHolder' /\ NoQueryForCachedBranch'
    <2>1. \A d \in Conn : pc'[d] = IF d = c THEN "served" ELSE pc[d]
      BY <1>7, <1>a DEF MarkProvisioned, Goto, TypeOK
    <2>2. OneHolder'
      BY <2>1, <1>7, Phases DEF MarkProvisioned, OneHolder, IInv
    <2>3. ASSUME NEW d \in Conn, pc'[d] \in InDriver \cup {"mark"}
          PROVE  branch'[d] \notin provisioned'
      <3>1. d # c /\ pc[d] = pc'[d]
        BY <2>1, <2>3, Phases
      <3>2. branch[d] # branch[c]
        BY <3>1, <2>3, <1>7, Phases DEF MarkProvisioned, OneHolder, IInv
      <3> QED
        BY <3>1, <3>2, <2>3, <1>7 DEF MarkProvisioned, NoQueryForCachedBranch, IInv
    <2> QED
      BY <2>2, <2>3 DEF NoQueryForCachedBranch, InDriver
  <1>8. ASSUME NEW b \in Branch, LateCreate(b) \/ CliCreate(b) \/ CliDrop(b)
        PROVE  OneHolder' /\ NoQueryForCachedBranch'
    BY <1>8 DEF LateCreate, CliCreate, CliDrop, IInv, OneHolder, NoQueryForCachedBranch
  <1>9. CASE Tick \/ UNCHANGED vars
    BY <1>9 DEF Tick, vars, IInv, OneHolder, NoQueryForCachedBranch
  <1> QED
    BY <1>1, <1>2, <1>3, <1>4, <1>5, <1>6, <1>7, <1>8, <1>9 DEF Next, Handler

(* The inductive invariant holds in every reachable state.                  *)
THEOREM Invariance == Spec => []IInv
  BY InitIInv, NextIInv, PTL DEF Spec

(* The cache, the catalogue and the budgets are well typed; a deadline      *)
(* never runs below zero.                                                   *)
THEOREM TypeCorrect == Spec => []TypeOK
  <1>1. IInv => TypeOK
    BY DEF IInv
  <1> QED
    BY <1>1, Invariance, PTL

(* The double check under the keyed lock works for any number of            *)
(* connections: once a branch is cached, nobody asks the driver about it.   *)
THEOREM DoubleCheckWorks == Spec => []NoQueryForCachedBranch
  <1>1. IInv => NoQueryForCachedBranch
    BY DEF IInv
  <1> QED
    BY <1>1, Invariance, PTL

-----------------------------------------------------------------------------
(* No database returns to "absent", and CREATE makes it exist.              *)
LEMMA CreateMakes ==
  ASSUME TypeOK, NEW b \in Branch, NEW origin \in {"own", "foreign"}, Create(b, origin)
  PROVE  /\ db'[b] # "absent"
         /\ \A d \in Branch : db[d] # "absent" => db'[d] # "absent"
         /\ \A d \in Branch : d # b => db'[d] = db[d]
         /\ db'[b] = "own" => db[b] = "own" \/ origin = "own"
  BY DEF TypeOK, Create, databases

(* Every step keeps the cache true: a branch gets into it only after its    *)
(* database was seen or created.                                            *)
LEMMA NextCacheIsTrue ==
  ASSUME TypeOK, CacheIsTrue, [Next]_vars PROVE CacheIsTrue'
  <1> USE DEF Goto, TypeOK, CacheIsTrue
  <1> USE BranchAssumption
  <1>1. ASSUME NEW c \in Conn, NEW b \in Branch, Route(c, b) PROVE CacheIsTrue'
    <2>1. \A d \in Conn : d # c => pc'[d] = pc[d] /\ branch'[d] = branch[d]
      BY <1>1 DEF Route
    <2>2. branch'[c] = b /\ pc'[c] = IF b = DefaultBranch THEN "served" ELSE "start"
      BY <1>1 DEF Route
    <2> QED
      BY <1>1, <2>1, <2>2 DEF Route
  <1>2. ASSUME NEW c \in Conn, Disconnect(c) PROVE CacheIsTrue'
    BY <1>2 DEF Disconnect
  <1>3. ASSUME NEW c \in Conn, FastPath(c) \/ TakeLock(c) \/ DoubleCheck(c) PROVE CacheIsTrue'
    BY <1>3 DEF FastPath, TakeLock, DoubleCheck
  <1>4. ASSUME NEW c \in Conn, ExistsAnswers(c) PROVE CacheIsTrue'
    BY <1>4 DEF ExistsAnswers, databases
  <1>5. ASSUME NEW c \in Conn, ServerCreates(c) PROVE CacheIsTrue'
    <2>1. /\ db'[branch[c]] # "absent"
          /\ \A d \in Branch : db[d] # "absent" => db'[d] # "absent"
      BY <1>5, CreateMakes DEF ServerCreates
    <2> QED
      BY <1>5, <2>1 DEF ServerCreates
  <1>6. ASSUME NEW c \in Conn, CreateAnswers(c) \/ DriverFails(c) PROVE CacheIsTrue'
    BY <1>6 DEF CreateAnswers, DriverFails
  <1>7. ASSUME NEW c \in Conn, MarkProvisioned(c) PROVE CacheIsTrue'
    BY <1>7 DEF MarkProvisioned
  <1>8. ASSUME NEW b \in Branch, LateCreate(b) \/ CliCreate(b) PROVE CacheIsTrue'
    <2>1. \A d \in Branch : db[d] # "absent" => db'[d] # "absent"
      BY <1>8, CreateMakes DEF LateCreate, CliCreate
    <2> QED
      BY <1>8, <2>1 DEF LateCreate, CliCreate
  <1>9. ASSUME NEW b \in Branch, CliDrop(b) PROVE CacheIsTrue'
    BY <1>9 DEF CliDrop
  <1>10. CASE Tick \/ UNCHANGED vars
    BY <1>10 DEF Tick, vars
  <1> QED
    BY <1>1, <1>2, <1>3, <1>4, <1>5, <1>6, <1>7, <1>8, <1>9, <1>10 DEF Next, Handler

(* A connection that the proxy lets through has its database, unless some   *)
(* process dropped it, for any number of connections, creators, failures    *)
(* and late answers.                                                        *)
THEOREM ServedIsProvisioned == Spec => []ServedHasDatabase
  <1>1. Init => CacheIsTrue
    BY BranchAssumption DEF Init, CacheIsTrue
  <1>2. IInv /\ CacheIsTrue /\ [Next]_vars => CacheIsTrue'
    BY NextCacheIsTrue DEF IInv
  <1>3. CacheIsTrue => ServedHasDatabase
    BY DEF CacheIsTrue, ServedHasDatabase
  <1> QED
    BY <1>1, <1>2, <1>3, Invariance, PTL DEF Spec

-----------------------------------------------------------------------------
(* A database of the proxy's own making comes from a handler that holds the *)
(* lock of the branch, so no other handler is about to create it.           *)
LEMMA NextCreateOverExisting ==
  ASSUME IInv, NoCreateOverExisting, [Next]_vars PROVE NoCreateOverExisting'
  <1> USE DEF Goto, IInv, TypeOK, NoCreateOverExisting
  <1>1. ASSUME NEW c \in Conn, NEW b \in Branch, Route(c, b) PROVE NoCreateOverExisting'
    <2>1. \A d \in Conn : d # c => pc'[d] = pc[d] /\ branch'[d] = branch[d]
      BY <1>1 DEF Route
    <2>2. pc'[c] # "creating" /\ UNCHANGED db
      BY <1>1 DEF Route
    <2> QED
      BY <2>1, <2>2
  <1>2. ASSUME NEW c \in Conn, Disconnect(c) PROVE NoCreateOverExisting'
    BY <1>2 DEF Disconnect
  <1>3. ASSUME NEW c \in Conn, FastPath(c) \/ TakeLock(c) \/ DoubleCheck(c)
        PROVE  NoCreateOverExisting'
    BY <1>3 DEF FastPath, TakeLock, DoubleCheck
  <1>4. ASSUME NEW c \in Conn, ExistsAnswers(c) PROVE NoCreateOverExisting'
    BY <1>4 DEF ExistsAnswers, databases
  <1>5. ASSUME NEW c \in Conn, ServerCreates(c) PROVE NoCreateOverExisting'
    <2>1. \A d \in Branch : d # branch[c] => db'[d] = db[d]
      BY <1>5, CreateMakes DEF ServerCreates
    <2>2. \A d \in Conn : pc'[d] = IF d = c THEN "created" ELSE pc[d]
      BY <1>5 DEF ServerCreates
    <2>3. \A d \in Conn : pc[d] = "creating" /\ d # c => branch[d] # branch[c]
      BY <1>5, Phases DEF ServerCreates, OneHolder
    <2> QED
      BY <1>5, <2>1, <2>2, <2>3 DEF ServerCreates
  <1>6. ASSUME NEW c \in Conn, CreateAnswers(c) \/ DriverFails(c) \/ MarkProvisioned(c)
        PROVE  NoCreateOverExisting'
    BY <1>6 DEF CreateAnswers, DriverFails, MarkProvisioned
  <1>7. ASSUME NEW b \in Branch, LateCreate(b) \/ CliCreate(b) PROVE NoCreateOverExisting'
    <2>1. \A d \in Branch : db'[d] = "own" => db[d] = "own"
      BY <1>7, CreateMakes DEF LateCreate, CliCreate
    <2> QED
      BY <1>7, <2>1 DEF LateCreate, CliCreate
  <1>8. ASSUME NEW b \in Branch, CliDrop(b) PROVE NoCreateOverExisting'
    BY <1>8 DEF CliDrop
  <1>9. CASE Tick \/ UNCHANGED vars
    BY <1>9 DEF Tick, vars
  <1> QED
    BY <1>1, <1>2, <1>3, <1>4, <1>5, <1>6, <1>7, <1>8, <1>9 DEF Next, Handler

(* A handler never sends CREATE for a database that a handler has created   *)
(* and nobody has dropped: errors of BranchExists are not taken for absence *)
(* and the lock covers both calls.                                          *)
THEOREM CreatesOnlyAbsent == Spec => []NoCreateOverExisting
  <1>1. Init => NoCreateOverExisting
    BY DEF Init, NoCreateOverExisting
  <1> QED
    BY <1>1, NextCreateOverExisting, Invariance, PTL DEF Spec

-----------------------------------------------------------------------------
(* The use of the keyed lock.                                               *)
LEMMA AtMembers ==
  ASSUME NEW c \in Conn, NEW b, NEW phases
  PROVE  <<c, b>> \in At(phases) <=> pc[c] \in phases /\ branch[c] = b
  BY DEF At

(* A move of one connection between phases that are on the same side of a   *)
(* set of phases does not change who is in it.                              *)
LEMMA AtSame ==
  ASSUME TypeOK, NEW c \in Conn, NEW to, NEW phases,
         pc' = [pc EXCEPT ![c] = to], UNCHANGED branch,
         pc[c] \in phases <=> to \in phases
  PROVE  At(phases)' = At(phases)
  BY DEF At, TypeOK

(* Entering or leaving a set of phases adds or removes one pair.            *)
LEMMA AtEnter ==
  ASSUME TypeOK, NEW c \in Conn, NEW to, NEW phases,
         pc' = [pc EXCEPT ![c] = to], UNCHANGED branch,
         pc[c] \notin phases, to \in phases
  PROVE  At(phases)' = At(phases) \cup {<<c, branch[c]>>}
  BY DEF At, TypeOK

LEMMA AtLeave ==
  ASSUME TypeOK, NEW c \in Conn, NEW to, NEW phases,
         pc' = [pc EXCEPT ![c] = to], UNCHANGED branch,
         pc[c] \in phases, to \notin phases
  PROVE  At(phases)' = At(phases) \ {<<c, branch[c]>>}
  BY DEF At, TypeOK

(* Each step of a handler is one step of the abstract lock, or none.        *)
LEMMA NextLocks == IInv /\ [Next]_vars => [KL!Next]_(KL!vars)
  <1> SUFFICES ASSUME IInv, [Next]_vars PROVE KL!Next \/ UNCHANGED KL!vars
    OBVIOUS
  <1>a. TypeOK
    BY DEF IInv
  <1>b. \A c \in Conn : branch[c] \in Branch
    BY <1>a DEF TypeOK
  <1>1. ASSUME NEW c \in Conn, NEW b \in Branch, Route(c, b) \/ Disconnect(c)
        PROVE  UNCHANGED KL!vars
    <2>1. /\ pc[c] \notin {"waiting"} /\ pc'[c] \notin {"waiting"}
          /\ pc[c] \notin InSection /\ pc'[c] \notin InSection
          /\ \A d \in Conn : d # c => pc'[d] = pc[d] /\ branch'[d] = branch[d]
      BY <1>1, <1>a, Phases DEF Route, Disconnect, Goto, TypeOK
    <2>2. At({"waiting"})' = At({"waiting"})
      BY <2>1 DEF At
    <2>3. At(InSection)' = At(InSection)
      BY <2>1 DEF At, InSection, InDriver
    <2> QED
      BY <2>2, <2>3 DEF KL!vars
  <1>2. ASSUME NEW c \in Conn, FastPath(c) PROVE KL!Next \/ UNCHANGED KL!vars
    <2>1. /\ pc[c] = "start" /\ UNCHANGED branch
          /\ pc' = [pc EXCEPT ![c] = IF branch[c] \in provisioned THEN "served" ELSE "waiting"]
      BY <1>2 DEF FastPath, Goto
    <2>2. At(InSection)' = At(InSection)
      BY <2>1, <1>a, AtSame, Phases
    <2>3. CASE branch[c] \in provisioned
      <3>1. At({"waiting"})' = At({"waiting"})
        BY <2>1, <2>3, <1>a, AtSame
      <3> QED
        BY <3>1, <2>2 DEF KL!vars
    <2>4. CASE branch[c] \notin provisioned
      <3>1. At({"waiting"})' = At({"waiting"}) \cup {<<c, branch[c]>>}
        BY <2>1, <2>4, <1>a, AtEnter
      <3>2. \A k \in Branch : <<c, k>> \notin At({"waiting"}) \cup At(InSection)
        BY <2>1, AtMembers, Phases
      <3>3. KL!Ask(c, branch[c])
        BY <3>1, <3>2, <2>2 DEF KL!Ask
      <3> QED
        BY <3>3, <1>b DEF KL!Next
    <2> QED
      BY <2>3, <2>4
  <1>3. ASSUME NEW c \in Conn, TakeLock(c) PROVE KL!Next
    <2>1. pc[c] = "waiting" /\ UNCHANGED branch /\ pc' = [pc EXCEPT ![c] = "locked"]
      BY <1>3 DEF TakeLock, Goto
    <2>2. At({"waiting"})' = At({"waiting"}) \ {<<c, branch[c]>>}
      <3>1. pc[c] \in {"waiting"} /\ "locked" \notin {"waiting"}
        BY <2>1
      <3> QED
        BY <3>1, <2>1, <1>a, AtLeave
    <2>3. At(InSection)' = At(InSection) \cup {<<c, branch[c]>>}
      BY <2>1, <1>a, AtEnter, Phases
    <2>4. <<c, branch[c]>> \in At({"waiting"})
      BY <2>1, AtMembers
    <2>5. \A d \in Conn : <<d, branch[c]>> \notin At(InSection)
      BY <1>3, AtMembers DEF TakeLock
    <2>6. KL!Grant(c, branch[c])
      BY <2>2, <2>3, <2>4, <2>5 DEF KL!Grant
    <2> QED
      BY <2>6, <1>b DEF KL!Next
  <1>4. ASSUME NEW c \in Conn,
               DoubleCheck(c) \/ ExistsAnswers(c) \/ ServerCreates(c) \/ CreateAnswers(c)
               \/ DriverFails(c) \/ MarkProvisioned(c)
        PROVE  KL!Next \/ UNCHANGED KL!vars
    <2>1. PICK to \in InSection \cup Ended :
            pc' = [pc EXCEPT ![c] = to] /\ pc[c] \in InSection /\ UNCHANGED branch
      BY <1>4, Phases DEF DoubleCheck, ExistsAnswers, ServerCreates, CreateAnswers,
                          DriverFails, MarkProvisioned, Goto
    <2>2. At({"waiting"})' = At({"waiting"})
      BY <2>1, <1>a, AtSame, Phases
    <2>3. CASE to \in InSection
      <3>1. At(InSection)' = At(InSection)
        BY <2>1, <2>3, <1>a, AtSame
      <3> QED
        BY <3>1, <2>2 DEF KL!vars
    <2>4. CASE to \notin InSection
      <3>1. At(InSection)' = At(InSection) \ {<<c, branch[c]>>}
        BY <2>1, <2>4, <1>a, AtLeave
      <3>2. <<c, branch[c]>> \in At(InSection)
        BY <2>1, AtMembers
      <3>3. KL!GiveBack(c, branch[c])
        BY <3>1, <3>2, <2>2 DEF KL!GiveBack
      <3> QED
        BY <3>3, <1>b DEF KL!Next
    <2> QED
      BY <2>3, <2>4
  <1>5. ASSUME UNCHANGED <<pc, branch>> PROVE UNCHANGED KL!vars
    BY <1>5 DEF KL!vars, At, InSection, InDriver
  <1>6. ASSUME NEW b \in Branch, LateCreate(b) \/ CliCreate(b) \/ CliDrop(b)
        PROVE  UNCHANGED KL!vars
    BY <1>6, <1>5 DEF LateCreate, CliCreate, CliDrop
  <1>7. CASE Tick \/ UNCHANGED vars
    BY <1>7, <1>5 DEF Tick, vars
  <1>8. ASSUME NEW c \in Conn, Handler(c) PROVE KL!Next \/ UNCHANGED KL!vars
    BY <1>8, <1>2, <1>3, <1>4 DEF Handler
  <1>9. CASE Next
    <2>1. CASE \E c \in Conn : Handler(c)
      BY <2>1, <1>8
    <2>2. CASE \E c \in Conn : Disconnect(c) \/ \E b \in Branch : Route(c, b)
      BY <2>2, <1>1, BranchAssumption
    <2>3. CASE \E b \in Branch : LateCreate(b) \/ CliCreate(b) \/ CliDrop(b)
      BY <2>3, <1>6
    <2>4. CASE Tick
      BY <2>4, <1>7
    <2> QED
      BY <1>9, <2>1, <2>2, <2>3, <2>4 DEF Next
  <1> QED
    BY <1>7, <1>9

(* ensureBranchExists uses the keyed lock as KeyLock allows, on every path, *)
(* for any number of connections and branches.                              *)
THEOREM LockUse == Spec => LockDiscipline
  <1>1. Init => KL!Init
    BY Phases DEF Init, KL!Init, At
  <1> QED
    BY <1>1, NextLocks, Invariance, PTL DEF Spec, LockDiscipline, KL!Spec

=============================================================================
