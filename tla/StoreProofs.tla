---------------------------- MODULE StoreProofs ----------------------------
(***************************************************************************)
(* The two sides of BranchStore, the contract of the driver interface, for  *)
(* every set of processes and names.  PostgresDriver keeps it, whatever     *)
(* calls overlap, fail or are carried out late; and over any driver that    *)
(* keeps it, Prune spares the branches that were in use all the time since  *)
(* it began.                                                                *)
(***************************************************************************)
EXTENDS PostgresDriver, Prune, TLAPS

-----------------------------------------------------------------------------
(* The initial states have the types.                                       *)
LEMMA InitDriverTypeOK == DriverInit => DriverTypeOK
  BY BaseAssumption DEF DriverInit, DriverTypeOK, Belongs, Finished, Statement

(* Every step keeps the types; a process is always at a statement, or an    *)
(* ending, of the operation it called.                                      *)
LEMMA NextDriverTypeOK == DriverTypeOK /\ [DriverNext]_driverVars => DriverTypeOK'
  <1> SUFFICES ASSUME DriverTypeOK, [DriverNext]_driverVars PROVE DriverTypeOK'
    OBVIOUS
  <1> USE DEF DriverTypeOK, Finished, Statement, Belongs, serverVars, callVars, Goto
  <1>1. ASSUME NEW p \in Proc, Run(p) PROVE DriverTypeOK'
    <2>1. CASE QueryAnswered(p)
      BY <2>1 DEF QueryAnswered
    <2>2. CASE Inspected(p)
      BY <2>2 DEF Inspected
    <2>3. CASE TemplateFreed(p)
      BY <2>3 DEF TemplateFreed, Terminate
    <2>4. CASE CloneDuplicate(p)
      BY <2>4 DEF CloneDuplicate
    <2>5. CASE Cloned(p)
      BY <2>5 DEF Cloned
    <2>6. CASE Commented(p)
      BY <2>6 DEF Commented
    <2>7. CASE Evicted(p)
      BY <2>7 DEF Evicted, Terminate
    <2>8. CASE Dropped(p)
      BY <2>8 DEF Dropped
    <2>9. CASE DropReturns(p)
      BY <2>9 DEF DropReturns
    <2>10. CASE CallFails(p)
      <3>1. late' \in SUBSET ({"create", "delete"} \X Name)
        BY <2>10 DEF CallFails
      <3> QED
        BY <3>1, <2>10 DEF CallFails
    <2> QED
      BY <1>1, <2>1, <2>2, <2>3, <2>4, <2>5, <2>6, <2>7, <2>8, <2>9, <2>10 DEF Run
  <1>2. ASSUME NEW p \in Proc, NEW o \in {"exists", "create", "delete"}, NEW n \in Name,
               Call(p, o, n)
        PROVE  DriverTypeOK'
    BY <1>2 DEF Call
  <1>3. CASE Applications
    BY <1>3 DEF Applications, Connect, Begin, Commit, Disconnect
  <1>4. CASE Server
    BY <1>4 DEF Server, LateStatement
  <1>5. CASE UNCHANGED driverVars
    BY <1>5 DEF driverVars
  <1> QED
    BY <1>1, <1>2, <1>3, <1>4, <1>5 DEF DriverNext

(* The driver keeps its types under any callers.                            *)
THEOREM DriverTypeCorrect == DriverSpec => []DriverTypeOK
  BY InitDriverTypeOK, NextDriverTypeOK, PTL DEF DriverSpec

(* A DROP statement, also an abandoned one, is never for the base database, *)
(* which is always there.                                                   *)
BaseProtected ==
  /\ \A p \in Proc : pc[p] = "drop" => target[p] # Base
  /\ <<"delete", Base>> \notin late
  /\ Base \in databases

(* The inductive invariant: without BaseProtected a DROP would have no      *)
(* counterpart in the contract.                                             *)
DriverInv == DriverTypeOK /\ BaseProtected

(* The invariant holds in every behaviour.                                  *)
LEMMA DriverInvariance == DriverSpec => []DriverInv
  <1>1. DriverInit => DriverInv
    <2> SUFFICES ASSUME DriverInit PROVE BaseProtected
      BY InitDriverTypeOK DEF DriverInv
    <2> QED
      BY DEF DriverInit, BaseProtected
  <1>2. DriverInv /\ [DriverNext]_driverVars => DriverInv'
    <2> SUFFICES ASSUME DriverTypeOK, BaseProtected, [DriverNext]_driverVars
                 PROVE  BaseProtected'
      BY NextDriverTypeOK DEF DriverInv
    <2> USE DEF DriverTypeOK, BaseProtected, serverVars, callVars, Goto
    <2>1. ASSUME NEW p \in Proc, Run(p) PROVE BaseProtected'
      <3>1. CASE QueryAnswered(p) \/ Inspected(p) \/ CloneDuplicate(p) \/ Commented(p)
                 \/ DropReturns(p)
        BY <3>1 DEF QueryAnswered, Inspected, CloneDuplicate, Commented, DropReturns
      <3>2. CASE TemplateFreed(p) \/ Evicted(p)
        BY <3>2 DEF TemplateFreed, Evicted
      <3>3. CASE Cloned(p) \/ Dropped(p)
        BY <3>3 DEF Cloned, Dropped
      <3>4. CASE CallFails(p)
        <4>1. op[p] # "delete" \/ pc[p] \notin {"clone", "drop"} \/ target[p] # Base
          BY DEF Belongs
        <4>2. <<"delete", Base>> \notin late'
          BY <3>4, <4>1 DEF CallFails
        <4> QED
          BY <3>4, <4>2 DEF CallFails
      <3> QED
        BY <2>1, <3>1, <3>2, <3>3, <3>4 DEF Run
    <2>2. ASSUME NEW p \in Proc, NEW o \in {"exists", "create", "delete"}, NEW n \in Name,
                 Call(p, o, n)
          PROVE  BaseProtected'
      BY <2>2 DEF Call
    <2>3. CASE Applications
      BY <2>3 DEF Applications, Connect, Begin, Commit, Disconnect
    <2>4. CASE Server
      BY <2>4 DEF Server, LateStatement
    <2>5. CASE UNCHANGED driverVars
      BY <2>5 DEF driverVars
    <2> QED
      BY <2>1, <2>2, <2>3, <2>4, <2>5 DEF DriverNext
  <1> QED
    BY <1>1, <1>2, PTL DEF DriverSpec

(* "cannot delete protected base database" (postgres.go:324): it is there   *)
(* in every state, whatever is called, fails or comes late.                 *)
THEOREM BaseSurvives == DriverSpec => [](Base \in databases)
  <1>1. DriverInv => Base \in databases
    BY DEF DriverInv, BaseProtected
  <1> QED
    BY <1>1, DriverInvariance, PTL

-----------------------------------------------------------------------------
(* What a step of one process does to its abstract call.                    *)
LEMMA OneResult ==
  ASSUME DriverTypeOK, NEW p \in Proc, NEW s \in Finished \cup Statement,
         Goto(p, s), UNCHANGED <<op, target>>, NEW r, Result(p)' = r
  PROVE  callOf' = [callOf EXCEPT ![p].result = r]
  <1>1. ASSUME NEW q \in Proc, q # p PROVE Result(q)' = Result(q)
    BY <1>1 DEF Result, Goto, DriverTypeOK
  <1> QED
    BY <1>1 DEF callOf, DriverTypeOK

(* The record a process is mapped to.                                       *)
LEMMA CallOf ==
  ASSUME NEW p \in Proc
  PROVE  callOf[p].op = op[p] /\ callOf[p].name = target[p] /\ callOf[p].result = Result(p)
  BY DEF callOf

(* Every statement is a step of the contract, or invisible to it.           *)
LEMMA RunRefines ==
  ASSUME DriverInv, NEW p \in Proc, Run(p)
  PROVE  Contract!Next \/ UNCHANGED Contract!vars
  <1> USE DEF DriverInv, DriverTypeOK, Finished, Statement, serverVars, callVars
  <1>0. callOf[p].op = op[p] /\ callOf[p].name = target[p] /\ callOf[p].result = Result(p)
    BY CallOf
  <1>p. /\ pc[p] = "query" => op[p] = "exists"
        /\ pc[p] = "clone" => op[p] = "create"
        /\ pc[p] = "drop" => op[p] = "delete" /\ target[p] # Base
    BY DEF Belongs, BaseProtected
  <1>1. CASE QueryAnswered(p)
    <2>1. PICK s \in {"exists", "missing"} :
            /\ s = IF target[p] \in databases THEN "exists" ELSE "missing"
            /\ Goto(p, s)
      BY <1>1 DEF QueryAnswered
    <2>2. Result(p)' = IF target[p] \in databases THEN "yes" ELSE "no"
      BY <2>1 DEF Result, Goto
    <2>3. Result(p) = "pending" /\ op[p] = "exists"
      BY <1>1, <1>p DEF QueryAnswered, Result
    <2>4. Contract!Answer(p)
      BY <1>0, <1>1, <2>1, <2>2, <2>3, OneResult DEF QueryAnswered, Contract!Answer, Contract!Becomes
    <2> QED
      BY <2>4 DEF Contract!Next
  <1>2. CASE Inspected(p) \/ TemplateFreed(p) \/ Evicted(p)
    <2>1. PICK s \in {"terminate", "clone", "drop"} : Goto(p, s)
      BY <1>2 DEF Inspected, TemplateFreed, Evicted
    <2>2. Result(p)' = "pending" /\ Result(p) = "pending"
      BY <1>2, <2>1 DEF Result, Goto, Inspected, TemplateFreed, Evicted
    <2>3. callOf' = [callOf EXCEPT ![p].result = "pending"]
      BY <1>2, <2>1, <2>2, OneResult DEF Inspected, TemplateFreed, Evicted
    <2>4. callOf' = callOf
      BY <2>2, <2>3 DEF callOf
    <2> QED
      BY <1>2, <2>4 DEF Inspected, TemplateFreed, Evicted, Contract!vars
  <1>3. CASE CloneDuplicate(p)
    <2>1. Result(p)' = "ok" /\ Result(p) = "pending" /\ op[p] = "create"
      BY <1>3, <1>p DEF Result, Goto, CloneDuplicate
    <2>2. callOf' = [callOf EXCEPT ![p].result = "ok"]
      BY <1>3, <2>1, OneResult DEF CloneDuplicate
    <2>3. databases' = databases \cup {target[p]}
      BY <1>3 DEF CloneDuplicate
    <2>4. Contract!Create(p)
      BY <1>0, <1>3, <2>1, <2>2, <2>3 DEF CloneDuplicate, Contract!Create, Contract!Becomes
    <2> QED
      BY <2>4 DEF Contract!Next
  <1>4. CASE Cloned(p)
    <2>1. Result(p)' = "done" /\ Result(p) = "pending" /\ op[p] = "create"
      BY <1>4, <1>p DEF Result, Goto, Cloned
    <2>2. callOf' = [callOf EXCEPT ![p].result = "done"]
      BY <1>4, <2>1, OneResult DEF Cloned
    <2>4. Contract!Create(p)
      BY <1>0, <1>4, <2>1, <2>2 DEF Cloned, Contract!Create, Contract!Becomes
    <2> QED
      BY <2>4 DEF Contract!Next
  <1>5. CASE Commented(p) \/ DropReturns(p)
    <2>1. PICK s \in {"created", "deleted"} : Goto(p, s)
      BY <1>5 DEF Commented, DropReturns
    <2>2. Result(p)' = "ok" /\ Result(p) = "done"
      BY <1>5, <2>1 DEF Result, Goto, Commented, DropReturns
    <2>3. callOf' = [callOf EXCEPT ![p].result = "ok"]
      BY <1>5, <2>1, <2>2, OneResult DEF Commented, DropReturns
    <2>4. Contract!Succeed(p)
      BY <1>0, <1>5, <2>2, <2>3 DEF Commented, DropReturns, Contract!Succeed, Contract!Becomes
    <2> QED
      BY <2>4 DEF Contract!Next
  <1>6. CASE Dropped(p)
    <2>1. Result(p)' = "done" /\ Result(p) = "pending" /\ op[p] = "delete"
      BY <1>6, <1>p DEF Result, Goto, Dropped
    <2>2. callOf' = [callOf EXCEPT ![p].result = "done"]
      BY <1>6, <2>1, OneResult DEF Dropped
    <2>3. Contract!Delete(p)
      BY <1>0, <1>p, <1>6, <2>1, <2>2 DEF Dropped, Contract!Delete, Contract!Becomes
    <2> QED
      BY <2>3 DEF Contract!Next
  <1>7. CASE CallFails(p)
    <2>1. Result(p)' = "error" /\ Result(p) \in {"pending", "done"}
      BY <1>7 DEF Result, Goto, CallFails
    <2>2. callOf' = [callOf EXCEPT ![p].result = "error"]
      BY <1>7, <2>1, OneResult DEF CallFails
    <2>3. CASE UNCHANGED late
      BY <1>0, <1>7, <2>1, <2>2, <2>3 DEF CallFails, Contract!Fail, Contract!Becomes, Contract!Next
    <2>4. CASE pc[p] \in {"clone", "drop"} /\ late' = late \cup {<<op[p], target[p]>>}
      <3>1. Result(p) = "pending"
        BY <2>4 DEF Result
      <3>2. Contract!Fail(p)
        BY <1>0, <1>p, <1>7, <2>1, <2>2, <2>4, <3>1 DEF CallFails, Contract!Fail, Contract!Becomes
      <3> QED
        BY <3>2 DEF Contract!Next
    <2> QED
      BY <1>7, <2>3, <2>4 DEF CallFails
  <1> QED
    BY <1>1, <1>2, <1>3, <1>4, <1>5, <1>6, <1>7 DEF Run

(* Every step of the driver is a step of the contract, or invisible to it.  *)
LEMMA NextRefines ==
  DriverInv /\ [DriverNext]_driverVars => [Contract!Next]_(Contract!vars)
  <1> SUFFICES ASSUME DriverInv, [DriverNext]_driverVars PROVE [Contract!Next]_(Contract!vars)
    OBVIOUS
  <1>1. ASSUME NEW p \in Proc, NEW o \in {"exists", "create", "delete"}, NEW n \in Name,
               Call(p, o, n)
        PROVE  Contract!Ask(p, o, n)
    <2>1. Result(p) \in Contract!Finished
      BY <1>1 DEF Call, Result, Finished, Contract!Finished
    <2>2. Result(p)' = "pending"
      BY <1>1 DEF DriverInv, DriverTypeOK, Call, Result, Goto
    <2>3. ASSUME NEW q \in Proc, q # p PROVE Result(q)' = Result(q)
      BY <1>1, <2>3 DEF DriverInv, DriverTypeOK, Call, Result, Goto
    <2>4. callOf' = [callOf EXCEPT ![p] = [op |-> o, name |-> n, result |-> "pending"]]
      BY <1>1, <2>2, <2>3 DEF DriverInv, DriverTypeOK, Call, callOf
    <2> QED
      BY <1>1, <2>1, <2>4, CallOf DEF Call, serverVars, Contract!Ask
  <1>2. CASE Applications
    <2>1. UNCHANGED <<databases, late, op, target, pc>>
      BY <1>2 DEF Applications, Connect, Begin, Commit, Disconnect
    <2> QED
      BY <2>1 DEF Contract!vars, callOf, Result
  <1>3. ASSUME NEW o \in {"create", "delete"}, NEW n \in Name, LateStatement(o, n)
        PROVE  Contract!LateEffect(o, n)
    <2>1. callOf' = callOf
      BY <1>3 DEF LateStatement, callOf, Result
    <2> QED
      BY <1>3, <2>1 DEF LateStatement, Contract!LateEffect
  <1>4. CASE UNCHANGED driverVars
    BY <1>4 DEF driverVars, serverVars, Contract!vars, callOf, Result
  <1> QED
    BY <1>1, <1>2, <1>3, <1>4, RunRefines
       DEF DriverNext, Server, Contract!Next, Contract!Operations

(* The PostgreSQL driver implements the contract of the driver interface.   *)
THEOREM Refinement == DriverSpec => ImplementsBranchStore
  <1>1. DriverInit => Contract!Init
    BY DEF DriverInit, Contract!Init, callOf, Result
  <1> QED
    BY <1>1, NextRefines, DriverInvariance, PTL DEF DriverSpec, Contract!Spec, ImplementsBranchStore

-----------------------------------------------------------------------------
(* The contract is open about the caller: its steps keep the store's types. *)
StoreTypeOK ==
  /\ databases \in SUBSET Name
  /\ call \in [Proc -> Store!Calls]
  /\ late \in SUBSET ({"create", "delete"} \X Name)

LEMMA AskTypes ==
  ASSUME StoreTypeOK, NEW p \in Proc, NEW o \in {"exists", "create", "delete"}, NEW n \in Name,
         Store!Ask(p, o, n)
  PROVE  StoreTypeOK'
  BY DEF StoreTypeOK, Store!Ask, Store!Calls, Store!Operations, Store!Finished

LEMMA CallTypes ==
  ASSUME StoreTypeOK, NEW p \in Proc, CallGoesOn(p)
  PROVE  StoreTypeOK'
  <1> USE DEF StoreTypeOK, Store!Becomes, Store!Calls, Store!Operations, Store!Finished
  <1>1. call[p] \in Store!Calls
    OBVIOUS
  <1>2. CASE Store!Answer(p)
    BY <1>2 DEF Store!Answer
  <1>3. CASE Store!Create(p)
    BY <1>1, <1>3 DEF Store!Create
  <1>4. CASE Store!Delete(p)
    BY <1>4 DEF Store!Delete
  <1>5. CASE Store!Succeed(p)
    BY <1>5 DEF Store!Succeed
  <1>6. CASE Store!Fail(p)
    BY <1>1, <1>6 DEF Store!Fail
  <1> QED
    BY <1>2, <1>3, <1>4, <1>5, <1>6 DEF CallGoesOn

LEMMA LateTypes ==
  ASSUME StoreTypeOK, NEW o \in {"create", "delete"}, NEW n \in Name, LateEffect(o, n)
  PROVE  StoreTypeOK'
  BY DEF StoreTypeOK, LateEffect, Store!LateEffect

(* Sanitized names are names.                                               *)
LEMMA NamesAreNames ==
  ASSUME NEW branches \in SUBSET (Branch \cup {Detached})
  PROVE  NamesOf(branches) \in SUBSET Name
  BY SanitizedAssumption DEF NamesOf

LEMMA ActiveIsBranch ==
  ASSUME NEW h \in Branch \cup {Detached}, NEW r \in Branch \cup {Detached, NoRebase}
  PROVE  Active(h, r) \in SUBSET (Branch \cup {Detached})
  BY DEF Active

LEMMA UseIsTyped ==
  ASSUME NEW h \in Branch \cup {Detached}, NEW r \in Branch \cup {Detached, NoRebase},
         NEW l \in SUBSET Branch, NEW m
  PROVE  InUseBy(h, r, l, m) \in SUBSET ({"active", "work"} \X Name)
  <1>1. NamesOf(Active(h, r)) \in SUBSET Name
    BY ActiveIsBranch, NamesAreNames
  <1>2. NamesOf(l \ m) \in SUBSET Name
    BY NamesAreNames
  <1> QED
    BY <1>1, <1>2 DEF InUseBy

-----------------------------------------------------------------------------
(* What prune knows at each phase of the names that were in use all along.  *)

(* While prune runs, what is kept is in use now.                            *)
KeptIsInUse == prune # "off" => kept \subseteq InUseBy(head, rebasing, local, merged)

(* Once the active branch is known it is no candidate.                      *)
ActiveSpared ==
  prune \in {"local", "merged", "prompt", "deleting"} =>
    \A n \in candidates : <<"active", n>> \notin kept

(* A name with unmerged work is not orphaned, and in the end no candidate   *)
(* unless a merged branch shares it.                                        *)
WorkSpared ==
  /\ prune = "merged" => \A n \in orphaned : <<"work", n>> \notin kept
  /\ prune \in {"prompt", "deleting"} =>
       \A n \in candidates : <<"work", n>> \in kept => n \in shared

(* The database that is being deleted belongs to no name that is kept, but  *)
(* for the shared ones.                                                     *)
DeletionSpares ==
  call[Pruner].op = "delete" /\ call[Pruner].result = "pending" =>
    /\ prune = "deleting"
    /\ <<"active", call[Pruner].name>> \notin kept
    /\ <<"work", call[Pruner].name>> \in kept => call[Pruner].name \in shared

(* The orphans are noted from one reading to the next only.                 *)
OrphansPassing == prune # "merged" => orphaned = {}

(* The inductive invariant.                                                 *)
IInv == TypeOK /\ OrphansPassing /\ KeptIsInUse /\ ActiveSpared /\ WorkSpared /\ DeletionSpares

(* Nothing runs at first.                                                   *)
LEMMA InitIInv == Init => IInv
  <1> SUFFICES ASSUME Init PROVE IInv
    OBVIOUS
  <1>1. TypeOK
    BY DefaultAssumption, SanitizedAssumption
       DEF Init, TypeOK, Store!Init, Store!Calls, Store!Operations, Store!Finished
  <1>2. call[Pruner].op # "delete"
    BY PrunerAssumption DEF Init, Store!Init
  <1> QED
    BY <1>1, <1>2 DEF Init, IInv, OrphansPassing, KeptIsInUse, ActiveSpared, WorkSpared, DeletionSpares

(* Git moves on: what is kept shrinks, and prune does not.                  *)
LEMMA DeveloperKeeps == IInv /\ Developer => IInv'
  <1> SUFFICES ASSUME IInv, Developer PROVE IInv'
    OBVIOUS
  <1> USE DEF IInv, TypeOK
  <1>1. /\ local' \in SUBSET Branch /\ merged' \in SUBSET local'
        /\ head' \in Branch \cup {Detached} /\ rebasing' \in Branch \cup {Detached, NoRebase}
        /\ UNCHANGED <<storeVars, pruneVars>>
        /\ Observe
    <2>1. CASE GitDefault
      BY <2>1, DefaultAssumption DEF GitDefault
    <2>2. CASE GitRebase \/ GitRebaseEnds
      BY <2>2, DetachedAssumption DEF GitRebase, GitRebaseEnds
    <2>3. CASE GitCommit \/ GitCheckout(Detached)
      BY <2>3 DEF GitCommit, GitCheckout
    <2>4. ASSUME NEW b \in Branch, GitCheckout(b) \/ GitBranch(b) \/ GitMerge(b) \/ GitDelete(b)
          PROVE  /\ local' \in SUBSET Branch /\ merged' \in SUBSET local'
                 /\ head' \in Branch \cup {Detached} /\ rebasing' = rebasing
                 /\ UNCHANGED <<storeVars, pruneVars>>
                 /\ Observe
      BY <2>4 DEF GitCheckout, GitBranch, GitMerge, GitDelete
    <2> QED
      BY <2>1, <2>2, <2>3, <2>4 DEF Developer
  <1>2. kept' \subseteq kept /\ kept' \subseteq InUseBy(head', rebasing', local', merged')
    BY <1>1 DEF Observe
  <1>3. TypeOK'
    BY <1>1, <1>2 DEF storeVars, pruneVars
  <1>4. KeptIsInUse'
    BY <1>2 DEF KeptIsInUse, InUseBy, NamesOf
  <1> QED
    BY <1>1, <1>2, <1>3, <1>4
       DEF storeVars, pruneVars, OrphansPassing, ActiveSpared, WorkSpared, DeletionSpares

(* What it means to be kept.                                                *)
LEMMA KeptMeans ==
  ASSUME IInv, prune # "off", NEW n
  PROVE  /\ <<"active", n>> \in kept => n \in NamesOf(Active(head, rebasing))
         /\ <<"work", n>> \in kept => n \in NamesOf(local \ merged)
  BY DEF IInv, KeptIsInUse, InUseBy

(* The steps of prune.                                                      *)
LEMMA PruneKeeps == IInv /\ RunPrune => IInv'
  <1> SUFFICES ASSUME IInv, RunPrune PROVE IInv'
    OBVIOUS
  <1> USE DEF IInv, OrphansPassing, Prunes, Unobserved, gitVars, storeVars
  <1>t. TypeOK
    OBVIOUS
  <1>1. CASE PruneStarts
    <2>1. kept' \in SUBSET ({"active", "work"} \X Name)
      BY <1>1, UseIsTyped DEF PruneStarts, TypeOK
    <2> QED
      BY <1>1, <2>1 DEF PruneStarts, TypeOK, KeptIsInUse, ActiveSpared, WorkSpared, DeletionSpares, InUseBy, NamesOf
  <1>2. CASE ListDatabases
    <2>1. TypeOK'
      BY <1>2 DEF ListDatabases, TypeOK
    <2>2. /\ prune = "list" /\ prune' = "active"
          /\ UNCHANGED <<call, head, rebasing, local, merged, kept, orphaned, shared>>
      BY <1>2 DEF ListDatabases
    <2> QED
      BY <2>1, <2>2 DEF KeptIsInUse, ActiveSpared, WorkSpared, DeletionSpares
  <1>3. CASE ResolveActive
    <2>1. /\ prune = "active" /\ prune' = "local"
          /\ candidates' = candidates \ NamesOf(Active(head, rebasing))
          /\ UNCHANGED <<call, head, rebasing, local, merged, kept, orphaned, shared, databases, late>>
      BY <1>3 DEF ResolveActive
    <2>2. orphaned' \in SUBSET candidates'
      <3> QED
        BY <2>1
    <2>3. TypeOK'
      BY <2>1, <2>2 DEF TypeOK
    <2>4. ASSUME NEW n \in candidates', <<"active", n>> \in kept' PROVE FALSE
      <3>1. n \in NamesOf(Active(head, rebasing))
        BY <2>1, <2>4, KeptMeans
      <3> QED
        BY <2>1, <2>4, <3>1
    <2> QED
      BY <2>1, <2>3, <2>4 DEF KeptIsInUse, ActiveSpared, WorkSpared, DeletionSpares
  <1>4. CASE ResolveLocal
    <2>1. /\ prune = "local" /\ prune' = "merged"
          /\ orphaned' \subseteq candidates \ NamesOf(local)
          /\ UNCHANGED <<call, head, rebasing, local, merged, kept, candidates, shared, databases, late>>
      BY <1>4 DEF ResolveLocal
    <2>2. TypeOK'
      BY <2>1 DEF TypeOK
    <2>3. ASSUME NEW n \in orphaned', <<"work", n>> \in kept' PROVE FALSE
      <3>1. n \in NamesOf(local \ merged)
        BY <2>1, <2>3, KeptMeans
      <3> QED
        BY <2>1, <3>1 DEF NamesOf
    <2> QED
      BY <2>1, <2>2, <2>3 DEF KeptIsInUse, ActiveSpared, WorkSpared, DeletionSpares
  <1>5. CASE ResolveMerged
    <2>1. /\ prune = "merged" /\ prune' = "prompt" /\ orphaned' = {}
          /\ candidates' = orphaned \cup (candidates \cap NamesOf(merged \ ({Default} \cup Unlisted)))
          /\ shared' = NamesOf(merged \ Unlisted) \cap NamesOf(local \ merged)
          /\ UNCHANGED <<call, head, rebasing, local, merged, kept, databases, late>>
      BY <1>5 DEF ResolveMerged
    <2>2. candidates' \subseteq candidates
      BY <2>1 DEF TypeOK
    <2>3. shared' \in SUBSET Name
      BY <2>1, NamesAreNames DEF TypeOK
    <2>4. TypeOK'
      BY <2>1, <2>2, <2>3 DEF TypeOK
    <2>5. ASSUME NEW n \in candidates', <<"work", n>> \in kept' PROVE n \in shared'
      <3>1. n \in NamesOf(local \ merged)
        BY <2>1, <2>5, KeptMeans
      <3>2. n \notin orphaned
        BY <2>1, <2>5 DEF WorkSpared
      <3>3. n \in NamesOf(merged \ Unlisted)
        BY <2>1, <2>5, <3>2 DEF NamesOf
      <3> QED
        BY <2>1, <3>1, <3>3
    <2> QED
      BY <2>1, <2>2, <2>4, <2>5 DEF KeptIsInUse, ActiveSpared, WorkSpared, DeletionSpares
  <1>6. CASE PruneGivesUp \/ Confirmed
    <2>1. /\ UNCHANGED <<call, head, rebasing, local, merged, databases, late>> /\ orphaned' = {}
          /\ \/ /\ prune' = "off" /\ prune # "deleting"
                /\ candidates' = {} /\ shared' = {} /\ kept' = {}
             \/ prune = "prompt" /\ prune' = "deleting" /\ UNCHANGED <<candidates, shared, kept>>
      BY <1>6 DEF PruneGivesUp, Confirmed
    <2>2. TypeOK'
      BY <2>1 DEF TypeOK
    <2> QED
      BY <2>1, <2>2 DEF KeptIsInUse, ActiveSpared, WorkSpared, DeletionSpares
  <1>7. CASE PruneEnds
    <2>1. /\ UNCHANGED <<call, head, rebasing, local, merged, databases, late, candidates, orphaned>>
          /\ shared' = {} /\ kept' = {} /\ prune = "deleting" /\ prune' = "off" /\ call[Pruner].result # "pending"
      BY <1>7 DEF PruneEnds, Store!Finished
    <2>2. TypeOK'
      BY <2>1 DEF TypeOK
    <2> QED
      BY <2>1, <2>2 DEF KeptIsInUse, ActiveSpared, WorkSpared, DeletionSpares
  <1>8. ASSUME NEW n \in Name, DeleteNext(n) PROVE IInv'
    <2>1. /\ prune = "deleting" /\ n \in candidates /\ candidates' = candidates \ {n}
          /\ UNCHANGED <<head, rebasing, local, merged, kept, prune, orphaned, shared>>
          /\ Store!Ask(Pruner, "delete", n)
      BY <1>8 DEF DeleteNext
    <2>2. StoreTypeOK'
      BY <2>1, AskTypes, PrunerAssumption DEF TypeOK, StoreTypeOK
    <2>3. call'[Pruner] = [op |-> "delete", name |-> n, result |-> "pending"]
      BY <2>1, PrunerAssumption DEF Store!Ask, TypeOK
    <2>4. <<"active", n>> \notin kept /\ (<<"work", n>> \in kept => n \in shared)
      BY <2>1 DEF ActiveSpared, WorkSpared
    <2>5. DeletionSpares'
      BY <2>1, <2>3, <2>4 DEF DeletionSpares
    <2>6. orphaned = {}
      BY <2>1
    <2> QED
      BY <2>1, <2>2, <2>5, <2>6 DEF TypeOK, StoreTypeOK, KeptIsInUse, ActiveSpared, WorkSpared
  <1> QED
    BY <1>1, <1>2, <1>3, <1>4, <1>5, <1>6, <1>7, <1>8 DEF RunPrune

(* Steps of the driver and of its other callers do not touch what prune     *)
(* knows, and start no deletion in its name.                                *)
LEMMA StoreKeeps ==
  ASSUME IInv, StoreTypeOK', UNCHANGED <<gitVars, pruneVars, kept>>,
         call'[Pruner].op = "delete" /\ call'[Pruner].result = "pending" =>
           call[Pruner].op = "delete" /\ call[Pruner].result = "pending"
             /\ call'[Pruner].name = call[Pruner].name
  PROVE  IInv'
  BY DEF IInv, TypeOK, StoreTypeOK, gitVars, pruneVars, OrphansPassing, KeptIsInUse,
         ActiveSpared, WorkSpared, DeletionSpares

LEMMA NextIInv == IInv /\ [Next]_vars => IInv'
  <1> SUFFICES ASSUME IInv, [Next]_vars PROVE IInv'
    OBVIOUS
  <1>t. StoreTypeOK
    BY DEF IInv, TypeOK, StoreTypeOK
  <1>1. CASE Developer
    BY <1>1, DeveloperKeeps
  <1>2. CASE RunPrune
    BY <1>2, PruneKeeps
  <1>3. ASSUME NEW p \in Proc, CallGoesOn(p) PROVE IInv'
    <2>1. StoreTypeOK' /\ UNCHANGED <<gitVars, pruneVars, kept>>
      BY <1>t, <1>3, CallTypes DEF CallGoesOn
    <2>2. PICK r \in {"yes", "no", "done", "ok", "error"} : call' = [call EXCEPT ![p].result = r]
      BY <1>3 DEF CallGoesOn, Store!Answer, Store!Create, Store!Delete, Store!Succeed, Store!Fail,
                  Store!Becomes
    <2>3. p # Pruner => call'[Pruner] = call[Pruner]
      BY <1>t, <2>2, PrunerAssumption DEF StoreTypeOK
    <2>4. p = Pruner => call'[Pruner].result # "pending"
      BY <1>t, <2>2, PrunerAssumption DEF StoreTypeOK, Store!Calls
    <2> QED
      BY <2>1, <2>3, <2>4, StoreKeeps
  <1>4. ASSUME NEW p \in Proc, NEW n \in Managed \ {Base}, Provision(p, n), n \in Name PROVE IInv'
    <2>1. PICK o \in {"exists", "create"} : Store!Ask(p, o, n)
      BY <1>4 DEF Provision
    <2>2. p # Pruner /\ UNCHANGED <<gitVars, pruneVars, kept>>
      BY <1>4 DEF Provision
    <2>3. StoreTypeOK'
      BY <1>t, <1>4, <2>1, AskTypes
    <2>4. call'[Pruner] = call[Pruner]
      BY <1>t, <2>1, <2>2, PrunerAssumption DEF StoreTypeOK, Store!Ask
    <2> QED
      BY <2>2, <2>3, <2>4, StoreKeeps
  <1>5. ASSUME NEW o \in {"create", "delete"}, NEW n \in Name, LateEffect(o, n) PROVE IInv'
    <2>1. UNCHANGED <<gitVars, pruneVars, kept, call>>
      BY <1>5 DEF LateEffect, Store!LateEffect
    <2> QED
      BY <1>t, <1>5, <2>1, LateTypes, StoreKeeps
  <1>6. CASE UNCHANGED vars
    BY <1>t, <1>6, StoreKeeps DEF vars, storeVars, StoreTypeOK
  <1> QED
    BY <1>1, <1>2, <1>3, <1>4, <1>5, <1>6, ManagedAssumption DEF Next

LEMMA Invariance == Spec => []IInv
  BY InitIInv, NextIInv, PTL DEF Spec

-----------------------------------------------------------------------------
(* prune and the processes beside it keep their types; in particular the    *)
(* base database is never a candidate (main.go:748).                        *)
THEOREM TypeCorrect == Spec => []TypeOK
  <1>1. IInv => TypeOK
    BY DEF IInv
  <1> QED
    BY <1>1, Invariance, PTL

(* A name whose branch was active, or that had unmerged work, at every      *)
(* moment since prune began keeps its database, although prune reads the    *)
(* databases, HEAD, the branches and the merged branches one after the      *)
(* other; except, for one with unmerged work, that a merged branch had the  *)
(* same sanitized name when prune read the merged branches.                 *)
THEOREM SparesInUse == Spec => SparesBranchesInUse
  <1>1. IInv /\ [Next]_vars =>
          [\A n \in Name :
             DropsNow(n) => <<"active", n>> \notin kept /\ (<<"work", n>> \in kept => n \in shared)]_vars
    BY DEF IInv, DeletionSpares, DropsNow
  <1> QED
    BY <1>1, Invariance, PTL DEF Spec, SparesBranchesInUse
=============================================================================
