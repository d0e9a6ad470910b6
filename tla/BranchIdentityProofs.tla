------------------------ MODULE BranchIdentityProofs ------------------------
(***************************************************************************)
(* BranchIdentity for every set of connections, branches and names: when    *)
(* the branches that come and go (Transient) collide with no other branch,  *)
(* no two connections of existing branches share a database, although a     *)
(* branch is checked once, outside branchCheckMu, against a listing that    *)
(* may be out of date when the check is remembered.                         *)
(***************************************************************************)
EXTENDS BranchIdentity, TLAPS

(* The hypothesis: a branch that is deleted or unborn shares no identifier. *)
TransientsCollideWithNone ==
  \A b \in Transient, d \in Branch : d # b => Sanitized[d] # Sanitized[b]

(* The branches that Git or the proxy may come back to.                     *)
Known(b) ==
  \/ b \in {head, rebasing, Main}
  \/ b \in branchChecks
  \/ \E c \in Conn : branch[c] = b

(* The branches that have passed the check, remembered or not yet.          *)
Passed(b) ==
  \/ b \in branchChecks
  \/ \E c \in Conn : pc[c] \in {"unique", "serving"} /\ branch[c] = b

(* A branch that is not transient exists from the moment it is first known. *)
SettledExist == \A b \in Branch \ Transient : Known(b) => b \in branches

(* The branches that have passed have different databases.                  *)
PassedIsolated ==
  \A b, d \in branches :
    Passed(b) /\ Passed(d) /\ Sanitized[b] = Sanitized[d] => b = d

(* The inductive invariant.  NoSharedDatabase alone is not inductive: the   *)
(* next connection may pass because of what is remembered.                  *)
IInv == TypeOK /\ SettledExist /\ PassedIsolated

(* Only the first branch is known at first, and nothing has passed.         *)
LEMMA InitIInv == Init => IInv
  <1> SUFFICES ASSUME Init PROVE IInv
    OBVIOUS
  <1>1. TypeOK
    BY MainAssumption DEF Init, TypeOK
  <1>2. SettledExist
    BY DetachedAssumption DEF Init, SettledExist, Known
  <1>3. PassedIsolated
    BY DEF Init, PassedIsolated, Passed
  <1> QED
    BY <1>1, <1>2, <1>3 DEF IInv

(* Every action keeps the types.                                            *)
LEMMA NextTypeOK == TypeOK /\ [Next]_vars => TypeOK'
  <1> SUFFICES ASSUME TypeOK, [Next]_vars PROVE TypeOK'
    OBVIOUS
  <1> USE DEF TypeOK, gitVars, proxyVars
  <1>1. CASE Developer
    <2>1. ASSUME NEW b \in Branch \cup {Detached}, GitCheckout(b) PROVE TypeOK'
      BY <2>1 DEF GitCheckout
    <2>2. ASSUME NEW b \in Branch, GitOrphan(b) PROVE TypeOK'
      BY <2>2 DEF GitOrphan
    <2>3. ASSUME NEW b \in Branch, GitCreate(b) PROVE TypeOK'
      BY <2>3 DEF GitCreate
    <2>4. ASSUME NEW b \in Branch, GitDelete(b) PROVE TypeOK'
      BY <2>4 DEF GitDelete
    <2>5. CASE GitRebase
      BY <2>5 DEF GitRebase
    <2>6. CASE GitRebaseEnds
      BY <2>6 DEF GitRebaseEnds
    <2> QED
      BY <1>1, <2>1, <2>2, <2>3, <2>4, <2>5, <2>6 DEF Developer
  <1>2. ASSUME NEW c \in Conn, Handler(c) PROVE TypeOK'
    <2> USE DEF Goto
    <2>1. CASE ReadHead(c)
      BY <2>1 DEF ReadHead
    <2>2. CASE ReadRebase(c)
      BY <2>2 DEF ReadRebase
    <2>3. CASE LookUpCheck(c)
      BY <2>3 DEF LookUpCheck
    <2>4. CASE CheckUnique(c)
      BY <2>4 DEF CheckUnique
    <2>5. CASE RememberCheck(c)
      BY <2>5 DEF RememberCheck
    <2>6. CASE Disconnect(c)
      BY <2>6, MainAssumption DEF Disconnect
    <2> QED
      BY <1>2, <2>1, <2>2, <2>3, <2>4, <2>5, <2>6 DEF Handler
  <1>3. CASE UNCHANGED vars
    BY <1>3 DEF vars
  <1> QED
    BY <1>1, <1>2, <1>3 DEF Next

(* No action makes a settled branch known before it exists.                 *)
LEMMA NextSettled == IInv /\ [Next]_vars => SettledExist'
  <1> SUFFICES ASSUME IInv, [Next]_vars,
                      NEW b \in Branch \ Transient, Known(b)'
               PROVE  b \in branches'
    BY DEF SettledExist
  <1> USE DEF IInv, TypeOK, SettledExist, Known, gitVars, proxyVars
  <1>1. CASE Developer
    <2>1. Known(b) \/ b \in branches
      <3>1. ASSUME NEW d \in Branch \cup {Detached}, GitCheckout(d) PROVE Known(b) \/ b \in branches
        BY <3>1, DetachedAssumption DEF GitCheckout
      <3>2. ASSUME NEW d \in Branch, GitOrphan(d) \/ GitCreate(d) \/ GitDelete(d)
            PROVE  Known(b) \/ b \in branches
        BY <3>2 DEF GitOrphan, GitCreate, GitDelete
      <3>3. CASE GitRebase \/ GitRebaseEnds
        BY <3>3, DetachedAssumption DEF GitRebase, GitRebaseEnds
      <3> QED
        BY <1>1, <3>1, <3>2, <3>3 DEF Developer
    <2>2. branches \ Transient \subseteq branches'
      BY <1>1 DEF Developer, GitCheckout, GitOrphan, GitCreate, GitDelete, GitRebase, GitRebaseEnds
    <2> QED
      BY <2>1, <2>2
  <1>2. ASSUME NEW c \in Conn, Handler(c) PROVE b \in branches'
    <2>1. UNCHANGED gitVars
      BY <1>2 DEF Handler, ReadHead, ReadRebase, LookUpCheck, CheckUnique, RememberCheck, Disconnect
    <2>2. \A d \in Conn : branch'[d] = branch[d] \/ branch'[d] \in {head, rebasing, Main}
      BY <1>2 DEF Handler, ReadHead, ReadRebase, LookUpCheck, CheckUnique, RememberCheck, Disconnect
    <2>3. branchChecks' \subseteq branchChecks \cup {branch[c]}
      BY <1>2 DEF Handler, ReadHead, ReadRebase, LookUpCheck, CheckUnique, RememberCheck, Disconnect
    <2> QED
      BY <2>1, <2>2, <2>3
  <1>3. CASE UNCHANGED vars
    BY <1>3 DEF vars
  <1> QED
    BY <1>1, <1>2, <1>3 DEF Next

(* A handler passes only a branch that is remembered, or that collides with *)
(* no branch that exists at the time of the listing.                        *)
LEMMA HandlerPasses ==
  ASSUME TypeOK, NEW c \in Conn, Handler(c), NEW b, Passed(b)'
  PROVE  Passed(b) \/ (b = branch[c] /\ Unique(b))
  <1> USE DEF TypeOK, Passed, Goto, gitVars
  <1>1. CASE ReadHead(c)
    BY <1>1 DEF ReadHead
  <1>2. CASE ReadRebase(c)
    BY <1>2 DEF ReadRebase
  <1>3. CASE LookUpCheck(c)
    BY <1>3 DEF LookUpCheck
  <1>4. CASE CheckUnique(c)
    BY <1>4 DEF CheckUnique
  <1>5. CASE RememberCheck(c)
    BY <1>5 DEF RememberCheck
  <1>6. CASE Disconnect(c)
    BY <1>6 DEF Disconnect
  <1> QED
    BY <1>1, <1>2, <1>3, <1>4, <1>5, <1>6 DEF Handler

(* What has passed stays isolated: a branch created later has not passed    *)
(* yet, or collides with none; a branch that passes now was compared with   *)
(* every branch there is.                                                   *)
LEMMA NextIsolated ==
  ASSUME TransientsCollideWithNone, IInv, [Next]_vars
  PROVE  PassedIsolated'
  <1> SUFFICES ASSUME NEW b \in branches', NEW d \in branches',
                      Passed(b)', Passed(d)', Sanitized[b] = Sanitized[d]
               PROVE  b = d
    BY DEF PassedIsolated
  <1>1. CASE Developer
    <2>1. UNCHANGED proxyVars
      BY <1>1 DEF Developer, GitCheckout, GitOrphan, GitCreate, GitDelete, GitRebase, GitRebaseEnds
    <2>2. Passed(b) /\ Passed(d)
      BY <2>1 DEF Passed, proxyVars
    <2>3. b \in Branch /\ d \in Branch
      BY NextTypeOK DEF IInv, TypeOK
    <2>4. ASSUME NEW x \in {b, d}, x \notin branches PROVE x \in Transient
      BY <2>2, <2>3, <2>4 DEF IInv, SettledExist, Known, Passed
    <2>5. CASE b \in branches /\ d \in branches
      BY <2>2, <2>5 DEF IInv, PassedIsolated
    <2>6. CASE b \notin branches \/ d \notin branches
      BY <2>3, <2>4, <2>6 DEF TransientsCollideWithNone
    <2> QED
      BY <2>5, <2>6
  <1>2. ASSUME NEW c \in Conn, Handler(c) PROVE b = d
    <2>1. branches' = branches
      BY <1>2 DEF Handler, ReadHead, ReadRebase, LookUpCheck, CheckUnique, RememberCheck,
                  Disconnect, gitVars
    <2>2. /\ Passed(b) \/ (b = branch[c] /\ Unique(b))
          /\ Passed(d) \/ (d = branch[c] /\ Unique(d))
      BY <1>2, HandlerPasses DEF IInv
    <2> QED
      BY <2>1, <2>2 DEF IInv, PassedIsolated, Unique
  <1>3. CASE UNCHANGED vars
    BY <1>3 DEF vars, gitVars, IInv, PassedIsolated, Passed
  <1> QED
    BY <1>2, <1>1, <1>3 DEF Next

-----------------------------------------------------------------------------
(* Handlers and Git keep to their types, and every branch the proxy can be  *)
(* routed to, other than a transient one, exists (ResolveCurrentBranch).    *)
THEOREM TypeCorrect == Spec => []TypeOK
  <1>1. Init => TypeOK
    BY InitIInv DEF IInv
  <1> QED
    BY <1>1, NextTypeOK, PTL DEF Spec

(* No two connections of existing branches share a database, for every set  *)
(* of branches and every many-to-one SanitizeBranchName, provided that the  *)
(* branches that are deleted or unborn collide with none.                   *)
THEOREM Isolation ==
  ASSUME TransientsCollideWithNone
  PROVE  Spec => []NoSharedDatabase
  <1>1. Init => IInv
    BY InitIInv
  <1>2. IInv /\ [Next]_vars => IInv'
    BY NextTypeOK, NextSettled, NextIsolated DEF IInv
  <1>3. IInv => NoSharedDatabase
    BY DEF IInv, PassedIsolated, Passed, NoSharedDatabase
  <1> QED
    BY <1>1, <1>2, <1>3, PTL DEF Spec
=============================================================================
