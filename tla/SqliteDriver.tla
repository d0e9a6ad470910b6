---------------------------- MODULE SqliteDriver ----------------------------
(***************************************************************************)
(* internal/driver/sqlite/sqlite.go and clone_linux.go: branches as files.  *)
(* CreateBranch looks at the source, asks SQLite for a checkpoint, looks    *)
(* for the target's files, reserves the target with a marker file, copies,  *)
(* looks at the source again and removes the marker.  Several processes do  *)
(* so on one directory; inside a process SqliteDriver.mu serializes         *)
(* CreateBranch and DeleteBranch, but not BranchExists.  A process can die  *)
(* between any two steps.                                                   *)
(*                                                                          *)
(* The source is the base database, as with all callers, in a rollback      *)
(* journal mode.  An application writes to it meanwhile: SQLite holds its   *)
(* exclusive lock from the first page it writes to the commit, and rolls a  *)
(* dead writer back when the file is next read.  Of SQLite the model has    *)
(* that much; a change of the file shows in its size or modification time.  *)
(* What applications write to the branches themselves is left out.          *)
(***************************************************************************)
EXTENDS Integers

CONSTANTS
  Process,     \* operating system processes
  Thread,      \* goroutines that call the driver
  ProcessOf,   \* ProcessOf[t]: the process of goroutine t
  Name,        \* sanitized branch names other than the default branch
  Page,        \* what a database file consists of, and is copied by
  MaxVersion,  \* bound: transactions committed on the base database
  Hole         \* a page that has not been copied yet

ASSUME ProcessAssumption == ProcessOf \in [Thread -> Process]
ASSUME VersionAssumption == MaxVersion \in Nat /\ Hole \notin Nat

VARIABLES
  base,     \* the pages of the base database: the transaction that wrote each
  version,  \* the last transaction committed on it
  writer,   \* the application that writes to it
  file,     \* the file of each branch: none, or its maker and its pages
  marked,   \* branches with a ".branchbase-copying" file
  leftover, \* history: branches whose half copy could not be removed
  pc,       \* where each goroutine is in its call, or how the call ended
  target,   \* the branch of its call
  changed   \* goroutines since whose os.Stat the base database was written to

baseVars == <<base, version, writer>>
vars == <<baseVars, file, marked, leftover, pc, target, changed>>

(* CreateBranch up to the reservation; with the marker; DeleteBranch;       *)
(* BranchExists; endings.                                                   *)
Preparing == {"checkpoint", "inspect", "reserve"}
Copying   == {"clone", "reflink", "chunks", "verify", "recheck"}
Marking   == Copying \cup {"cleanup", "unmark", "undo"}
InMu      == Preparing \cup Marking \cup {"remove"}
Waiting   == {"createLock", "deleteLock", "lookMarker", "lookFile"}
Ended     == {"created", "deleted", "exists", "missing", "failed"}

Pages == [Page -> 0..MaxVersion \cup {Hole}]
Files == [maker : Process, pages : Pages]

TypeOK ==
  /\ base \in [Page -> 0..MaxVersion]
  /\ version \in 0..MaxVersion
  /\ writer \in {"none", "writing", "dead"}
  /\ file \in [Name -> SUBSET Files] /\ \A n \in Name : \A f, g \in file[n] : f = g
  /\ marked \in SUBSET Name
  /\ leftover \in SUBSET Name
  /\ pc \in [Thread -> InMu \cup Waiting \cup Ended]
  /\ target \in [Thread -> Name]
  /\ changed \in SUBSET Thread

Init ==
  /\ base = [pg \in Page |-> 0] /\ version = 0 /\ writer = "none"
  /\ file = [n \in Name |-> {}]
  /\ marked = {} /\ leftover = {}
  /\ pc = [t \in Thread |-> "failed"]
  /\ target \in [Thread -> Name]
  /\ changed = {}

Goto(t, phase) == pc' = [pc EXCEPT ![t] = phase]
Move(t, from, to) == pc[t] = from /\ Goto(t, to)
Put(n, f) == file' = [file EXCEPT ![n] = f]

(* The base database is written to: whoever has looked at it, and will look *)
(* again, will see that.  (Two writes within the granularity of the file    *)
(* system's clock, which leave the size as it is, would go unseen.)         *)
Touched == changed' = {t \in Thread : pc[t] \in (Preparing \cup Copying) \ {"recheck"}}

-----------------------------------------------------------------------------
(* An application's transaction on the base database: the first page needs  *)
(* the exclusive lock; the commit gives it back.  It may die on the way.    *)
WriterBegins ==
  /\ writer = "none" /\ version < MaxVersion
  /\ writer' = "writing"
  /\ UNCHANGED <<base, version, file, marked, leftover, pc, target, changed>>

WriterWrites(pg) ==
  /\ writer = "writing" /\ base[pg] = version
  /\ base' = [base EXCEPT ![pg] = version + 1]
  /\ Touched
  /\ UNCHANGED <<version, writer, file, marked, leftover, pc, target>>

WriterCommits ==
  /\ writer = "writing" /\ \A pg \in Page : base[pg] = version + 1
  /\ version' = version + 1
  /\ writer' = "none"
  /\ UNCHANGED <<base, file, marked, leftover, pc, target, changed>>

WriterDies ==
  /\ writer = "writing"
  /\ writer' = "dead"
  /\ UNCHANGED <<base, version, file, marked, leftover, pc, target, changed>>

(* SQLite reads the file: not while it is being written to, and after       *)
(* rolling back what a dead writer has left.                                *)
SqliteReads ==
  \/ writer = "none" /\ UNCHANGED <<baseVars, changed>>
  \/ /\ writer = "dead"
     /\ base' = [pg \in Page |-> version]
     /\ writer' = "none"
     /\ Touched
     /\ UNCHANGED version

-----------------------------------------------------------------------------
(* A goroutine calls an operation.                                          *)
Call(t, n) ==
  /\ pc[t] \in Ended
  /\ \E entry \in {"createLock", "deleteLock", "lookMarker"} : Goto(t, entry)
  /\ target' = [target EXCEPT ![t] = n]
  /\ UNCHANGED <<baseVars, file, marked, leftover, changed>>

(* Mutant of MuFree: there is no mutex in the driver.                       *)
NoMu(t) == TRUE

(* No goroutine of the same process holds SqliteDriver.mu.                  *)
MuFree(t) == \A u \in Thread : ProcessOf[u] = ProcessOf[t] => pc[u] \notin InMu

(* CreateBranch locks mu and calls os.Stat on the source.                   *)
CreateLocks(t) ==
  /\ MuFree(t)
  /\ Move(t, "createLock", "checkpoint")
  /\ changed' = changed \ {t}
  /\ UNCHANGED <<baseVars, file, marked, leftover, target>>

(* checkpointSQLite: in a rollback journal mode, a read of the schema.      *)
Checkpoint(t) ==
  /\ Move(t, "checkpoint", "inspect")
  /\ SqliteReads
  /\ UNCHANGED <<file, marked, leftover, target>>

(* The target is not there; its sidecar files are not either.               *)
Inspect(t) ==
  /\ Move(t, "inspect", "reserve")
  /\ file[target[t]] = {}
  /\ UNCHANGED <<baseVars, file, marked, leftover, target, changed>>

(* Mutant of Reserve: the marker is opened without O_EXCL.                  *)
ReserveShared(t) ==
  /\ Move(t, "reserve", "clone") \/ Move(t, "reserve", "failed")
  /\ marked' = marked \cup {target[t]}
  /\ UNCHANGED <<baseVars, file, leftover, target, changed>>

(* The marker is created with O_EXCL.  If it can then neither be closed nor *)
(* removed, it stays behind.                                                *)
Reserve(t) ==
  /\ Move(t, "reserve", "clone") \/ Move(t, "reserve", "failed")
  /\ target[t] \notin marked
  /\ marked' = marked \cup {target[t]}
  /\ UNCHANGED <<baseVars, file, leftover, target, changed>>

(* Something failed before there was a marker.                              *)
PreparationFails(t) ==
  /\ pc[t] \in Preparing
  /\ Goto(t, "failed")
  /\ changed' = changed \ {t}
  /\ UNCHANGED <<baseVars, file, marked, leftover, target>>

NewFile(t) == [maker |-> ProcessOf[t], pages |-> [pg \in Page |-> Hole]]

(* Mutant of OpenTarget: without O_TRUNC, what was there stays.             *)
OpenUntruncated(t) ==
  /\ Move(t, "clone", "reflink") \/ Move(t, "reflink", "chunks")
  /\ Put(target[t], file[target[t]] \cup {NewFile(t)})
  /\ leftover' = leftover \ {target[t]}
  /\ UNCHANGED <<baseVars, marked, target, changed>>

(* CloneFile opens the target, which creates or truncates it; once more, in *)
(* copyFileChunked, if the file system has no reflinks.                     *)
OpenTarget(t) ==
  /\ Move(t, "clone", "reflink") \/ Move(t, "reflink", "chunks")
  /\ Put(target[t], {NewFile(t)})
  /\ leftover' = leftover \ {target[t]}
  /\ UNCHANGED <<baseVars, marked, target, changed>>

(* What is written when the file has been removed under the copier has no   *)
(* name any more.                                                           *)
WriteTarget(t, pages) ==
  Put(target[t], {[f EXCEPT !.pages = pages] : f \in file[target[t]]})

(* FICLONE shares all pages at once.                                        *)
Reflink(t) ==
  /\ Move(t, "reflink", "verify")
  /\ WriteTarget(t, base)
  /\ UNCHANGED <<baseVars, marked, leftover, target, changed>>

CopyPage(t, pg) ==
  /\ pc[t] = "chunks"
  /\ \E f \in file[target[t]] :
       f.pages[pg] = Hole /\ WriteTarget(t, [f.pages EXCEPT ![pg] = base[pg]])
  /\ UNCHANGED <<baseVars, marked, leftover, pc, target, changed>>

ChunksDone(t) ==
  /\ Move(t, "chunks", "verify")
  /\ \A f \in file[target[t]], pg \in Page : f.pages[pg] # Hole
  /\ UNCHANGED <<baseVars, file, marked, leftover, target, changed>>

(* Mutant of Verify: the source is not looked at again.                     *)
VerifyNothing(t) ==
  /\ Move(t, "verify", "recheck")
  /\ UNCHANGED <<baseVars, file, marked, leftover, target, changed>>

(* Size and time of the source are those of the first os.Stat.              *)
Verify(t) ==
  /\ Move(t, "verify", "recheck")
  /\ t \notin changed
  /\ UNCHANGED <<baseVars, file, marked, leftover, target, changed>>

(* The second checkpoint.                                                   *)
Recheck(t) ==
  /\ Move(t, "recheck", "unmark")
  /\ SqliteReads
  /\ UNCHANGED <<file, marked, leftover, target>>

(* Copying or verifying failed: the target is removed.                      *)
CopyFails(t) ==
  /\ pc[t] \in Copying
  /\ Goto(t, "cleanup")
  /\ changed' = changed \ {t}
  /\ UNCHANGED <<baseVars, file, marked, leftover, target>>

CleanUp(t) ==
  /\ Move(t, "cleanup", "undo")
  /\ \/ Put(target[t], {}) /\ leftover' = leftover \ {target[t]}
     \/ leftover' = leftover \cup {target[t]} /\ UNCHANGED file
  /\ UNCHANGED <<baseVars, marked, target, changed>>

(* The deferred removal of the marker; it can fail, and then so does the    *)
(* call.                                                                    *)
Unmark(t) ==
  /\ \/ Move(t, "unmark", "created") /\ marked' = marked \ {target[t]}
     \/ Move(t, "undo", "failed") /\ marked' = marked \ {target[t]}
     \/ pc[t] \in {"unmark", "undo"} /\ Goto(t, "failed") /\ UNCHANGED marked
  /\ UNCHANGED <<baseVars, file, leftover, target, changed>>

-----------------------------------------------------------------------------
(* DeleteBranch locks mu and looks for a marker.                            *)
DeleteLocks(t) ==
  /\ MuFree(t)
  /\ Move(t, "deleteLock", IF target[t] \in marked THEN "failed" ELSE "remove")
  /\ UNCHANGED <<baseVars, file, marked, leftover, target, changed>>

(* The file is removed, or there was none; its sidecars go too.             *)
Remove(t) ==
  /\ \/ /\ Move(t, "remove", "deleted")
        /\ Put(target[t], {}) /\ leftover' = leftover \ {target[t]}
     \/ Move(t, "remove", "failed") /\ UNCHANGED <<file, leftover>>
  /\ UNCHANGED <<baseVars, marked, target, changed>>

(* BranchExists looks for the marker, and then for the file; either os.Stat *)
(* may fail.                                                                *)
LookMarker(t) ==
  /\ \E answer \in {"failed", IF target[t] \in marked THEN "missing" ELSE "lookFile"} :
       Move(t, "lookMarker", answer)
  /\ UNCHANGED <<baseVars, file, marked, leftover, target, changed>>

LookFile(t) ==
  /\ \E answer \in {"failed", IF file[target[t]] = {} THEN "missing" ELSE "exists"} :
       Move(t, "lookFile", answer)
  /\ UNCHANGED <<baseVars, file, marked, leftover, target, changed>>

(* A process dies, and starts again.                                        *)
Crash(q) ==
  /\ pc' = [t \in Thread |-> IF ProcessOf[t] = q THEN "failed" ELSE pc[t]]
  /\ changed' = {t \in changed : ProcessOf[t] # q}
  /\ UNCHANGED <<baseVars, file, marked, leftover, target>>

Driver(t) ==
  \/ CreateLocks(t) \/ Checkpoint(t) \/ Inspect(t) \/ Reserve(t) \/ PreparationFails(t)
  \/ OpenTarget(t) \/ Reflink(t) \/ (\E pg \in Page : CopyPage(t, pg)) \/ ChunksDone(t)
  \/ Verify(t) \/ Recheck(t) \/ CopyFails(t) \/ CleanUp(t) \/ Unmark(t)
  \/ DeleteLocks(t) \/ Remove(t) \/ LookMarker(t) \/ LookFile(t)

Application ==
  \/ WriterBegins \/ (\E pg \in Page : WriterWrites(pg)) \/ WriterCommits \/ WriterDies

Next ==
  \/ Application
  \/ \E t \in Thread : Driver(t) \/ \E n \in Name : Call(t, n)
  \/ \E q \in Process : Crash(q)

Spec == Init /\ [][Next]_vars

-----------------------------------------------------------------------------
(* The marker is held by one copier at a time, in whatever process, and     *)
(* also after a copier has died holding it: "Mutual exclusion is safely     *)
(* guaranteed by copyMarker" (sqlite.go:185).                               *)
OneCopier ==
  /\ \A t \in Thread : pc[t] \in Marking => target[t] \in marked
  /\ \A t, u \in Thread :
       pc[t] \in Marking /\ pc[u] \in Marking /\ target[t] = target[u] => t = u

(* The pages of one committed transaction.                                  *)
Snapshot(pages) == \E v \in 0..version : \A pg \in Page : pages[pg] = v

(* "Enforced PRAGMA wal_checkpoint(TRUNCATE) before snapshotting to ensure  *)
(* consistent database copies" (CHANGELOG.md:29): a branch file that no     *)
(* marker hides is the base database as some transaction left it: no half   *)
(* of a copy, whoever died, and no mixture of two transactions, and nothing *)
(* that was rolled back.  Only a half copy whose removal failed is left out *)
(* (sqlite.go:187: the error of os.Remove is reported, the marker goes).    *)
UnmarkedIsSnapshot ==
  \A n \in Name \ (marked \cup leftover) : \A f \in file[n] : Snapshot(f.pages)

(* Within a process nobody's branch is overwritten: what CreateBranch       *)
(* truncates was not made, after it had looked, by a goroutine of its own   *)
(* process, because mu is held from the look to the end.                    *)
NoOverwriteWithinProcess ==
  [][\A t \in Thread :
       pc[t] = "clone" /\ pc'[t] = "reflink" =>
         \A f \in file[target[t]] : f.maker # ProcessOf[t]]_vars

-----------------------------------------------------------------------------
(* A statement of the code that it does not keep.                           *)

(* "refusing to overwrite existing SQLite branch artifact" (sqlite.go:163): *)
(* CreateBranch never truncates a whole branch database.  It looks for the  *)
(* file before it has the marker, so another process can make the branch,   *)
(* and remove its marker, in between.                                       *)
OverwritesNothing ==
  [][\A t \in Thread :
       pc[t] = "clone" /\ pc'[t] = "reflink" =>
         \A f \in file[target[t]] : ~Snapshot(f.pages)]_vars
=============================================================================
