------------------------- MODULE SqliteDriverProofs -------------------------
(***************************************************************************)
(* SqliteDriver for every set of processes, goroutines, names and pages:    *)
(* the marker is held by one copier at a time, a branch file that no marker *)
(* hides is a snapshot of the base database, and within a process nobody's  *)
(* branch is overwritten.                                                   *)
(***************************************************************************)
EXTENDS SqliteDriver, TLAPS

(* mu admits one goroutine of a process.                                    *)
MuExclusive ==
  \A t, u \in Thread :
    pc[t] \in InMu /\ pc[u] \in InMu /\ ProcessOf[t] = ProcessOf[u] => t = u

(* SQLite's exclusive lock: the file is as committed, or somebody writes.   *)
BaseExact ==
  /\ writer = "none" => \A pg \in Page : base[pg] = version
  /\ writer # "none" => version < MaxVersion /\ \A pg \in Page : base[pg] \in {version, version + 1}

(* Between its two looks at the source, a goroutine that will find no       *)
(* change copies from a source that is as committed.                        *)
SourceExact ==
  \A t \in Thread :
    pc[t] \in {"inspect", "reserve", "clone", "reflink", "chunks", "verify"} /\ t \notin changed =>
      \A pg \in Page : base[pg] = version

(* What the copier has written so far.                                      *)
CopyExact ==
  \A t \in Thread : \A f \in file[target[t]] :
    /\ pc[t] = "chunks" /\ t \notin changed => \A pg \in Page : f.pages[pg] \in {Hole, version}
    /\ pc[t] = "verify" /\ t \notin changed => \A pg \in Page : f.pages[pg] = version
    /\ pc[t] \in {"recheck", "unmark"} => Snapshot(f.pages)
    /\ pc[t] = "undo" => target[t] \in leftover

(* What is in the place of a target that was not there is another process's. *)
MadeElsewhere ==
  \A t \in Thread : pc[t] \in {"reserve", "clone"} =>
    \A f \in file[target[t]] : f.maker # ProcessOf[t]

IInv ==
  /\ TypeOK /\ MuExclusive /\ BaseExact /\ OneCopier
  /\ SourceExact /\ CopyExact /\ UnmarkedIsSnapshot /\ MadeElsewhere

-----------------------------------------------------------------------------
LEMMA InitIInv == Init => IInv
  BY ProcessAssumption, VersionAssumption
  DEF Init, IInv, TypeOK, MuExclusive, BaseExact, OneCopier, SourceExact, CopyExact,
      UnmarkedIsSnapshot, MadeElsewhere, Snapshot, InMu, Preparing, Copying, Marking,
      Waiting, Ended

LEMMA NewFileType ==
  ASSUME NEW t \in Thread
  PROVE  NewFile(t) \in Files
  BY ProcessAssumption DEF NewFile, Files, Pages

(* The bound on versions holds because a writer begins below it.            *)
LEMMA NextTypeOK == TypeOK /\ BaseExact /\ [Next]_vars => TypeOK'
  <1> SUFFICES ASSUME TypeOK, BaseExact, [Next]_vars PROVE TypeOK'
    OBVIOUS
  <1> USE ProcessAssumption, VersionAssumption
      DEF TypeOK, InMu, Preparing, Copying, Marking, Waiting, Ended, Goto, Move, baseVars
  <1>1. CASE Application
    BY <1>1 DEF Application, WriterBegins, WriterWrites, WriterCommits, WriterDies, Touched, BaseExact
  <1>2. ASSUME NEW t \in Thread, Driver(t) PROVE TypeOK'
    <2>1. CASE CreateLocks(t)
      BY <2>1 DEF CreateLocks
    <2>2. CASE Checkpoint(t)
      BY <2>2 DEF Checkpoint, SqliteReads, Touched
    <2>3. CASE Inspect(t)
      BY <2>3 DEF Inspect
    <2>4. CASE Reserve(t)
      BY <2>4 DEF Reserve
    <2>5. CASE PreparationFails(t)
      BY <2>5 DEF PreparationFails
    <2>6. CASE OpenTarget(t)
      BY <2>6, NewFileType DEF OpenTarget, Put
    <2>7. CASE Reflink(t)
      BY <2>7 DEF Reflink, WriteTarget, Put, Files, Pages
    <2>8. ASSUME NEW pg \in Page, CopyPage(t, pg) PROVE TypeOK'
      <3>1. PICK f \in file[target[t]] : WriteTarget(t, [f.pages EXCEPT ![pg] = base[pg]])
        BY <2>8 DEF CopyPage
      <3>2. f \in Files /\ [f.pages EXCEPT ![pg] = base[pg]] \in Pages
        BY DEF Files, Pages
      <3> QED
        BY <2>8, <3>1, <3>2 DEF CopyPage, WriteTarget, Put, Files
    <2>9. CASE ChunksDone(t)
      BY <2>9 DEF ChunksDone
    <2>10. CASE Verify(t)
      BY <2>10 DEF Verify
    <2>11. CASE Recheck(t)
      BY <2>11 DEF Recheck, SqliteReads, Touched
    <2>12. CASE CopyFails(t)
      BY <2>12 DEF CopyFails
    <2>13. CASE CleanUp(t)
      BY <2>13 DEF CleanUp, Put
    <2>14. CASE Unmark(t)
      BY <2>14 DEF Unmark
    <2>15. CASE DeleteLocks(t)
      BY <2>15 DEF DeleteLocks
    <2>16. CASE Remove(t)
      BY <2>16 DEF Remove, Put
    <2>17. CASE LookMarker(t) \/ LookFile(t)
      BY <2>17 DEF LookMarker, LookFile
    <2> QED
      BY <1>2, <2>1, <2>2, <2>3, <2>4, <2>5, <2>6, <2>7, <2>8, <2>9, <2>10, <2>11, <2>12,
         <2>13, <2>14, <2>15, <2>16, <2>17 DEF Driver
  <1>3. ASSUME NEW t \in Thread, NEW n \in Name, Call(t, n) PROVE TypeOK'
    BY <1>3 DEF Call
  <1>4. ASSUME NEW q \in Process, Crash(q) PROVE TypeOK'
    BY <1>4 DEF Crash
  <1>5. CASE UNCHANGED vars
    BY <1>5 DEF vars
  <1> QED
    BY <1>1, <1>2, <1>3, <1>4, <1>5 DEF Next

-----------------------------------------------------------------------------
(* The base database is written to by applications, and by SQLite when it   *)
(* rolls back; nothing else of the driver concerns it.                      *)
LEMMA DriverLeavesBase ==
  ASSUME NEW t \in Thread, Driver(t)
  PROVE  UNCHANGED baseVars \/ SqliteReads
  BY DEF Driver, CreateLocks, Checkpoint, Inspect, Reserve, PreparationFails, OpenTarget, Reflink,
         CopyPage, ChunksDone, Verify, Recheck, CopyFails, CleanUp, Unmark, DeleteLocks, Remove,
         LookMarker, LookFile

LEMMA NextBaseExact == TypeOK /\ BaseExact /\ [Next]_vars => BaseExact'
  <1> SUFFICES ASSUME TypeOK, BaseExact, [Next]_vars PROVE BaseExact'
    OBVIOUS
  <1> USE DEF TypeOK, BaseExact
  <1>1. CASE Application
    BY <1>1, VersionAssumption DEF Application, WriterBegins, WriterWrites, WriterCommits, WriterDies
  <1>2. CASE UNCHANGED baseVars
    BY <1>2 DEF baseVars
  <1>3. CASE SqliteReads
    BY <1>2, <1>3 DEF SqliteReads, baseVars
  <1>4. ASSUME NEW t \in Thread, Driver(t) PROVE BaseExact'
    BY <1>2, <1>3, <1>4, DriverLeavesBase
  <1> QED
    BY <1>1, <1>2, <1>4 DEF Next, Call, Crash, vars

(* A step is one goroutine's: the others stay where they are.               *)
LEMMA OthersStay ==
  ASSUME TypeOK, NEW t \in Thread, Driver(t) \/ \E n \in Name : Call(t, n)
  PROVE  /\ \A u \in Thread \ {t} : pc'[u] = pc[u] /\ target'[u] = target[u]
         /\ Driver(t) => target' = target
  BY DEF TypeOK, Driver, CreateLocks, Checkpoint, Inspect, Reserve, PreparationFails, OpenTarget,
         Reflink, CopyPage, ChunksDone, Verify, Recheck, CopyFails, CleanUp, Unmark, DeleteLocks,
         Remove, LookMarker, LookFile, Call, Goto, Move

LEMMA NextMuExclusive == TypeOK /\ MuExclusive /\ [Next]_vars => MuExclusive'
  <1> SUFFICES ASSUME TypeOK, MuExclusive, [Next]_vars PROVE MuExclusive'
    OBVIOUS
  <1> USE DEF TypeOK, MuExclusive
  <1>1. ASSUME NEW t \in Thread, Driver(t) PROVE MuExclusive'
    <2>1. pc'[t] \in InMu => pc[t] \in InMu \/ MuFree(t)
      BY <1>1 DEF Driver, CreateLocks, Checkpoint, Inspect, Reserve, PreparationFails, OpenTarget,
                  Reflink, CopyPage, ChunksDone, Verify, Recheck, CopyFails, CleanUp, Unmark,
                  DeleteLocks, Remove, LookMarker, LookFile, Goto, Move, InMu, Preparing, Copying,
                  Marking
    <2> QED
      BY <1>1, <2>1, OthersStay DEF MuFree
  <1>2. ASSUME NEW t \in Thread, NEW n \in Name, Call(t, n) PROVE MuExclusive'
    <2>1. pc'[t] \notin InMu
      BY <1>2 DEF Call, Goto, InMu, Preparing, Copying, Marking
    <2> QED
      BY <1>2, <2>1, OthersStay
  <1>3. ASSUME NEW q \in Process, Crash(q) PROVE MuExclusive'
    BY <1>3 DEF Crash, InMu, Preparing, Copying, Marking
  <1>4. CASE Application \/ UNCHANGED vars
    BY <1>4 DEF Application, WriterBegins, WriterWrites, WriterCommits, WriterDies, vars
  <1> QED
    BY <1>1, <1>2, <1>3, <1>4 DEF Next

(* The marker comes with O_EXCL and goes with the copier that made it.      *)
LEMMA NextOneCopier == TypeOK /\ OneCopier /\ [Next]_vars => OneCopier'
  <1> SUFFICES ASSUME TypeOK, OneCopier, [Next]_vars PROVE OneCopier'
    OBVIOUS
  <1> USE DEF TypeOK, OneCopier
  <1>1. ASSUME NEW t \in Thread, Driver(t) PROVE OneCopier'
    <2> USE OthersStay, <1>1
    <2>1. CASE Reserve(t)
      BY <2>1 DEF Reserve, Goto, Move, Marking, Copying
    <2>2. CASE Unmark(t)
      BY <2>2 DEF Unmark, Goto, Move, Marking, Copying
    <2>3. CASE ~Reserve(t) /\ ~Unmark(t)
      <3>1. marked' = marked
        BY <2>3 DEF Driver, CreateLocks, Checkpoint, Inspect, PreparationFails, OpenTarget,
                    Reflink, CopyPage, ChunksDone, Verify, Recheck, CopyFails, CleanUp,
                    DeleteLocks, Remove, LookMarker, LookFile
      <3>2. pc'[t] \in Marking => pc[t] \in Marking
        BY <2>3 DEF Driver, CreateLocks, Checkpoint, Inspect, PreparationFails, OpenTarget,
                    Reflink, CopyPage, ChunksDone, Verify, Recheck, CopyFails, CleanUp,
                    DeleteLocks, Remove, LookMarker, LookFile, Goto, Move, Marking, Copying,
                    Preparing
      <3> QED
        BY <3>1, <3>2
    <2> QED
      BY <2>1, <2>2, <2>3
  <1>2. ASSUME NEW t \in Thread, NEW n \in Name, Call(t, n) PROVE OneCopier'
    <2>1. pc'[t] \notin Marking /\ marked' = marked
      BY <1>2 DEF Call, Goto, Copying, Marking
    <2> QED
      BY <1>2, <2>1, OthersStay
  <1>3. ASSUME NEW q \in Process, Crash(q) PROVE OneCopier'
    BY <1>3 DEF Crash, Copying, Marking
  <1>4. CASE Application \/ UNCHANGED vars
    BY <1>4 DEF Application, WriterBegins, WriterWrites, WriterCommits, WriterDies, vars
  <1> QED
    BY <1>1, <1>2, <1>3, <1>4 DEF Next

-----------------------------------------------------------------------------
(* What concerns the contents of files.                                     *)
FilesInv == SourceExact /\ CopyExact /\ UnmarkedIsSnapshot /\ MadeElsewhere

(* A snapshot remains one when a transaction is committed.                  *)
LEMMA SnapshotStays ==
  ASSUME TypeOK, version' = version \/ version' = version + 1, NEW pages, Snapshot(pages)
  PROVE  Snapshot(pages)'
  BY VersionAssumption DEF TypeOK, Snapshot

LEMMA ApplicationKeeps == IInv /\ Application => FilesInv'
  <1> SUFFICES ASSUME IInv, Application PROVE FilesInv'
    OBVIOUS
  <1>f. UNCHANGED <<file, marked, leftover, pc, target>>
    BY DEF Application, WriterBegins, WriterWrites, WriterCommits, WriterDies
  <1>m. MadeElsewhere'
    BY <1>f DEF IInv, MadeElsewhere
  <1>1. CASE WriterBegins \/ WriterDies
    BY <1>1, <1>f, <1>m DEF IInv, FilesInv, SourceExact, CopyExact, UnmarkedIsSnapshot, Snapshot,
                            WriterBegins, WriterDies
  <1>2. ASSUME NEW pg \in Page, WriterWrites(pg) PROVE FilesInv'
    <2>1. version' = version /\ Touched
      BY <1>2 DEF WriterWrites
    <2>2. UnmarkedIsSnapshot'
      BY <1>f, <2>1 DEF IInv, UnmarkedIsSnapshot, Snapshot
    <2>3. SourceExact' /\ CopyExact'
      BY <1>f, <2>1 DEF IInv, SourceExact, CopyExact, Snapshot, Touched, Preparing, Copying
    <2> QED
      BY <1>m, <2>2, <2>3 DEF FilesInv
  <1>3. CASE WriterCommits
    <2>1. version' = version + 1 /\ UNCHANGED <<base, changed>>
      BY <1>3 DEF WriterCommits
    <2>2. \A pg \in Page : base[pg] = version + 1
      BY <1>3 DEF WriterCommits
    <2>3. version # version + 1
      BY VersionAssumption DEF IInv, TypeOK
    <2>4. UnmarkedIsSnapshot'
      BY <1>f, <2>1, SnapshotStays DEF IInv, UnmarkedIsSnapshot
    <2>5. SourceExact'
      BY <1>f, <2>1, <2>2 DEF SourceExact
    <2>6. ASSUME NEW t \in Thread, t \notin changed, pc[t] \in {"chunks", "verify"}, NEW pg \in Page
          PROVE  FALSE
      BY <2>2, <2>3, <2>6 DEF IInv, SourceExact
    <2>7. CopyExact'
      BY <1>f, <2>1, <2>6, SnapshotStays DEF IInv, CopyExact
    <2> QED
      BY <1>m, <2>4, <2>5, <2>7 DEF FilesInv
  <1> QED
    BY <1>1, <1>2, <1>3 DEF Application

(* A step that leaves the files and markers alone, moves one goroutine to a *)
(* phase nothing is claimed of, and forgets at most what it has seen.       *)
LEMMA QuietStep ==
  ASSUME IInv, NEW S \in SUBSET Thread, UNCHANGED <<baseVars, file, marked, leftover>>,
         \A u \in Thread \ S : pc'[u] = pc[u] /\ target'[u] = target[u] /\ (u \in changed' <=> u \in changed),
         \A t \in S : pc'[t] \in {"checkpoint", "cleanup", "remove"} \cup Waiting \cup Ended
  PROVE  FilesInv'
  BY DEF IInv, FilesInv, SourceExact, CopyExact, UnmarkedIsSnapshot, MadeElsewhere, Snapshot, Waiting,
         Ended, baseVars

LEMMA QuietDriver ==
  ASSUME IInv, NEW t \in Thread,
         \/ CreateLocks(t) \/ PreparationFails(t) \/ CopyFails(t) \/ DeleteLocks(t)
         \/ LookMarker(t) \/ LookFile(t) \/ \E n \in Name : Call(t, n)
  PROVE  FilesInv'
  <1>1. UNCHANGED <<baseVars, file, marked, leftover>>
    BY DEF CreateLocks, PreparationFails, CopyFails, DeleteLocks, LookMarker, LookFile, Call
  <1>2. \A u \in Thread \ {t} : pc'[u] = pc[u] /\ target'[u] = target[u]
    BY OthersStay DEF IInv, Driver
  <1>3. \A u \in Thread \ {t} : u \in changed' <=> u \in changed
    BY DEF CreateLocks, PreparationFails, CopyFails, DeleteLocks, LookMarker, LookFile, Call
  <1>4. \A u \in {t} : pc'[u] \in {"checkpoint", "cleanup", "remove"} \cup Waiting \cup Ended
    BY DEF IInv, TypeOK, CreateLocks, PreparationFails, CopyFails, DeleteLocks, LookMarker, LookFile,
           Call, Goto, Move, Waiting, Ended
  <1>5. {t} \in SUBSET Thread
    OBVIOUS
  <1> QED
    BY <1>1, <1>2, <1>3, <1>4, <1>5, QuietStep

(* SQLite's reading of the base database: t finds it as committed.          *)
LEMMA ReadingKeeps ==
  ASSUME IInv, NEW t \in Thread, Checkpoint(t) \/ Recheck(t)
  PROVE  FilesInv'
  <1>1. UNCHANGED <<file, marked, leftover, target, version>>
    BY DEF Checkpoint, Recheck, SqliteReads, baseVars
  <1>2. pc' = [pc EXCEPT ![t] = IF pc[t] = "checkpoint" THEN "inspect" ELSE "unmark"]
    BY DEF Checkpoint, Recheck, Move, Goto
  <1>3. pc[t] \in {"checkpoint", "recheck"}
    BY DEF Checkpoint, Recheck, Move
  <1>4. CASE writer = "none" /\ UNCHANGED <<baseVars, changed>>
    <2>1. SourceExact'
      BY <1>1, <1>2, <1>3, <1>4 DEF IInv, TypeOK, BaseExact, SourceExact, baseVars
    <2> QED
      BY <1>1, <1>2, <1>3, <1>4, <2>1
      DEF IInv, TypeOK, FilesInv, CopyExact, UnmarkedIsSnapshot, MadeElsewhere, Snapshot
  <1>5. CASE base' = [pg \in Page |-> version] /\ Touched
    <2>1. SourceExact'
      BY <1>1, <1>5 DEF SourceExact
    <2>2. \A u \in Thread : pc'[u] \in {"chunks", "verify"} => u \in changed'
      BY <1>2, <1>5 DEF IInv, TypeOK, Touched, Copying
    <2> QED
      BY <1>1, <1>2, <1>3, <1>5, <2>1, <2>2
      DEF IInv, TypeOK, FilesInv, CopyExact, UnmarkedIsSnapshot, MadeElsewhere, Snapshot
  <1> QED
    BY <1>4, <1>5 DEF Checkpoint, Recheck, SqliteReads

LEMMA InspectReserveKeep ==
  ASSUME IInv, NEW t \in Thread, Inspect(t) \/ Reserve(t)
  PROVE  FilesInv'
  <1>1. UNCHANGED <<baseVars, file, leftover, target, changed>>
    BY DEF Inspect, Reserve
  <1>2. marked \subseteq marked'
    BY DEF Inspect, Reserve
  <1>3. \A u \in Thread \ {t} : pc'[u] = pc[u]
    BY OthersStay DEF Driver, IInv
  <1>4. \/ pc[t] = "inspect" /\ pc'[t] = "reserve" /\ file[target[t]] = {}
        \/ pc[t] = "reserve" /\ pc'[t] \in {"clone", "failed"}
    BY DEF IInv, TypeOK, Inspect, Reserve, Move, Goto
  <1> QED
    BY <1>1, <1>2, <1>3, <1>4
    DEF IInv, FilesInv, SourceExact, CopyExact, UnmarkedIsSnapshot, MadeElsewhere, Snapshot, baseVars

(* A copier's steps concern nobody else who is at the same target: they     *)
(* have no marker, and are of another process if they have looked for the   *)
(* file.                                                                    *)
LEMMA CopierAlone ==
  ASSUME IInv, NEW t \in Thread, pc[t] \in Marking,
         NEW u \in Thread \ {t}, target[u] = target[t]
  PROVE  pc[u] \notin Marking /\ (pc[u] = "reserve" => ProcessOf[u] # ProcessOf[t])
  BY DEF IInv, OneCopier, MuExclusive, InMu, Preparing

(* t, which has the marker, makes one step; what it has copied is right if  *)
(* that is right for it.                                                    *)
LEMMA CopierStep ==
  ASSUME IInv, NEW t \in Thread, pc[t] \in Marking, Driver(t),
         UNCHANGED <<baseVars, marked, target, changed>>,
         \A n \in Name \ {target[t]} : file'[n] = file[n] /\ (n \in leftover' <=> n \in leftover),
         \A f \in file'[target[t]] :
           f.maker = ProcessOf[t] \/ \E g \in file[target[t]] : f.maker = g.maker,
         pc'[t] \in {"reflink", "chunks", "verify"} => pc[t] \in {"clone", "reflink", "chunks"},
         pc'[t] \in {"reflink", "chunks", "verify", "recheck", "undo"},
         \A f \in file'[target[t]] :
           /\ pc'[t] = "chunks" /\ t \notin changed => \A pg \in Page : f.pages[pg] \in {Hole, version}
           /\ pc'[t] = "verify" /\ t \notin changed => \A pg \in Page : f.pages[pg] = version
           /\ pc'[t] = "recheck" => Snapshot(f.pages)
           /\ pc'[t] = "undo" => target[t] \in leftover'
  PROVE  FilesInv'
  <1>1. \A u \in Thread \ {t} : pc'[u] = pc[u]
    BY OthersStay DEF IInv
  <1>2. target[t] \in marked
    BY DEF IInv, OneCopier
  <1>3. UnmarkedIsSnapshot'
    BY <1>2 DEF IInv, UnmarkedIsSnapshot, Snapshot, baseVars
  <1>4. SourceExact'
    BY <1>1 DEF IInv, SourceExact, baseVars
  <1>5. CopyExact'
    <2> SUFFICES ASSUME NEW u \in Thread, NEW f \in file'[target[u]]
                 PROVE  /\ pc'[u] = "chunks" /\ u \notin changed => \A pg \in Page : f.pages[pg] \in {Hole, version}
                        /\ pc'[u] = "verify" /\ u \notin changed => \A pg \in Page : f.pages[pg] = version
                        /\ pc'[u] \in {"recheck", "unmark"} => Snapshot(f.pages)
                        /\ pc'[u] = "undo" => target[u] \in leftover'
      BY DEF CopyExact, Snapshot, baseVars
    <2>1. CASE u = t
      BY <2>1
    <2>2. CASE u # t /\ target[u] = target[t]
      BY <1>1, <2>2, CopierAlone DEF Marking, Copying
    <2>3. CASE u # t /\ target[u] # target[t]
      BY <1>1, <2>3 DEF IInv, TypeOK, CopyExact
    <2> QED
      BY <2>1, <2>2, <2>3
  <1>6. MadeElsewhere'
    <2> SUFFICES ASSUME NEW u \in Thread, pc'[u] \in {"reserve", "clone"}, NEW f \in file'[target[u]]
                 PROVE  f.maker # ProcessOf[u]
      BY DEF MadeElsewhere
    <2>1. u # t
      OBVIOUS
    <2>2. CASE target[u] = target[t]
      <3>1. pc[u] = "reserve" /\ ProcessOf[u] # ProcessOf[t]
        BY <1>1, <2>1, <2>2, CopierAlone DEF Marking, Copying
      <3> QED
        BY <2>2, <3>1 DEF IInv, MadeElsewhere
    <2>3. CASE target[u] # target[t]
      BY <1>1, <2>1, <2>3 DEF IInv, TypeOK, MadeElsewhere
    <2> QED
      BY <2>2, <2>3
  <1> QED
    BY <1>3, <1>4, <1>5, <1>6 DEF FilesInv

(* The steps of a copier, from opening the target to removing it.           *)
CopierActs(t) ==
  \/ OpenTarget(t) \/ Reflink(t) \/ (\E pg \in Page : CopyPage(t, pg)) \/ ChunksDone(t)
  \/ Verify(t) \/ CleanUp(t)

LEMMA CopierKeeps ==
  ASSUME IInv, NEW t \in Thread, CopierActs(t)
  PROVE  FilesInv'
  <1> USE DEF IInv, TypeOK
  <1>d. Driver(t) /\ pc[t] \in Marking
    BY DEF Driver, CopierActs, OpenTarget, Reflink, CopyPage, ChunksDone, Verify, CleanUp, Move,
           Marking, Copying
  <1>u. UNCHANGED <<baseVars, marked, target, changed>>
    BY DEF CopierActs, OpenTarget, Reflink, CopyPage, ChunksDone, Verify, CleanUp
  <1>1. CASE OpenTarget(t)
    <2>1. pc[t] \in {"clone", "reflink"} /\ pc'[t] \in {"reflink", "chunks"}
      BY <1>1 DEF OpenTarget, Move, Goto
    <2>2. file' = [file EXCEPT ![target[t]] = {NewFile(t)}] /\ leftover' = leftover \ {target[t]}
      BY <1>1 DEF OpenTarget, Put
    <2>3. \A f \in file'[target[t]] : f.maker = ProcessOf[t] /\ \A pg \in Page : f.pages[pg] = Hole
      BY <2>2 DEF NewFile
    <2> QED
      BY <1>d, <1>u, <2>1, <2>2, <2>3, CopierStep
  <1>2. CASE Reflink(t)
    <2>1. pc[t] = "reflink" /\ pc'[t] = "verify"
      BY <1>2 DEF Reflink, Move, Goto
    <2>2. file' = [file EXCEPT ![target[t]] = {[f EXCEPT !.pages = base] : f \in file[target[t]]}]
          /\ leftover' = leftover
      BY <1>2 DEF Reflink, WriteTarget, Put
    <2>3. \A f \in file'[target[t]] : f.pages = base /\ \E g \in file[target[t]] : f.maker = g.maker
      BY <2>2 DEF Files
    <2>4. t \notin changed => \A pg \in Page : base[pg] = version
      BY <2>1 DEF SourceExact
    <2> QED
      BY <1>d, <1>u, <2>1, <2>2, <2>3, <2>4, CopierStep
  <1>3. ASSUME NEW pg \in Page, CopyPage(t, pg) PROVE FilesInv'
    <2>1. PICK f \in file[target[t]] : WriteTarget(t, [f.pages EXCEPT ![pg] = base[pg]])
      BY <1>3 DEF CopyPage
    <2>2. pc[t] = "chunks" /\ pc'[t] = "chunks" /\ leftover' = leftover
      BY <1>3 DEF CopyPage
    <2>3. file' = [file EXCEPT ![target[t]] =
             {[g EXCEPT !.pages = [f.pages EXCEPT ![pg] = base[pg]]] : g \in file[target[t]]}]
      BY <2>1 DEF WriteTarget, Put
    <2>4. \A g \in file'[target[t]] :
             /\ g.pages = [f.pages EXCEPT ![pg] = base[pg]]
             /\ \E h \in file[target[t]] : g.maker = h.maker
      BY <2>3 DEF Files
    <2>5. t \notin changed => base[pg] = version /\ \A q \in Page : f.pages[q] \in {Hole, version}
      BY <2>2 DEF SourceExact, CopyExact
    <2>6. f.pages \in Pages
      BY DEF Files
    <2>7. t \notin changed => \A g \in file'[target[t]] : \A q \in Page : g.pages[q] \in {Hole, version}
      BY <2>4, <2>5, <2>6 DEF Pages
    <2> QED
      BY <1>d, <1>u, <2>2, <2>3, <2>4, <2>7, CopierStep
  <1>4. CASE ChunksDone(t)
    <2>1. pc[t] = "chunks" /\ pc'[t] = "verify" /\ UNCHANGED <<file, leftover>>
      BY <1>4 DEF ChunksDone, Move, Goto
    <2>2. \A f \in file[target[t]] : t \notin changed => \A pg \in Page : f.pages[pg] = version
      BY <1>4, <2>1 DEF ChunksDone, CopyExact
    <2> QED
      BY <1>d, <1>u, <2>1, <2>2, CopierStep
  <1>5. CASE Verify(t)
    <2>1. pc[t] = "verify" /\ pc'[t] = "recheck" /\ UNCHANGED <<file, leftover>> /\ t \notin changed
      BY <1>5 DEF Verify, Move, Goto
    <2>2. \A f \in file[target[t]] : Snapshot(f.pages)
      BY <2>1, VersionAssumption DEF CopyExact, Snapshot
    <2> QED
      BY <1>d, <1>u, <2>1, <2>2, CopierStep
  <1>6. CASE CleanUp(t)
    <2>1. pc[t] = "cleanup" /\ pc'[t] = "undo"
      BY <1>6 DEF CleanUp, Move, Goto
    <2>2. \/ file' = [file EXCEPT ![target[t]] = {}] /\ leftover' = leftover \ {target[t]}
          \/ file' = file /\ leftover' = leftover \cup {target[t]}
      BY <1>6 DEF CleanUp, Put
    <2> QED
      BY <1>d, <1>u, <2>1, <2>2, CopierStep
  <1> QED
    BY <1>1, <1>2, <1>3, <1>4, <1>5, <1>6 DEF CopierActs

(* What loses its marker is a snapshot, is gone, or is known to be left.    *)
LEMMA UnmarkKeeps ==
  ASSUME IInv, NEW t \in Thread, Unmark(t)
  PROVE  FilesInv'
  <1>1. UNCHANGED <<baseVars, file, leftover, target, changed>>
    BY DEF Unmark
  <1>2. \A u \in Thread \ {t} : pc'[u] = pc[u]
    BY OthersStay DEF IInv, Driver
  <1>3. pc[t] \in {"unmark", "undo"} /\ pc'[t] \in {"created", "failed"} /\ marked \ {target[t]} \subseteq marked'
    BY DEF IInv, TypeOK, Unmark, Move, Goto
  <1>4. SourceExact' /\ CopyExact' /\ MadeElsewhere'
    BY <1>1, <1>2, <1>3 DEF IInv, SourceExact, CopyExact, MadeElsewhere, Snapshot, baseVars
  <1>5. target[t] \in leftover \/ \A f \in file[target[t]] : Snapshot(f.pages)
    BY <1>3 DEF IInv, CopyExact
  <1>6. UnmarkedIsSnapshot'
    BY <1>1, <1>3, <1>5 DEF IInv, UnmarkedIsSnapshot, Snapshot, baseVars
  <1> QED
    BY <1>4, <1>6 DEF FilesInv

LEMMA RemoveKeeps ==
  ASSUME IInv, NEW t \in Thread, Remove(t)
  PROVE  FilesInv'
  <1> USE DEF IInv, TypeOK
  <1>1. UNCHANGED <<baseVars, marked, target, changed>>
    BY DEF Remove
  <1>2. \A u \in Thread \ {t} : pc'[u] = pc[u]
    BY OthersStay DEF Driver
  <1>3. pc'[t] \in {"deleted", "failed"}
    BY DEF Remove, Move, Goto
  <1>4. \A n \in Name : file'[n] = {} \/ (file'[n] = file[n] /\ (n \in leftover' <=> n \in leftover))
    <2>1. CASE UNCHANGED <<file, leftover>>
      BY <2>1
    <2>2. CASE file' = [file EXCEPT ![target[t]] = {}] /\ leftover' = leftover \ {target[t]}
      BY <2>2
    <2> QED
      BY <2>1, <2>2 DEF Remove, Put
  <1>5. SourceExact' /\ MadeElsewhere'
    BY <1>1, <1>2, <1>3, <1>4 DEF SourceExact, MadeElsewhere, baseVars
  <1>6. CopyExact'
    BY <1>1, <1>2, <1>3, <1>4 DEF CopyExact, Snapshot, baseVars
  <1>7. UnmarkedIsSnapshot'
    BY <1>1, <1>4 DEF UnmarkedIsSnapshot, Snapshot, baseVars
  <1> QED
    BY <1>5, <1>6, <1>7 DEF FilesInv

LEMMA CrashKeeps ==
  ASSUME IInv, NEW q \in Process, Crash(q)
  PROVE  FilesInv'
  <1> DEFINE S == {t \in Thread : ProcessOf[t] = q}
  <1>1. UNCHANGED <<baseVars, file, marked, leftover, target>>
    BY DEF Crash
  <1>2. \A u \in Thread \ S : pc'[u] = pc[u] /\ target'[u] = target[u] /\ (u \in changed' <=> u \in changed)
    BY <1>1 DEF Crash, IInv, TypeOK
  <1>3. \A u \in S : pc'[u] \in {"checkpoint", "cleanup", "remove"} \cup Waiting \cup Ended
    BY DEF Crash, Ended
  <1>4. S \in SUBSET Thread
    OBVIOUS
  <1> HIDE DEF S
  <1> QED
    BY <1>1, <1>2, <1>3, <1>4, QuietStep

LEMMA NextIInv == IInv /\ [Next]_vars => IInv'
  <1> SUFFICES ASSUME IInv, [Next]_vars PROVE IInv'
    OBVIOUS
  <1>1. TypeOK' /\ BaseExact' /\ MuExclusive' /\ OneCopier'
    BY NextTypeOK, NextBaseExact, NextMuExclusive, NextOneCopier DEF IInv
  <1>2. FilesInv'
    <2>1. CASE Application
      BY <2>1, ApplicationKeeps
    <2>2. ASSUME NEW t \in Thread, Driver(t) \/ \E n \in Name : Call(t, n) PROVE FilesInv'
      BY <2>2, QuietDriver, ReadingKeeps, InspectReserveKeep, CopierKeeps, UnmarkKeeps, RemoveKeeps
      DEF Driver, CopierActs
    <2>3. ASSUME NEW q \in Process, Crash(q) PROVE FilesInv'
      BY <2>3, CrashKeeps
    <2>4. CASE UNCHANGED vars
      BY <2>4 DEF vars, baseVars, IInv, FilesInv, SourceExact, CopyExact, UnmarkedIsSnapshot,
                  MadeElsewhere, Snapshot
    <2> QED
      BY <2>1, <2>2, <2>3, <2>4 DEF Next
  <1> QED
    BY <1>1, <1>2 DEF IInv, FilesInv

LEMMA Invariance == Spec => []IInv
  BY InitIInv, NextIInv, PTL DEF Spec

-----------------------------------------------------------------------------
(* Every variable stays within its type; no transaction is lost count of    *)
(* and a name stands for one file at most.                                  *)
THEOREM TypeCorrect == Spec => []TypeOK
  BY Invariance, PTL DEF IInv

(* The marker, which O_EXCL creates and the copier or nobody removes, is    *)
(* held by one goroutine of all processes (sqlite.go:169, 185).             *)
THEOREM CopierExclusion == Spec => []OneCopier
  BY Invariance, PTL DEF IInv

(* A branch file without a marker is the base database as a transaction     *)
(* left it, whoever wrote to it or died meanwhile (sqlite.go:190-202).      *)
THEOREM Snapshots == Spec => []UnmarkedIsSnapshot
  BY Invariance, PTL DEF IInv

(* SqliteDriver.mu keeps the goroutines of one process from overwriting     *)
(* each other's branches (sqlite.go:128, 161).                              *)
THEOREM WithinProcess == Spec => NoOverwriteWithinProcess
  <1> DEFINE A == \A t \in Thread :
                    pc[t] = "clone" /\ pc'[t] = "reflink" =>
                      \A f \in file[target[t]] : f.maker # ProcessOf[t]
  <1>1. IInv /\ [Next]_vars => [A]_vars
    BY DEF IInv, MadeElsewhere
  <1> QED
    BY <1>1, Invariance, PTL DEF Spec, NoOverwriteWithinProcess
=============================================================================
