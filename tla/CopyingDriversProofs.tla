----------------------- MODULE CopyingDriversProofs -----------------------
(***************************************************************************)
(* CopyingDrivers for every set of clients, branches and tables: a          *)
(* CreateBranch that reports success leaves the whole branch, MySQL's       *)
(* cleanup drops only what its own call has made, a database that is there  *)
(* in part has a cause on record, and the base database is never touched.   *)
(***************************************************************************)
EXTENDS CopyingDrivers, FiniteSetTheorems, SequenceTheorems, TLAPS

(* The objects a client has still to copy, the one it is at included: first *)
(* the tables, then the views and triggers.                                 *)
Left(c) == Range(todo[c])
ListFits(c) ==
  /\ pc[c] \in {"tables", "rows"} =>
       todo[c] \in Seq(Table) /\ todo[c] # <<>> /\ IsInjective(todo[c])
  /\ pc[c] = "extras" => todo[c] \in Seq(Extra)

(* MySQL: a client that was not disturbed copies alone, into a database of  *)
(* its own.                                                                 *)
Owns(c) ==
  /\ \A e \in Client : pc[e] \in Copying /\ DB(e) = DB(c) => e = c
  /\ db[DB(c)].there /\ c \in db[DB(c)].makers

(* What it has copied, by how far it has come.  Of the rest no rows are     *)
(* there, but abandoned statements may have made tables, views or triggers. *)
MySQLProgress(c) ==
  LET tables == db[DB(c)].tables IN
  /\ pc[c] = "session" => \A t \in Table : tables[t].rows = 0
  /\ pc[c] \in {"tables", "rows"} =>
       \A t \in Table : IF t \in Left(c) THEN tables[t].rows = 0 ELSE tables[t] = Copied
  /\ pc[c] = "rows" => tables[Head(todo[c])].shape = "indexed"
  /\ pc[c] \in {"extras", "reset"} => \A t \in Table : tables[t] = Copied
  /\ pc[c] = "extras" => \A x \in Extra \ Left(c) : x \in db[DB(c)].extras
  /\ pc[c] = "reset" => db[DB(c)].extras = Extra

(* MongoDB: others may copy into the same database, or create indexes in it *)
(* after a drop, but all rows of a collection are copied at once.           *)
MongoProgress(c) ==
  LET tables == db[DB(c)].tables IN
  pc[c] \in {"tables", "rows"} =>
    /\ \A t \in Table \ Left(c) :
         tables[t].rows = 1 /\ (tables[t].shape = "indexed" \/ DB(c) \in blamed)
    /\ pc[c] = "rows" => tables[Head(todo[c])].rows = 1
    /\ pc[c] = "rows" \/ Left(c) # Table => c \in db[DB(c)].makers

(* What holds of a client that copies.  One that was disturbed may have     *)
(* anything under its hands, but has left a record of it.                   *)
Sound(c) ==
  pc[c] \in Copying =>
    /\ DB(c) # Base
    /\ engine = "mongodb" => pc[c] \notin {"session", "extras", "reset", "undo"}
    /\ ListFits(c)
    /\ c \in disturbed => DB(c) \in blamed
    /\ c \notin disturbed /\ engine = "mysql" => Owns(c) /\ MySQLProgress(c)
    /\ c \notin disturbed /\ engine = "mongodb" => MongoProgress(c)

(* The base database stays what it was.                                     *)
BaseUntouched == db[Base] = Model

IInv == TypeOK /\ BaseUntouched /\ PartialIsExplained /\ \A c \in Client : Sound(c)

-----------------------------------------------------------------------------
(* The objects of a set in some order, and one less of them.                *)
LEMMA OrderIsWhole ==
  ASSUME NEW S, IsFiniteSet(S), NEW order \in SetToSeqs(S)
  PROVE  /\ order \in Seq(S) /\ IsInjective(order) /\ Range(order) = S
         /\ S # {} => order # <<>>
  <1> DEFINE n == Cardinality(S)
  <1>1. n \in Nat /\ (S # {} => n # 0)
    BY FS_CardinalityType, FS_EmptySet
  <1>2. order \in [1..n -> S] /\ \A i, j \in 1..n : i # j => order[i] # order[j]
    BY DEF SetToSeqs
  <1> HIDE DEF n
  <1>3. order \in Seq(S) /\ Len(order) = n /\ (S # {} => order # <<>>)
    BY <1>1, <1>2
  <1>4. order \in Injection(1..n, S) /\ IsInjective(order)
    BY <1>2 DEF Injection, IsInjective
  <1>5. Cardinality(1..n) = Cardinality(S)
    BY <1>1, FS_Interval DEF n
  <1>6. order \in Surjection(1..n, S)
    BY <1>4, <1>5, FS_Injection
  <1> QED
    BY <1>2, <1>3, <1>4, <1>6 DEF Surjection, Range

(* The first of them, and what is left after it.                            *)
LEMMA OneLess ==
  ASSUME NEW S, NEW s \in Seq(S), s # <<>>, IsInjective(s)
  PROVE  /\ Head(s) \in S /\ Tail(s) \in Seq(S) /\ IsInjective(Tail(s))
         /\ Head(s) \in Range(s) /\ Range(s) \subseteq S
         /\ Range(Tail(s)) = Range(s) \ {Head(s)}
         /\ Tail(s) = <<>> => Range(s) = {Head(s)}
  <1>1. /\ Len(s) \in Nat \ {0} /\ DOMAIN s = 1..Len(s) /\ \A i \in 1..Len(s) : s[i] \in S
        /\ Head(s) = s[1]
    BY LenProperties, EmptySeq
  <1>2. /\ Tail(s) \in Seq(S) /\ Len(Tail(s)) = Len(s) - 1
        /\ \A i \in 1..Len(Tail(s)) : Tail(s)[i] = s[i + 1]
    BY HeadTailProperties
  <1>3. DOMAIN Tail(s) = 1..(Len(s) - 1)
    BY <1>2, LenProperties
  <1>4. IsInjective(Tail(s))
    BY <1>1, <1>2, <1>3 DEF IsInjective
  <1>5. Head(s) \in Range(s) /\ Range(s) \subseteq S
    BY <1>1 DEF Range
  <1>6. Range(Tail(s)) = Range(s) \ {Head(s)}
    <2>1. ASSUME NEW t \in Range(Tail(s)) PROVE t \in Range(s) \ {Head(s)}
      <3>1. PICK i \in 1..(Len(s) - 1) : t = Tail(s)[i]
        BY <1>3 DEF Range
      <3>2. t = s[i + 1] /\ i + 1 \in DOMAIN s /\ 1 \in DOMAIN s /\ i + 1 # 1
        BY <1>1, <1>2, <3>1
      <3> QED
        BY <1>1, <3>2 DEF Range, IsInjective
    <2>2. ASSUME NEW t \in Range(s), t # Head(s) PROVE t \in Range(Tail(s))
      <3>1. PICK i \in 1..Len(s) : t = s[i]
        BY <1>1 DEF Range
      <3>2. i - 1 \in 1..(Len(s) - 1) /\ Tail(s)[i - 1] = t
        BY <1>1, <1>2, <2>2, <3>1
      <3> QED
        BY <1>3, <3>2 DEF Range
    <2> QED
      BY <2>1, <2>2
  <1>7. ASSUME Tail(s) = <<>> PROVE Range(s) = {Head(s)}
    <2>1. Range(Tail(s)) = {}
      BY <1>7 DEF Range
    <2> QED
      BY <1>5, <1>6, <2>1
  <1> QED
    BY <1>1, <1>2, <1>4, <1>5, <1>6, <1>7

(* All but the first are still there, whatever the sequence.                *)
LEMMA OneLessAtMost ==
  ASSUME NEW S, NEW s \in Seq(S), s # <<>>
  PROVE  Head(s) \in S /\ Tail(s) \in Seq(S) /\ Range(s) \ {Head(s)} \subseteq Range(Tail(s))
  <1>1. /\ Len(s) \in Nat \ {0} /\ DOMAIN s = 1..Len(s) /\ Head(s) = s[1] /\ Head(s) \in S
    BY LenProperties, EmptySeq
  <1>2. /\ Tail(s) \in Seq(S) /\ Len(Tail(s)) = Len(s) - 1
        /\ \A i \in 1..Len(Tail(s)) : Tail(s)[i] = s[i + 1]
    BY HeadTailProperties
  <1>3. DOMAIN Tail(s) = 1..(Len(s) - 1)
    BY <1>2, LenProperties
  <1>4. ASSUME NEW t \in Range(s), t # Head(s) PROVE t \in Range(Tail(s))
    <2>1. PICK i \in 1..Len(s) : t = s[i]
      BY <1>1 DEF Range
    <2>2. i - 1 \in 1..(Len(s) - 1) /\ Tail(s)[i - 1] = t
      BY <1>1, <1>2, <1>4, <2>1
    <2> QED
      BY <1>3, <2>2 DEF Range
  <1> QED
    BY <1>1, <1>2, <1>4

(* A list of tables, or of views and triggers, is one of objects.           *)
LEMMA ListType ==
  ASSUME NEW list, list \in Seq(Table) \/ list \in Seq(Extra)
  PROVE  list \in Seq(Table \cup Extra)
  OBVIOUS

-----------------------------------------------------------------------------
(* Where the databases are, and what the statements make of them.           *)
LEMMA DBType == ASSUME TypeOK, NEW c \in Client PROVE DB(c) \in Branch \cup {Base}
  BY DEF TypeOK, DB, formatDBName

(* What a client leaves to the server is a statement of its copy.           *)
LEMMA AbandonType ==
  ASSUME TypeOK, NEW c \in Client, Sound(c), Abandon(c)
  PROVE  abandoned' \in SUBSET Statement
  <1>1. CASE pc[c] = "create"
    BY <1>1, DBType DEF TypeOK, Abandon, Underway, Statement
  <1>2. CASE pc[c] \in {"tables", "rows"} /\ todo[c] # <<>>
    <2>1. DB(c) \in Branch /\ Head(todo[c]) \in Table
      BY <1>2, DBType, OneLess DEF Sound, ListFits, Copying
    <2> QED
      BY <1>2, <2>1 DEF TypeOK, Abandon, Underway, Statement
  <1>3. CASE pc[c] = "extras" /\ todo[c] # <<>>
    <2>1. DB(c) \in Branch /\ Head(todo[c]) \in Extra
      BY <1>3, DBType, OneLessAtMost DEF Sound, ListFits, Copying
    <2> QED
      BY <1>3, <2>1 DEF TypeOK, Abandon, Underway, Statement
  <1>4. CASE pc[c] # "create" /\ (pc[c] \notin {"tables", "rows", "extras"} \/ todo[c] = <<>>)
    BY <1>4 DEF TypeOK, Abandon, Underway
  <1> QED
    BY <1>1, <1>2, <1>3, <1>4

(* A client keeps its database as long as it keeps its target.              *)
LEMMA SameDB == ASSUME NEW c, target'[c] = target[c] PROVE DB(c)' = DB(c)
  BY DEF DB

(* Of all that is there, SetTable changes one table of one database.        *)
LEMMA SetTableMakes ==
  ASSUME TypeOK, NEW c \in Client, NEW t \in Table, NEW copy \in Copies, SetTable(c, t, copy)
  PROVE  /\ db' \in [Branch \cup {Base} -> Databases]
         /\ \A d \in (Branch \cup {Base}) \ {DB(c)} : db'[d] = db[d]
         /\ db'[DB(c)].there /\ db'[DB(c)].makers = db[DB(c)].makers \cup {c}
         /\ db'[DB(c)].extras = db[DB(c)].extras
         /\ \A u \in Table : db'[DB(c)].tables[u] = IF u = t THEN copy ELSE db[DB(c)].tables[u]
  <1> DEFINE old == db[DB(c)]
             new == [old EXCEPT !.there = TRUE, !.makers = @ \cup {c}, !.tables[t] = copy]
  <1>1. old \in Databases
    BY DBType DEF TypeOK
  <1>2. new \in Databases /\ new.there /\ new.makers = old.makers \cup {c}
        /\ new.extras = old.extras
        /\ \A u \in Table : new.tables[u] = IF u = t THEN copy ELSE old.tables[u]
    BY <1>1 DEF Databases
  <1>3. db' = [db EXCEPT ![DB(c)] = new]
    BY DBType DEF TypeOK, SetTable
  <1> HIDE DEF new
  <1>4. db'[DB(c)] = new /\ \A d \in (Branch \cup {Base}) \ {DB(c)} : db'[d] = db[d]
    BY <1>3, DBType DEF TypeOK
  <1> QED
    BY <1>2, <1>3, <1>4, DBType DEF TypeOK

(* A drop takes the database away, and disturbs others with a record.       *)
LEMMA DropMakes ==
  ASSUME TypeOK, NEW d \in Branch \cup {Base}, NEW others \in SUBSET Client, Drop(d, others)
  PROVE  /\ db' \in [Branch \cup {Base} -> Databases]
         /\ db'[d] = Absent /\ \A e \in (Branch \cup {Base}) \ {d} : db'[e] = db[e]
         /\ disturbed' = disturbed \cup others
         /\ blamed \subseteq blamed' /\ blamed' \subseteq blamed \cup {d}
         /\ others # {} => d \in blamed'
  BY DEF TypeOK, Drop, Databases, Absent, Copies, Shapes, Nothing

-----------------------------------------------------------------------------
(* What a client keeps when others take a step: nothing of its own call     *)
(* changes, and the record of what went wrong only grows.                   *)
Waits(e) ==
  /\ engine' = engine
  /\ pc'[e] = pc[e] /\ target'[e] = target[e] /\ todo'[e] = todo[e]
  /\ blamed \subseteq blamed'

(* A client that was disturbed has a record of it, whatever happens.        *)
LEMMA DisturbedKeeps ==
  ASSUME NEW e \in Client, Sound(e), Waits(e), e \in disturbed',
         pc[e] \in Copying => DB(e) \in blamed'
  PROVE  Sound(e)'
  <1>1. DB(e)' = DB(e)
    BY SameDB DEF Waits
  <1> QED
    BY <1>1 DEF Sound, ListFits, Waits

(* One whose database is left alone, with nobody new in it.                 *)
LEMMA AloneKeeps ==
  ASSUME NEW e \in Client, Sound(e), Waits(e), e \in disturbed' <=> e \in disturbed,
         pc[e] \in Copying =>
           /\ db'[DB(e)] = db[DB(e)]
           /\ \A x \in Client : pc'[x] \in Copying /\ DB(x)' = DB(e) /\ engine = "mysql" =>
                                  x = e \/ (pc[x] \in Copying /\ DB(x) = DB(e))
  PROVE  Sound(e)'
  <1>1. DB(e)' = DB(e) /\ Left(e)' = Left(e)
    BY SameDB DEF Waits, Left
  <1>2. CASE pc[e] \notin Copying
    BY <1>2 DEF Sound, ListFits, Waits
  <1>3. CASE e \in disturbed
    BY <1>1, <1>3 DEF Sound, ListFits, Waits
  <1>4. CASE pc[e] \in Copying /\ e \notin disturbed /\ engine = "mysql"
    <2>1. Owns(e)'
      BY <1>1, <1>4 DEF Sound, Owns
    <2>2. MySQLProgress(e)'
      BY <1>1, <1>4 DEF Sound, Waits, MySQLProgress
    <2> QED
      BY <1>1, <1>4, <2>1, <2>2 DEF Sound, ListFits, Waits
  <1>5. CASE pc[e] \in Copying /\ e \notin disturbed /\ engine # "mysql"
    <2>1. engine = "mongodb" => MongoProgress(e)'
      BY <1>1, <1>5 DEF Sound, Waits, MongoProgress
    <2> QED
      BY <1>1, <1>5, <2>1 DEF Sound, ListFits, Waits
  <1> QED
    BY <1>2, <1>3, <1>4, <1>5

(* MongoDB: one in whose database the others only add.                      *)
LEMMA GrowthKeeps ==
  ASSUME NEW e \in Client, Sound(e), Waits(e), e \in disturbed' <=> e \in disturbed,
         engine = "mongodb",
         db[DB(e)].makers \subseteq db'[DB(e)].makers,
         \A t \in Table :
           /\ db[DB(e)].tables[t].rows = 1 => db'[DB(e)].tables[t].rows = 1
           /\ db[DB(e)].tables[t].shape = "indexed" => db'[DB(e)].tables[t].shape = "indexed",
         pc[e] \in {"tables", "rows"} => Head(todo[e]) \in Table
  PROVE  Sound(e)'
  <1>1. DB(e)' = DB(e) /\ Left(e)' = Left(e)
    BY SameDB DEF Waits, Left
  <1>2. pc[e] \in Copying /\ e \notin disturbed => MongoProgress(e)'
    BY <1>1 DEF Sound, Waits, MongoProgress
  <1> QED
    BY <1>1, <1>2 DEF Sound, ListFits, Waits

(* A drop disturbs those who have something to lose by it, and leaves a     *)
(* record; one that it does not disturb has nothing in the database yet.    *)
LEMMA DropKeeps ==
  ASSUME TypeOK, NEW e \in Client, Sound(e), Waits(e),
         NEW d \in Branch \cup {Base}, NEW others \in SUBSET Copiers(d), Drop(d, others),
         pc[e] \in Copying /\ DB(e) = d /\ e \in db[d].makers => e \in others,
         \A x \in Client : pc'[x] \in Copying => pc[x] \in Copying /\ DB(x)' = DB(x)
  PROVE  Sound(e)'
  <1>1. /\ db'[d] = Absent /\ \A f \in (Branch \cup {Base}) \ {d} : db'[f] = db[f]
        /\ disturbed' = disturbed \cup others
        /\ others # {} => d \in blamed'
    BY DropMakes DEF Copiers
  <1>2. DB(e)' = DB(e) /\ Left(e)' = Left(e) /\ DB(e) \in Branch \cup {Base}
    BY SameDB, DBType DEF Waits, Left
  <1>3. CASE pc[e] \notin Copying
    BY <1>3 DEF Sound, ListFits, Waits
  <1>4. CASE pc[e] \in Copying /\ e \in disturbed'
    <2>1. DB(e) \in blamed'
      BY <1>1, <1>4 DEF Sound, Waits, Copiers
    <2> QED
      BY <1>4, <2>1, DisturbedKeeps
  <1>5. CASE pc[e] \in Copying /\ e \notin disturbed' /\ DB(e) # d
    <2>1. e \in disturbed' <=> e \in disturbed
      BY <1>1, <1>5
    <2>2. db'[DB(e)] = db[DB(e)]
      BY <1>1, <1>2, <1>5
    <2> QED
      BY <2>1, <2>2, AloneKeeps
  <1>6. CASE pc[e] \in Copying /\ e \notin disturbed' /\ DB(e) = d
    <2>1. e \notin db[DB(e)].makers /\ e \notin disturbed
      BY <1>1, <1>6
    <2>2. engine = "mongodb"
      BY <1>6, <2>1 DEF Sound, Owns, TypeOK
    <2>3. MongoProgress(e)'
      BY <1>2, <1>6, <2>1, <2>2, Z3 DEF Sound, Waits, MongoProgress
    <2> QED
      BY <1>2, <1>6, <2>2, <2>3 DEF Sound, ListFits, Waits
  <1> QED
    BY <1>3, <1>4, <1>5, <1>6

-----------------------------------------------------------------------------
(* Partial databases: a step of c explains itself at its own target, and    *)
(* changes nothing elsewhere.                                               *)
Explains(c) ==
  \/ pc'[c] \in Copying \/ DB(c) \in blamed' \/ ~db'[DB(c)].there
  \/ /\ \A t \in Table : db'[DB(c)].tables[t] = Copied
     /\ engine = "mysql" => db'[DB(c)].extras = Extra

(* What is there in part was there before, with its cause, but at c's target.*)
LEMMA TargetExplains ==
  ASSUME TypeOK, PartialIsExplained, NEW c \in Client, Explains(c), target'[c] = target[c],
         \A e \in Client \ {c} : Waits(e),
         engine' = engine, blamed \subseteq blamed',
         \A d \in (Branch \cup {Base}) \ {DB(c)} : db'[d] = db[d]
  PROVE  PartialIsExplained'
  <1> SUFFICES ASSUME NEW d \in Branch, db'[d].there, Copiers(d)' = {}, ~Whole(d)'
               PROVE  d \in blamed'
    BY DEF PartialIsExplained
  <1>1. \A e \in Client : DB(e)' = DB(e)
    BY SameDB DEF Waits
  <1>2. CASE d = DB(c)
    BY <1>1, <1>2 DEF Explains, Copiers, Whole
  <1>3. CASE d # DB(c)
    <2>1. db'[d] = db[d] /\ ~Whole(d)
      BY <1>3 DEF Whole
    <2>2. Copiers(d) = {}
      BY <1>1, <1>3 DEF Copiers, Waits
    <2> QED
      BY <2>1, <2>2 DEF PartialIsExplained
  <1> QED
    BY <1>2, <1>3

-----------------------------------------------------------------------------
(* A step of a client that is not copying, before it or after it, and that  *)
(* leaves the databases alone.                                              *)
LEMMA IdleStep ==
  ASSUME IInv, NEW c \in Client, pc[c] \notin Copying, pc'[c] \notin Copying,
         pc' \in [Client -> Looking \cup Copying \cup Ended], target' \in [Client -> Branch],
         late' \in SUBSET (Branch \cup {Base}), abandoned' \in SUBSET Statement,
         \A e \in Client \ {c} : pc'[e] = pc[e] /\ target'[e] = target[e],
         disturbed' \in SUBSET Client,
         \A e \in Client \ {c} : e \in disturbed' <=> e \in disturbed,
         UNCHANGED <<engine, db, todo, blamed>>
  PROVE  IInv'
  <1>1. TypeOK'
    BY DEF IInv, TypeOK
  <1>2. BaseUntouched'
    BY DEF IInv, BaseUntouched
  <1>3. ASSUME NEW e \in Client, pc[e] \in Copying \/ pc'[e] \in Copying
        PROVE  pc'[e] = pc[e] /\ DB(e)' = DB(e) /\ e # c
    BY <1>3, SameDB
  <1>4. PartialIsExplained'
    <2> SUFFICES ASSUME NEW d \in Branch, db'[d].there, Copiers(d)' = {}, ~Whole(d)'
                 PROVE  d \in blamed'
      BY DEF PartialIsExplained
    <2>1. Copiers(d) = {}
      BY <1>3 DEF Copiers
    <2>2. db[d].there /\ ~Whole(d)
      BY DEF Whole
    <2> QED
      BY <2>1, <2>2 DEF IInv, PartialIsExplained
  <1>5. ASSUME NEW e \in Client PROVE Sound(e)'
    <2>1. CASE e = c
      BY <2>1 DEF Sound
    <2>2. CASE e # c
      <3>1. Waits(e)
        BY <2>2 DEF Waits
      <3> QED
        BY <1>3, <2>2, <3>1, AloneKeeps DEF IInv
    <2> QED
      BY <2>1, <2>2
  <1> QED
    BY <1>1, <1>2, <1>4, <1>5 DEF IInv

(* A step of a client that copies: its own database alone changes, and in   *)
(* MongoDB, where others may be at work on it, loses nothing of theirs.     *)
Adds(c) ==
  /\ \A d \in (Branch \cup {Base}) \ {DB(c)} : db'[d] = db[d]
  /\ engine = "mongodb" =>
       /\ db[DB(c)].makers \subseteq db'[DB(c)].makers
       /\ \A t \in Table :
            LET old == db[DB(c)].tables[t]  new == db'[DB(c)].tables[t] IN
            /\ old.rows = 1 => new.rows = 1
            /\ old.shape = "indexed" => new.shape = "indexed"

(* Nobody else's copy is harmed by it, nor the base database.               *)
LEMMA CopyStep ==
  ASSUME IInv, NEW c \in Client, pc[c] \in Copying, Explains(c), Adds(c),
         \A e \in Client \ {c} : Waits(e),
         blamed \subseteq blamed', UNCHANGED <<engine, target, disturbed>>
  PROVE  BaseUntouched' /\ PartialIsExplained' /\ \A e \in Client \ {c} : Sound(e)'
  <1>1. DB(c) # Base
    BY DEF IInv, Sound
  <1>2. BaseUntouched'
    BY <1>1 DEF IInv, BaseUntouched, Adds
  <1>3. PartialIsExplained'
    BY TargetExplains DEF IInv, Adds
  <1>4. ASSUME NEW e \in Client \ {c} PROVE Sound(e)'
    <2>1. \A x \in Client : DB(x)' = DB(x)
      BY SameDB
    <2>2. Sound(e) /\ Waits(e) /\ DB(e) \in Branch \cup {Base}
      BY DBType DEF IInv
    <2>3. CASE pc[e] \notin Copying \/ DB(e) # DB(c)
      <3>1. \A x \in Client : pc'[x] \in Copying => pc[x] \in Copying
        BY DEF Waits
      <3> QED
        BY <2>1, <2>2, <2>3, <3>1, AloneKeeps DEF Adds
    <2>4. CASE pc[e] \in Copying /\ e \in disturbed
      BY <2>2, <2>4, DisturbedKeeps DEF Sound
    <2>5. CASE pc[e] \in Copying /\ e \notin disturbed /\ DB(e) = DB(c)
      <3>1. engine = "mongodb"
        BY <2>2, <2>5 DEF Sound, Owns, IInv, TypeOK
      <3>2. pc[e] \in {"tables", "rows"} => Head(todo[e]) \in Table
        BY <2>2, <2>5, OneLess DEF Sound, ListFits
      <3>3. /\ db[DB(e)].makers \subseteq db'[DB(e)].makers
            /\ \A t \in Table :
                 /\ db[DB(e)].tables[t].rows = 1 => db'[DB(e)].tables[t].rows = 1
                 /\ db[DB(e)].tables[t].shape = "indexed" => db'[DB(e)].tables[t].shape = "indexed"
        BY <2>5, <3>1 DEF Adds
      <3> QED
        BY <2>2, <2>5, <3>1, <3>2, <3>3, GrowthKeeps
    <2> QED
      BY <2>3, <2>4, <2>5
  <1> QED
    BY <1>2, <1>3, <1>4

-----------------------------------------------------------------------------
(* Looking, listing, and giving up before anything was made.                *)
LEMMA LookStep ==
  ASSUME IInv, NEW c \in Client,
         BranchExists(c) \/ Prune(c) \/ \E b \in Branch : Ensure(c, b)
  PROVE  IInv'
  <1> USE DEF Goto, Move, Looking, Copying, Ended
  <1>1. TypeOK
    BY DEF IInv
  <1>2. CASE \E b \in Branch : Ensure(c, b)
    <2>1. PICK b \in Branch : Ensure(c, b)
      BY <1>2
    <2>2. /\ pc[c] \notin Copying /\ pc' = [pc EXCEPT ![c] = "look"]
          /\ target' = [target EXCEPT ![c] = b]
          /\ UNCHANGED <<engine, db, todo, late, abandoned, disturbed, blamed>>
      BY <2>1 DEF Ensure
    <2> QED
      BY <1>1, <2>2, IdleStep DEF TypeOK
  <1>3. CASE BranchExists(c)
    <2>1. PICK p \in {"exists", "create", "failed"} :
            /\ pc[c] = "look" /\ pc' = [pc EXCEPT ![c] = p]
            /\ UNCHANGED <<engine, db, target, todo, late, abandoned, disturbed, blamed>>
      BY <1>3 DEF BranchExists
    <2> QED
      BY <1>1, <2>1, IdleStep DEF TypeOK
  <1>4. CASE Prune(c)
    <2>1. PICK info \in ListBranches :
            ~info.IsProtected /\ target' = [target EXCEPT ![c] = info.Name]
      BY <1>4 DEF Prune
    <2>2. PICK d \in Branch \cup {Base} : info = BranchInfo(d)
      BY <2>1 DEF ListBranches
    <2>3. d # Base /\ info.Name = d
      BY <2>1, <2>2 DEF BranchInfo
    <2>4. /\ pc[c] \notin Copying /\ pc' = [pc EXCEPT ![c] = "delete"]
          /\ UNCHANGED <<engine, db, todo, late, abandoned, disturbed, blamed>>
      BY <1>4 DEF Prune
    <2> QED
      BY <1>1, <2>1, <2>2, <2>3, <2>4, IdleStep DEF TypeOK
  <1> QED
    BY <1>2, <1>3, <1>4

-----------------------------------------------------------------------------
(* Drops.  They harm no copy but those they disturb.                        *)
LEMMA DropStep ==
  ASSUME IInv, NEW d \in Branch \cup {Base}, d # Base,
         NEW others \in SUBSET Copiers(d), Drop(d, others),
         engine' = engine, target' = target, todo' = todo,
         \A e \in Client : pc'[e] # pc[e] => pc'[e] \notin Copying /\ DB(e) = d,
         \A e \in Client : pc'[e] \in Copying /\ DB(e) = d /\ e \in db[d].makers => e \in others
  PROVE  BaseUntouched' /\ PartialIsExplained' /\ \A e \in Client : Sound(e)'
  <1>1. /\ db'[d] = Absent /\ \A f \in (Branch \cup {Base}) \ {d} : db'[f] = db[f]
        /\ blamed \subseteq blamed'
    BY DropMakes DEF IInv, Copiers
  <1>2. \A e \in Client : DB(e)' = DB(e)
    BY SameDB
  <1>3. BaseUntouched'
    BY <1>1 DEF IInv, BaseUntouched
  <1>4. PartialIsExplained'
    <2> SUFFICES ASSUME NEW f \in Branch, db'[f].there, Copiers(f)' = {}, ~Whole(f)'
                 PROVE  f \in blamed'
      BY DEF PartialIsExplained
    <2>1. f # d
      BY <1>1 DEF Absent
    <2>2. db[f].there /\ ~Whole(f)
      BY <1>1, <2>1 DEF Whole
    <2>3. Copiers(f) = {}
      BY <1>2, <2>1 DEF Copiers
    <2> QED
      BY <1>1, <2>2, <2>3 DEF IInv, PartialIsExplained
  <1>5. ASSUME NEW e \in Client PROVE Sound(e)'
    <2>1. CASE pc'[e] \notin Copying
      BY <2>1 DEF Sound
    <2>2. CASE pc'[e] \in Copying
      <3>1. pc'[e] = pc[e]
        BY <2>2
      <3>2. Waits(e)
        BY <1>1, <3>1 DEF Waits
      <3>3. \A x \in Client : pc'[x] \in Copying => pc[x] \in Copying /\ DB(x)' = DB(x)
        BY <1>2
      <3> QED
        BY <2>2, <3>1, <3>2, <3>3, DropKeeps DEF IInv
    <2> QED
      BY <2>1, <2>2
  <1> QED
    BY <1>3, <1>4, <1>5

(* They keep the types.                                                     *)
LEMMA DropType ==
  ASSUME TypeOK, NEW d \in Branch \cup {Base}, NEW others \in SUBSET Client, Drop(d, others),
         engine' = engine, target' = target, todo' = todo, abandoned' = abandoned,
         pc' \in [Client -> Looking \cup Copying \cup Ended],
         late' \in SUBSET (Branch \cup {Base})
  PROVE  TypeOK'
  <1>1. /\ db' \in [Branch \cup {Base} -> Databases]
        /\ disturbed' = disturbed \cup others /\ blamed' \subseteq blamed \cup {d}
    BY DropMakes
  <1>2. disturbed' \in SUBSET Client /\ blamed' \in SUBSET (Branch \cup {Base})
    BY <1>1 DEF TypeOK
  <1> QED
    BY <1>1, <1>2 DEF TypeOK

(* DeleteBranch disturbs the copies it hits, and refuses the base database. *)
LEMMA DeleteStep ==
  ASSUME IInv, NEW c \in Client, DropForDelete(c)
  PROVE  IInv'
  <1> USE DEF Goto, Looking, Copying, Ended
  <1>1. TypeOK /\ DB(c) \in Branch \cup {Base}
    BY DBType DEF IInv
  <1>2. /\ pc[c] = "delete" /\ UNCHANGED <<engine, target, todo, abandoned>>
        /\ pc' = [pc EXCEPT ![c] = "deleted"] \/ pc' = [pc EXCEPT ![c] = "failed"]
    BY DEF DropForDelete
  <1>3. /\ pc' \in [Client -> Looking \cup Copying \cup Ended] /\ pc'[c] \notin Copying
        /\ \A e \in Client \ {c} : pc'[e] = pc[e]
    BY <1>1, <1>2 DEF TypeOK
  <1>4. CASE DB(c) # Base /\ Drop(DB(c), Involved(DB(c))) /\ UNCHANGED late
    <2>1. Involved(DB(c)) \in SUBSET Copiers(DB(c)) /\ Involved(DB(c)) \in SUBSET Client
      BY DEF Involved, Copiers
    <2>2. TypeOK'
      BY <1>1, <1>2, <1>3, <1>4, <2>1, DropType DEF TypeOK
    <2>3. \A e \in Client : pc'[e] # pc[e] => pc'[e] \notin Copying /\ DB(e) = DB(c)
      BY <1>3
    <2>4. \A e \in Client : pc'[e] \in Copying /\ DB(e) = DB(c) /\ e \in db[DB(c)].makers
                              => e \in Involved(DB(c))
      BY <1>3 DEF Involved, Copiers
    <2> QED
      BY <1>1, <1>2, <1>4, <2>1, <2>2, <2>3, <2>4, DropStep DEF IInv
  <1>5. CASE UNCHANGED <<db, disturbed, blamed>> /\ late' \in {late, late \cup {DB(c)}}
    BY <1>1, <1>2, <1>3, <1>5, IdleStep DEF TypeOK
  <1> QED
    BY <1>4, <1>5 DEF DropForDelete

(* So does a drop that the server carries out late.                         *)
LEMMA LateDropStep ==
  ASSUME IInv, NEW d \in Branch, LateDrop(d)
  PROVE  IInv'
  <1>1. /\ Drop(d, Involved(d)) /\ late' = late \ {d} /\ d # Base
        /\ UNCHANGED <<engine, pc, target, todo, abandoned>>
    BY NameAssumption DEF LateDrop
  <1>2. Involved(d) \in SUBSET Copiers(d) /\ Involved(d) \in SUBSET Client
    BY DEF Involved, Copiers
  <1>3. TypeOK'
    BY <1>1, <1>2, DropType DEF TypeOK, IInv
  <1>4. \A e \in Client : pc'[e] \in Copying /\ DB(e) = d /\ e \in db[d].makers => e \in Involved(d)
    BY <1>1 DEF Involved, Copiers
  <1> QED
    BY <1>1, <1>2, <1>3, <1>4, DropStep DEF IInv

(* A cleanup hits those who have something to lose, and disturbs them: all  *)
(* of them in MongoDB and after a drop in MySQL, nobody else in MySQL.      *)
LEMMA CleanupStep ==
  ASSUME IInv, NEW c \in Client, MySQLCleanup(c) \/ MongoCleanup(c)
  PROVE  IInv'
  <1> USE DEF Goto, Move, Looking, Ended
  <1> DEFINE others == Involved(DB(c)) \ {c}
  <1>1. TypeOK /\ DB(c) \in Branch \cup {Base}
    BY DBType DEF IInv
  <1>2. PICK hit \in {others, {}} :
          /\ DropForCleanup(c, hit)
          /\ hit # others => engine = "mysql" /\ c \notin disturbed
    BY DEF MySQLCleanup, MongoCleanup
  <1>3. /\ pc[c] = "cleanup" /\ pc' = [pc EXCEPT ![c] = "failed"]
        /\ UNCHANGED <<engine, target, todo, abandoned>>
    BY <1>2 DEF DropForCleanup
  <1>4. pc[c] \in Copying /\ DB(c) # Base
    BY <1>3 DEF IInv, Sound, Copying
  <1>5. /\ pc' \in [Client -> Looking \cup Copying \cup Ended] /\ pc'[c] \notin Copying
        /\ \A e \in Client \ {c} : pc'[e] = pc[e]
    BY <1>1, <1>3 DEF TypeOK, Copying
  <1>6. CASE Drop(DB(c), hit) /\ UNCHANGED late
    <2>1. hit \in SUBSET Copiers(DB(c)) /\ hit \in SUBSET Client
      BY <1>2 DEF Involved, Copiers
    <2>2. TypeOK'
      BY <1>1, <1>3, <1>5, <1>6, <2>1, DropType DEF TypeOK
    <2>3. \A e \in Client : pc'[e] # pc[e] => pc'[e] \notin Copying /\ DB(e) = DB(c)
      BY <1>5
    <2>4. ASSUME NEW e \in Client, pc'[e] \in Copying, DB(e) = DB(c), e \in db[DB(c)].makers
          PROVE  e \in hit
      <3>1. e # c /\ pc[e] \in Copying
        BY <1>5, <2>4
      <3>2. hit = others
        BY <1>2, <1>4, <2>4, <3>1 DEF IInv, Sound, Owns
      <3> QED
        BY <2>4, <3>1, <3>2 DEF Involved, Copiers
    <2> QED
      BY <1>1, <1>3, <1>4, <1>6, <2>1, <2>2, <2>3, <2>4, DropStep DEF IInv
  <1>7. CASE UNCHANGED <<db, disturbed>> /\ Blame(DB(c)) /\ late' \in {late, late \cup {DB(c)}}
    <2>1. TypeOK'
      BY <1>1, <1>3, <1>5, <1>7 DEF TypeOK, Blame
    <2>2. Explains(c) /\ Adds(c) /\ blamed \subseteq blamed'
      BY <1>7 DEF Explains, Adds, Blame
    <2>3. \A e \in Client \ {c} : Waits(e)
      BY <1>3, <1>5, <2>2 DEF Waits
    <2>4. Sound(c)'
      BY <1>5 DEF Sound
    <2> QED
      BY <1>3, <1>4, <1>7, <2>1, <2>2, <2>3, <2>4, CopyStep DEF IInv
  <1> QED
    BY <1>2, <1>6, <1>7 DEF DropForCleanup

-----------------------------------------------------------------------------
(* A copy begins: alone in a database of its own (MySQL), or among strays.  *)
LEMMA CreateDatabaseStep ==
  ASSUME IInv, NEW c \in Client, CreateDatabase(c)
  PROVE  IInv'
  <1> USE DEF Goto, Move, Looking, Copying, Ended
  <1> DEFINE made == [Absent EXCEPT !.there = TRUE, !.makers = {c}]
  <1>1. TypeOK /\ DB(c) \in Branch \cup {Base}
    BY DBType DEF IInv
  <1>2. /\ engine = "mysql" /\ pc[c] = "create" /\ UNCHANGED <<engine, target, todo, late>>
        /\ pc' = [pc EXCEPT ![c] = "session"] \/ pc' = [pc EXCEPT ![c] = "failed"]
        /\ Begin(c) /\ abandoned' \in SUBSET Statement
    BY <1>1, AbandonType DEF CreateDatabase, IInv, TypeOK
  <1>3. /\ pc' \in [Client -> Looking \cup Copying \cup Ended]
        /\ \A e \in Client \ {c} : pc'[e] = pc[e]
    BY <1>1, <1>2 DEF TypeOK
  <1>4. /\ disturbed' \in SUBSET Client
        /\ \A e \in Client \ {c} : e \in disturbed' <=> e \in disturbed
    BY <1>1, <1>2 DEF Begin, TypeOK
  <1>5. CASE pc' = [pc EXCEPT ![c] = "failed"] /\ UNCHANGED <<db, blamed>>
    <2>1. pc[c] \notin Copying /\ pc'[c] \notin Copying
      BY <1>1, <1>2, <1>5 DEF TypeOK
    <2> QED
      BY <1>1, <1>2, <1>3, <1>4, <1>5, <2>1, IdleStep DEF TypeOK
  <1>6. CASE /\ ~db[DB(c)].there /\ db' = [db EXCEPT ![DB(c)] = made]
             /\ \/ pc' = [pc EXCEPT ![c] = "session"] /\ UNCHANGED blamed
                \/ pc' = [pc EXCEPT ![c] = "failed"] /\ Blame(DB(c))
    <2>1. /\ made \in Databases /\ made.there /\ made.makers = {c}
          /\ \A t \in Table : made.tables[t] = Nothing
      <3>1. Nothing \in Copies
        BY DEF Nothing, Copies, Shapes
      <3> DEFINE empty == [Absent EXCEPT !.there = TRUE]
      <3>2. /\ empty \in Databases /\ empty.there
            /\ \A t \in Table : empty.tables[t] = Nothing
        BY <3>1 DEF Absent, Databases
      <3>3. made = [empty EXCEPT !.makers = {c}]
        BY Zenon
      <3> HIDE DEF empty, made
      <3> QED
        BY <3>1, <3>2, <3>3 DEF Databases
    <2> HIDE DEF made
    <2>2. /\ db' \in [Branch \cup {Base} -> Databases] /\ db'[DB(c)] = made
          /\ \A d \in (Branch \cup {Base}) \ {DB(c)} : db'[d] = db[d]
      BY <1>1, <1>6, <2>1 DEF TypeOK
    <2>3. blamed \subseteq blamed' /\ blamed' \in SUBSET (Branch \cup {Base})
      BY <1>1, <1>6 DEF TypeOK, Blame
    <2>4. TypeOK'
      BY <1>1, <1>2, <1>3, <1>4, <2>2, <2>3 DEF TypeOK
    <2>5. DB(c) # Base
      BY <1>6 DEF IInv, BaseUntouched, Model
    <2>6. BaseUntouched'
      BY <2>2, <2>5 DEF IInv, BaseUntouched
    <2>7. \A e \in Client \ {c} : Waits(e)
      BY <1>2, <1>3, <2>3 DEF Waits
    <2>8. PartialIsExplained'
      <3>1. Explains(c)
        BY <1>1, <1>6 DEF Explains, Blame, TypeOK
      <3> QED
        BY <1>2, <2>2, <2>3, <2>7, <3>1, TargetExplains DEF IInv
    <2>9. \A e \in Copiers(DB(c)) : e \in disturbed /\ DB(c) \in blamed
      BY <1>2, <1>6 DEF IInv, Sound, Owns, Copiers
    <2>10. \A x \in Client : DB(x)' = DB(x)
      BY <1>2, SameDB
    <2>11. ASSUME NEW e \in Client \ {c} PROVE Sound(e)'
      <3>1. CASE e \in Copiers(DB(c))
        BY <1>4, <2>3, <2>7, <2>9, <3>1, DisturbedKeeps DEF IInv, Copiers
      <3>2. CASE e \notin Copiers(DB(c))
        <4>1. pc[e] \in Copying => DB(e) # DB(c) /\ DB(e) \in Branch \cup {Base}
          BY <1>1, <3>2, DBType DEF Copiers
        <4>2. pc[e] \in Copying =>
                /\ db'[DB(e)] = db[DB(e)]
                /\ \A x \in Client : pc'[x] \in Copying /\ DB(x)' = DB(e) =>
                                       pc[x] \in Copying /\ DB(x) = DB(e)
          BY <1>3, <2>2, <2>10, <4>1
        <4> QED
          BY <1>4, <2>7, <4>2, AloneKeeps DEF IInv
      <3> QED
        BY <3>1, <3>2
    <2>12. Sound(c)'
      <3>1. CASE pc'[c] \notin Copying
        BY <3>1 DEF Sound
      <3>2. CASE pc'[c] \in Copying
        <4>1. pc'[c] = "session"
          BY <1>1, <1>6, <3>2 DEF TypeOK
        <4>2. c \in disturbed' => DB(c) \in blamed
          BY <1>2, <2>9 DEF Begin
        <4>3. c \notin disturbed' => Copiers(DB(c)) = {}
          BY <1>2, <2>9 DEF Begin
        <4>4. c \notin disturbed' => Owns(c)'
          BY <1>3, <2>1, <2>2, <2>10, <4>3 DEF Owns, Copiers
        <4>5. MySQLProgress(c)'
          BY <2>1, <2>2, <2>10, <4>1 DEF MySQLProgress, Nothing
        <4> QED
          BY <1>2, <2>3, <2>5, <2>10, <4>1, <4>2, <4>4, <4>5 DEF Sound, ListFits
      <3> QED
        BY <3>1, <3>2
    <2> QED
      BY <2>4, <2>6, <2>8, <2>11, <2>12 DEF IInv
  <1> QED
    BY <1>5, <1>6 DEF CreateDatabase

(* MongoDB: nothing is made yet, and all is left to copy.                   *)
LEMMA ListCollectionsStep ==
  ASSUME IInv, NEW c \in Client, ListCollections(c)
  PROVE  IInv'
  <1> USE DEF Goto, Move, Looking, Copying, Ended
  <1>1. TypeOK /\ DB(c) \in Branch \cup {Base}
    BY DBType DEF IInv
  <1>2. /\ engine = "mongodb" /\ pc[c] = "create" /\ UNCHANGED <<engine, db, target, late, abandoned, blamed>>
        /\ Begin(c)
        /\ \/ DB(c) # Base /\ pc' = [pc EXCEPT ![c] = "tables"] /\ ListTables(c)
           \/ pc' = [pc EXCEPT ![c] = "failed"] /\ UNCHANGED todo
    BY DEF ListCollections
  <1>3. /\ pc' \in [Client -> Looking \cup Copying \cup Ended]
        /\ \A e \in Client \ {c} : pc'[e] = pc[e]
    BY <1>1, <1>2 DEF TypeOK
  <1>4. /\ disturbed' \in SUBSET Client
        /\ \A e \in Client \ {c} : e \in disturbed' <=> e \in disturbed
    BY <1>1, <1>2 DEF Begin, TypeOK
  <1>5. CASE pc' = [pc EXCEPT ![c] = "failed"] /\ UNCHANGED todo
    <2>1. pc[c] \notin Copying /\ pc'[c] \notin Copying
      BY <1>1, <1>2, <1>5 DEF TypeOK
    <2> QED
      BY <1>1, <1>2, <1>3, <1>4, <1>5, <2>1, IdleStep DEF TypeOK
  <1>6. CASE DB(c) # Base /\ pc' = [pc EXCEPT ![c] = "tables"] /\ ListTables(c)
    <2>1. PICK order \in SetToSeqs(Table) : todo' = [todo EXCEPT ![c] = order]
      BY <1>6 DEF ListTables
    <2>2. order \in Seq(Table) /\ order # <<>> /\ IsInjective(order) /\ Range(order) = Table
      BY OrderIsWhole, TableAssumption
    <2>3. /\ todo' \in [Client -> Seq(Table \cup Extra)] /\ todo'[c] = order
          /\ \A e \in Client \ {c} : todo'[e] = todo[e]
      BY <1>1, <2>1, <2>2, ListType DEF TypeOK
    <2>4. TypeOK'
      BY <1>1, <1>2, <1>3, <1>4, <2>3 DEF TypeOK
    <2>5. BaseUntouched'
      BY <1>2 DEF IInv, BaseUntouched
    <2>6. pc'[c] = "tables"
      BY <1>1, <1>6 DEF TypeOK
    <2>7. \A e \in Client \ {c} : Waits(e)
      BY <1>2, <1>3, <2>3 DEF Waits
    <2>8. PartialIsExplained'
      <3>1. Explains(c)
        BY <2>6 DEF Explains
      <3> QED
        BY <1>2, <2>7, <3>1, TargetExplains DEF IInv
    <2>9. DB(c)' = DB(c)
      BY <1>2, SameDB
    <2>10. ASSUME NEW e \in Client \ {c} PROVE Sound(e)'
      BY <1>2, <1>4, <2>7, AloneKeeps DEF IInv
    <2>11. Sound(c)'
      <3>1. c \in disturbed' => DB(c) \in blamed
        BY <1>2 DEF Begin, IInv, Sound, Copiers
      <3>2. MongoProgress(c)'
        BY <2>2, <2>3, <2>6, <2>9 DEF MongoProgress, Left
      <3> QED
        BY <1>2, <1>6, <2>2, <2>3, <2>6, <2>9, <3>1, <3>2 DEF Sound, ListFits
    <2> QED
      BY <2>4, <2>5, <2>8, <2>10, <2>11 DEF IInv
  <1> QED
    BY <1>2, <1>5, <1>6

-----------------------------------------------------------------------------
(* Steps of a copy.  Each leaves its own client sound; the rest is CopyStep. *)
LEMMA OpenSessionStep ==
  ASSUME IInv, NEW c \in Client, OpenSession(c)
  PROVE  IInv'
  <1> USE DEF Goto, Move, Looking, Copying, Ended
  <1>1. TypeOK /\ DB(c) \in Branch \cup {Base} /\ DB(c)' = DB(c)
    BY DBType, SameDB DEF IInv, OpenSession
  <1>2. /\ engine = "mysql" /\ pc[c] = "session"
        /\ UNCHANGED <<engine, db, target, late, abandoned, disturbed, blamed>>
        /\ \/ pc' = [pc EXCEPT ![c] = "tables"] /\ ListTables(c)
           \/ pc' = [pc EXCEPT ![c] = "undo"] /\ UNCHANGED todo
           \/ pc' = [pc EXCEPT ![c] = "cleanup"] /\ UNCHANGED todo
    BY DEF OpenSession
  <1>3. /\ pc' \in [Client -> Looking \cup Copying \cup Ended] /\ pc'[c] \in Copying
        /\ \A e \in Client \ {c} : pc'[e] = pc[e]
    BY <1>1, <1>2 DEF TypeOK
  <1>4. PICK order \in Seq(Table \cup Extra) :
          /\ todo' = [todo EXCEPT ![c] = order]
          /\ pc'[c] = "tables" =>
               order \in Seq(Table) /\ order # <<>> /\ IsInjective(order) /\ Range(order) = Table
    <2>1. CASE pc' = [pc EXCEPT ![c] = "tables"] /\ ListTables(c)
      BY <2>1, OrderIsWhole, TableAssumption, ListType DEF ListTables
    <2>2. CASE UNCHANGED todo /\ pc'[c] # "tables"
      BY <1>1, <2>2 DEF TypeOK
    <2> QED
      BY <1>1, <1>2, <2>1, <2>2 DEF TypeOK
  <1>5. /\ todo' \in [Client -> Seq(Table \cup Extra)] /\ todo'[c] = order
        /\ \A e \in Client \ {c} : todo'[e] = todo[e]
    BY <1>1, <1>4 DEF TypeOK
  <1>6. TypeOK'
    BY <1>1, <1>2, <1>3, <1>5 DEF TypeOK
  <1>7. BaseUntouched' /\ PartialIsExplained' /\ \A e \in Client \ {c} : Sound(e)'
    <2>1. Explains(c) /\ Adds(c)
      BY <1>2, <1>3 DEF Explains, Adds
    <2>2. \A e \in Client \ {c} : Waits(e)
      BY <1>2, <1>3, <1>5 DEF Waits
    <2> QED
      BY <1>2, <2>1, <2>2, CopyStep
  <1>8. Sound(c)'
    <2>1. Sound(c) /\ pc'[c] \in {"tables", "undo", "cleanup"}
      BY <1>1, <1>2 DEF IInv, TypeOK
    <2>2. CASE c \in disturbed
      BY <1>1, <1>2, <1>4, <1>5, <2>1, <2>2 DEF Sound, ListFits
    <2>3. CASE c \notin disturbed
      <3>1. Owns(c)'
        BY <1>1, <1>2, <1>3, <2>1, <2>3, SameDB DEF Sound, Owns
      <3>2. MySQLProgress(c)'
        BY <1>1, <1>2, <1>4, <1>5, <2>1, <2>3 DEF Sound, MySQLProgress, Left
      <3> QED
        BY <1>1, <1>2, <1>4, <1>5, <2>1, <2>3, <3>1, <3>2 DEF Sound, ListFits
    <2> QED
      BY <2>2, <2>3
  <1> QED
    BY <1>6, <1>7, <1>8 DEF IInv

(* The copy fails, or it is over.                                           *)
LEMMA OverStep ==
  ASSUME IInv, NEW c \in Client,
         Die(c) \/ FailMySQLCopy(c) \/ FailMongoCopy(c) \/ ResetSession(c)
  PROVE  IInv'
  <1> USE DEF Goto, Move, Looking, Copying, Ended
  <1>1. TypeOK /\ DB(c) \in Branch \cup {Base} /\ Sound(c)
    BY DBType DEF IInv
  <1>2. PICK p \in {"died", "undo", "cleanup", "created"} :
          /\ pc[c] \in Copying /\ pc' = [pc EXCEPT ![c] = p]
          /\ p = "died" => Blame(DB(c))
          /\ p # "died" => UNCHANGED blamed
          /\ p = "undo" => engine = "mysql"
          /\ p = "created" => pc[c] = "reset"
          /\ abandoned' \in SUBSET Statement
          /\ UNCHANGED <<engine, db, target, todo, late, disturbed>>
    BY <1>1, AbandonType DEF Die, FailMySQLCopy, FailMongoCopy, ResetSession, TypeOK
  <1>3. /\ pc' \in [Client -> Looking \cup Copying \cup Ended] /\ pc'[c] = p
        /\ \A e \in Client \ {c} : pc'[e] = pc[e]
    BY <1>1, <1>2 DEF TypeOK
  <1>4. blamed \subseteq blamed' /\ blamed' \in SUBSET (Branch \cup {Base})
    BY <1>1, <1>2 DEF TypeOK, Blame
  <1>5. TypeOK'
    BY <1>1, <1>2, <1>3, <1>4 DEF TypeOK
  <1>6. Explains(c)
    <2>1. CASE p = "created"
      BY <1>1, <1>2, <1>4, <2>1 DEF Explains, Sound, MySQLProgress, TypeOK
    <2>2. CASE p # "created"
      BY <1>2, <1>3, <2>2 DEF Explains, Blame
    <2> QED
      BY <2>1, <2>2
  <1>7. BaseUntouched' /\ PartialIsExplained' /\ \A e \in Client \ {c} : Sound(e)'
    <2>1. Adds(c) /\ \A e \in Client \ {c} : Waits(e)
      BY <1>2, <1>3, <1>4 DEF Adds, Waits
    <2> QED
      BY <1>2, <1>4, <1>6, <2>1, CopyStep
  <1>8. Sound(c)'
    <2>1. CASE p \in {"died", "created"}
      BY <1>3, <2>1 DEF Sound
    <2>2. CASE p \in {"undo", "cleanup"}
      <3>1. DB(c)' = DB(c) /\ \A x \in Client : DB(x)' = DB(x)
        BY <1>2, SameDB
      <3>2. MySQLProgress(c)' /\ MongoProgress(c)'
        BY <1>3, <2>2 DEF MySQLProgress, MongoProgress
      <3>3. Owns(c) => Owns(c)'
        BY <1>2, <1>3, <3>1 DEF Owns
      <3> QED
        BY <1>1, <1>2, <1>3, <1>4, <2>2, <3>1, <3>2, <3>3 DEF Sound, ListFits
    <2> QED
      BY <2>1, <2>2
  <1> QED
    BY <1>5, <1>7, <1>8 DEF IInv

(* A step that works on the target: it is left to show how far the client   *)
(* has come.                                                                *)
Works(c) ==
  /\ pc[c] \in Copying
  /\ pc' \in [Client -> Looking \cup Copying \cup Ended]
  /\ todo' \in [Client -> Seq(Table \cup Extra)]
  /\ \A e \in Client \ {c} : pc'[e] = pc[e] /\ todo'[e] = todo[e]
  /\ db' \in [Branch \cup {Base} -> Databases]
  /\ db'[DB(c)].there \/ ~db[DB(c)].there
  /\ db[DB(c)].makers \subseteq db'[DB(c)].makers
  /\ blamed \subseteq blamed' /\ blamed' \in SUBSET (Branch \cup {Base})
  /\ UNCHANGED <<engine, target, late, abandoned, disturbed>>

(* It is enough to show that for the client itself.                         *)
LEMMA WorkStep ==
  ASSUME IInv, NEW c \in Client, Works(c), Explains(c), Adds(c),
         pc'[c] \in Copying =>
           /\ engine = "mongodb" => pc'[c] \notin {"session", "extras", "reset", "undo"}
           /\ ListFits(c)'
           /\ c \notin disturbed /\ engine = "mysql" => MySQLProgress(c)'
           /\ c \notin disturbed /\ engine = "mongodb" => MongoProgress(c)'
  PROVE  IInv'
  <1>1. TypeOK'
    BY DEF IInv, TypeOK, Works
  <1>2. \A x \in Client : DB(x)' = DB(x)
    BY SameDB DEF Works
  <1>3. BaseUntouched' /\ PartialIsExplained' /\ \A e \in Client \ {c} : Sound(e)'
    <2>1. \A e \in Client \ {c} : Waits(e)
      BY DEF Works, Waits
    <2> QED
      BY <2>1, CopyStep DEF Works
  <1>4. Sound(c)'
    <2> SUFFICES ASSUME pc'[c] \in Copying PROVE Sound(c)'
      BY DEF Sound
    <2>1. Sound(c) /\ pc[c] \in Copying
      BY DEF IInv, Works
    <2>2. Owns(c) => Owns(c)'
      BY <1>2, <2>1 DEF Owns, Works
    <2> QED
      BY <1>2, <2>1, <2>2 DEF Sound, Works
  <1> QED
    BY <1>1, <1>3, <1>4 DEF IInv

(* What SetTable does, at the first of the tables that are left.            *)
LEMMA HeadWorks ==
  ASSUME IInv, NEW c \in Client, pc[c] \in {"tables", "rows"},
         NEW copy \in Copies, SetTable(c, Head(todo[c]), copy)
  PROVE  /\ Head(todo[c]) \in Table
         /\ db' \in [Branch \cup {Base} -> Databases]
         /\ \A d \in (Branch \cup {Base}) \ {DB(c)} : db'[d] = db[d]
         /\ db'[DB(c)].there /\ db'[DB(c)].makers = db[DB(c)].makers \cup {c}
         /\ db'[DB(c)].extras = db[DB(c)].extras
         /\ \A u \in Table :
              db'[DB(c)].tables[u] = IF u = Head(todo[c]) THEN copy ELSE db[DB(c)].tables[u]
  <1>1. TypeOK /\ todo[c] \in Seq(Table) /\ todo[c] # <<>> /\ IsInjective(todo[c])
    BY DEF IInv, Sound, ListFits, Copying
  <1>2. Head(todo[c]) \in Table
    BY <1>1, OneLess
  <1>3. PICK t \in Table : t = Head(todo[c])
    BY <1>2
  <1>4. SetTable(c, t, copy)
    BY <1>3
  <1>5. /\ db' \in [Branch \cup {Base} -> Databases]
        /\ \A d \in (Branch \cup {Base}) \ {DB(c)} : db'[d] = db[d]
    BY <1>1, <1>3, <1>4, SetTableMakes
  <1>6. /\ db'[DB(c)].there /\ db'[DB(c)].makers = db[DB(c)].makers \cup {c}
        /\ db'[DB(c)].extras = db[DB(c)].extras
    BY <1>1, <1>3, <1>4, SetTableMakes
  <1>7. \A u \in Table : db'[DB(c)].tables[u] = IF u = t THEN copy ELSE db[DB(c)].tables[u]
    BY <1>1, <1>3, <1>4, SetTableMakes
  <1> QED
    BY <1>3, <1>5, <1>6, <1>7

(* A table is there, without its rows.                                      *)
LEMMA CreateTableStep ==
  ASSUME IInv, NEW c \in Client, CreateTable(c)
  PROVE  IInv'
  <1> DEFINE t == Head(todo[c])
             copy == LaidOut(db[DB(c)].tables[t])
  <1>1. TypeOK /\ DB(c) \in Branch \cup {Base} /\ Sound(c)
    BY DBType DEF IInv
  <1>2. /\ engine = "mysql" /\ pc[c] = "tables" /\ pc' = [pc EXCEPT ![c] = "rows"]
        /\ SetTable(c, t, copy)
        /\ UNCHANGED <<engine, target, todo, late, abandoned, disturbed, blamed>>
    BY DEF CreateTable, Move, Goto
  <1>3. todo[c] \in Seq(Table) /\ todo[c] # <<>> /\ IsInjective(todo[c])
    BY <1>1, <1>2 DEF Sound, ListFits, Copying
  <1>4. t \in Table /\ t \in Left(c)
    BY <1>3, OneLess DEF Left
  <1>5. /\ copy \in Copies /\ copy.shape = "indexed" /\ copy.rows = db[DB(c)].tables[t].rows
    <2>1. db[DB(c)].tables[t] \in Copies
      BY <1>1, <1>4 DEF TypeOK, Databases
    <2> QED
      BY <2>1 DEF Copies, Shapes, LaidOut
  <1> HIDE DEF copy
  <1>6. /\ db' \in [Branch \cup {Base} -> Databases]
        /\ \A d \in (Branch \cup {Base}) \ {DB(c)} : db'[d] = db[d]
        /\ db'[DB(c)].there /\ db'[DB(c)].makers = db[DB(c)].makers \cup {c}
        /\ \A u \in Table : db'[DB(c)].tables[u] = IF u = t THEN copy ELSE db[DB(c)].tables[u]
    BY <1>2, <1>5, HeadWorks
  <1>7. pc'[c] = "rows" /\ Works(c)
    BY <1>1, <1>2, <1>6 DEF TypeOK, Works, Looking, Copying, Ended
  <1>8. Explains(c) /\ Adds(c)
    BY <1>2, <1>6, <1>7 DEF Explains, Adds, Copying
  <1>9. c \notin disturbed => MySQLProgress(c)'
    <2>1. DB(c)' = DB(c) /\ Left(c)' = Left(c) /\ Head(todo[c])' = t
      BY <1>2, SameDB DEF Left
    <2>2. c \notin disturbed =>
            \A u \in Table :
              IF u \in Left(c) THEN db[DB(c)].tables[u].rows = 0 ELSE db[DB(c)].tables[u] = Copied
      BY <1>1, <1>2 DEF Sound, MySQLProgress, Copying
    <2> QED
      BY <1>4, <1>5, <1>6, <1>7, <2>1, <2>2 DEF MySQLProgress
  <1>10. ListFits(c)'
    BY <1>2, <1>3, <1>7 DEF ListFits
  <1> QED
    BY <1>2, <1>7, <1>8, <1>9, <1>10, WorkStep

(* Its rows are there too, once: nobody else has copied them.               *)
LEMMA CopyRowsStep ==
  ASSUME IInv, NEW c \in Client, CopyRows(c)
  PROVE  IInv'
  <1> DEFINE t == Head(todo[c])
             copy == Inserted(db[DB(c)].tables[t])
  <1>1. TypeOK /\ DB(c) \in Branch \cup {Base} /\ Sound(c)
    BY DBType DEF IInv
  <1>2. /\ engine = "mysql" /\ pc[c] = "rows"
        /\ \/ /\ Tail(todo[c]) # <<>> /\ pc' = [pc EXCEPT ![c] = "tables"]
              /\ todo' = [todo EXCEPT ![c] = Tail(todo[c])]
           \/ /\ Tail(todo[c]) = <<>> /\ pc' = [pc EXCEPT ![c] = "extras"]
              /\ \E order \in SetToSeqs(Extra) : todo' = [todo EXCEPT ![c] = order]
        /\ SetTable(c, t, copy)
        /\ UNCHANGED <<engine, target, late, abandoned, disturbed, blamed>>
    BY <1>1 DEF CopyRows, NextTable, Goto, TypeOK
  <1>3. todo[c] \in Seq(Table) /\ todo[c] # <<>> /\ IsInjective(todo[c])
    BY <1>1, <1>2 DEF Sound, ListFits, Copying
  <1>4. /\ t \in Table /\ t \in Left(c) /\ Tail(todo[c]) \in Seq(Table) /\ IsInjective(Tail(todo[c]))
        /\ Range(Tail(todo[c])) = Left(c) \ {t}
        /\ Tail(todo[c]) = <<>> => Left(c) = {t}
    BY <1>3, OneLess DEF Left
  <1>5. /\ copy \in Copies
        /\ db[DB(c)].tables[t].shape = "indexed" /\ db[DB(c)].tables[t].rows = 0 => copy = Copied
    <2>1. db[DB(c)].tables[t] \in Copies
      BY <1>1, <1>4 DEF TypeOK, Databases
    <2> QED
      BY <2>1 DEF Copies, Shapes, Copied, Inserted
  <1> HIDE DEF copy
  <1>6. /\ db' \in [Branch \cup {Base} -> Databases]
        /\ \A d \in (Branch \cup {Base}) \ {DB(c)} : db'[d] = db[d]
        /\ db'[DB(c)].there /\ db'[DB(c)].makers = db[DB(c)].makers \cup {c}
        /\ \A u \in Table : db'[DB(c)].tables[u] = IF u = t THEN copy ELSE db[DB(c)].tables[u]
    BY <1>2, <1>5, HeadWorks
  <1>7. PICK list \in Seq(Table \cup Extra) :
          /\ todo' = [todo EXCEPT ![c] = list]
          /\ Tail(todo[c]) # <<>> => list = Tail(todo[c])
          /\ Tail(todo[c]) = <<>> => list \in Seq(Extra) /\ Range(list) = Extra
    BY <1>2, <1>4, OrderIsWhole, TableAssumption, ListType
  <1>8. /\ pc'[c] = IF Tail(todo[c]) = <<>> THEN "extras" ELSE "tables"
        /\ todo'[c] = list /\ Works(c)
    BY <1>1, <1>2, <1>6, <1>7 DEF TypeOK, Works, Looking, Copying, Ended
  <1>9. Explains(c) /\ Adds(c)
    BY <1>2, <1>6, <1>8 DEF Explains, Adds, Copying
  <1>10. c \notin disturbed => MySQLProgress(c)'
    <2>1. DB(c)' = DB(c) /\ Left(c)' = Range(list)
      BY <1>2, <1>8, SameDB DEF Left
    <2>2. c \notin disturbed =>
            /\ \A u \in Table :
                 IF u \in Left(c) THEN db[DB(c)].tables[u].rows = 0 ELSE db[DB(c)].tables[u] = Copied
            /\ db[DB(c)].tables[t].shape = "indexed"
      BY <1>1, <1>2 DEF Sound, MySQLProgress, Copying
    <2>3. c \notin disturbed =>
            \A u \in Table :
              IF u \in Left(c) \ {t} THEN db'[DB(c)].tables[u].rows = 0
              ELSE db'[DB(c)].tables[u] = Copied
      BY <1>4, <1>5, <1>6, <2>2
    <2> QED
      BY <1>4, <1>7, <1>8, <2>1, <2>3 DEF MySQLProgress
  <1>11. ListFits(c)'
    BY <1>4, <1>7, <1>8 DEF ListFits
  <1> QED
    BY <1>2, <1>8, <1>9, <1>10, <1>11, WorkStep

(* A view or a trigger more, until they are all there.                      *)
LEMMA CreateExtraStep ==
  ASSUME IInv, NEW c \in Client, CreateExtra(c)
  PROVE  IInv'
  <1>1. TypeOK /\ DB(c) \in Branch \cup {Base} /\ Sound(c)
    BY DBType DEF IInv
  <1>2. /\ engine = "mysql" /\ pc[c] = "extras" /\ todo[c] \in Seq(Extra)
        /\ UNCHANGED <<engine, target, late, abandoned, disturbed, blamed>>
    BY <1>1 DEF CreateExtra, Sound, ListFits, Copying
  <1>3. DB(c)' = DB(c) /\ db[DB(c)] \in Databases
    BY <1>1, <1>2, SameDB DEF TypeOK
  <1>4. c \notin disturbed =>
          /\ \A t \in Table : db[DB(c)].tables[t] = Copied
          /\ \A x \in Extra \ Left(c) : x \in db[DB(c)].extras
    BY <1>1, <1>2 DEF Sound, MySQLProgress, Copying
  <1>5. CASE /\ todo[c] # <<>> /\ db[DB(c)].there
             /\ db' = [db EXCEPT ![DB(c)].extras = @ \cup {Head(todo[c])},
                                 ![DB(c)].makers = @ \cup {c}]
             /\ todo' = [todo EXCEPT ![c] = Tail(todo[c])] /\ UNCHANGED pc
    <2>1. PICK x \in Extra : x = Head(todo[c])
      BY <1>2, <1>5, OneLessAtMost
    <2>2. Tail(todo[c]) \in Seq(Extra) /\ Left(c) \ {x} \subseteq Range(Tail(todo[c]))
      BY <1>2, <1>5, <2>1, OneLessAtMost DEF Left
    <2> DEFINE new == [db[DB(c)] EXCEPT !.extras = @ \cup {x}, !.makers = @ \cup {c}]
    <2>3. /\ new \in Databases /\ new.there /\ new.tables = db[DB(c)].tables
          /\ db[DB(c)].makers \subseteq new.makers /\ new.extras = db[DB(c)].extras \cup {x}
      BY <1>3, <1>5 DEF Databases
    <2>4. db' = [db EXCEPT ![DB(c)] = new]
      BY <1>1, <1>5, <2>1 DEF TypeOK
    <2> HIDE DEF new
    <2>5. /\ db' \in [Branch \cup {Base} -> Databases] /\ db'[DB(c)] = new
          /\ \A d \in (Branch \cup {Base}) \ {DB(c)} : db'[d] = db[d]
      BY <1>1, <2>3, <2>4 DEF TypeOK
    <2>6. /\ todo' \in [Client -> Seq(Table \cup Extra)] /\ todo'[c] = Tail(todo[c])
          /\ \A e \in Client \ {c} : todo'[e] = todo[e]
      BY <1>1, <1>5, <2>2, ListType DEF TypeOK
    <2>7. pc'[c] = "extras" /\ Works(c)
      BY <1>1, <1>2, <1>5, <2>3, <2>5, <2>6 DEF TypeOK, Works, Copying
    <2>8. Explains(c) /\ Adds(c)
      BY <1>2, <2>5, <2>7 DEF Explains, Adds, Copying
    <2>9. c \notin disturbed => MySQLProgress(c)'
      <3>1. Left(c)' = Range(Tail(todo[c]))
        BY <2>6 DEF Left
      <3> QED
        BY <1>3, <1>4, <2>2, <2>3, <2>5, <2>7, <3>1 DEF MySQLProgress
    <2>10. ListFits(c)'
      BY <2>2, <2>6, <2>7 DEF ListFits
    <2> QED
      BY <1>2, <2>7, <2>8, <2>9, <2>10, WorkStep
  <1>6. CASE todo[c] = <<>> /\ Goto(c, "reset") /\ UNCHANGED <<db, todo>>
    <2>1. pc'[c] = "reset" /\ Works(c)
      BY <1>1, <1>2, <1>6 DEF TypeOK, Works, Goto, Looking, Copying, Ended
    <2>2. Explains(c) /\ Adds(c)
      BY <1>2, <1>6, <2>1 DEF Explains, Adds, Copying
    <2>3. c \notin disturbed => MySQLProgress(c)'
      <3>1. Left(c) = {} /\ db[DB(c)].extras \subseteq Extra
        BY <1>3, <1>6 DEF Left, Range, Databases
      <3> QED
        BY <1>3, <1>4, <1>6, <2>1, <3>1 DEF MySQLProgress
    <2>4. ListFits(c)'
      BY <2>1 DEF ListFits
    <2> QED
      BY <1>2, <2>1, <2>2, <2>3, <2>4, WorkStep
  <1> QED
    BY <1>5, <1>6 DEF CreateExtra

(* All rows of a collection at once, whoever else copied them before.       *)
LEMMA CopyCollectionStep ==
  ASSUME IInv, NEW c \in Client, CopyCollection(c)
  PROVE  IInv'
  <1> DEFINE t == Head(todo[c])
             old == db[DB(c)].tables[t]
             copy == PutOut(old)
  <1>1. TypeOK /\ DB(c) \in Branch \cup {Base} /\ Sound(c)
    BY DBType DEF IInv
  <1>2. /\ engine = "mongodb" /\ pc[c] = "tables" /\ pc' = [pc EXCEPT ![c] = "rows"]
        /\ SetTable(c, t, copy)
        /\ UNCHANGED <<engine, target, todo, late, abandoned, disturbed, blamed>>
    BY DEF CopyCollection, Move, Goto
  <1>3. todo[c] \in Seq(Table) /\ todo[c] # <<>> /\ IsInjective(todo[c])
    BY <1>1, <1>2 DEF Sound, ListFits, Copying
  <1>4. t \in Table
    BY <1>3, OneLess
  <1>5. /\ copy \in Copies /\ copy.rows = 1
        /\ old.shape = "indexed" => copy.shape = "indexed"
    <2>1. old \in Copies
      BY <1>1, <1>4 DEF TypeOK, Databases
    <2> QED
      BY <2>1 DEF Copies, Shapes, PutOut
  <1> HIDE DEF copy
  <1>6. /\ db' \in [Branch \cup {Base} -> Databases]
        /\ \A d \in (Branch \cup {Base}) \ {DB(c)} : db'[d] = db[d]
        /\ db'[DB(c)].there /\ db'[DB(c)].makers = db[DB(c)].makers \cup {c}
        /\ \A u \in Table : db'[DB(c)].tables[u] = IF u = t THEN copy ELSE db[DB(c)].tables[u]
    BY <1>2, <1>5, HeadWorks
  <1>7. pc'[c] = "rows" /\ Works(c)
    BY <1>1, <1>2, <1>6 DEF TypeOK, Works, Looking, Copying, Ended
  <1>8. Explains(c) /\ Adds(c)
    BY <1>2, <1>5, <1>6, <1>7 DEF Explains, Adds, Copying
  <1>9. c \notin disturbed => MongoProgress(c)'
    <2>1. DB(c)' = DB(c) /\ Left(c)' = Left(c) /\ Head(todo[c])' = t
      BY <1>2, SameDB DEF Left
    <2>2. c \notin disturbed =>
            \A u \in Table \ Left(c) :
              /\ db[DB(c)].tables[u].rows = 1
              /\ db[DB(c)].tables[u].shape = "indexed" \/ DB(c) \in blamed
      BY <1>1, <1>2 DEF Sound, MongoProgress, Copying
    <2>3. c \notin disturbed =>
            \A u \in Table \ Left(c) :
              /\ db'[DB(c)].tables[u].rows = 1
              /\ db'[DB(c)].tables[u].shape = "indexed" \/ DB(c) \in blamed
      BY <1>5, <1>6, <2>2
    <2> QED
      BY <1>2, <1>4, <1>5, <1>6, <2>1, <2>3 DEF MongoProgress
  <1>10. ListFits(c)'
    BY <1>2, <1>3, <1>7 DEF ListFits
  <1> QED
    BY <1>2, <1>7, <1>8, <1>9, <1>10, WorkStep

(* Once the last collection has its indexes, or has been passed over, the   *)
(* database is whole, or has a record of what it lacks.                     *)
LEMMA CreateIndexesStep ==
  ASSUME IInv, NEW c \in Client, CreateIndexes(c)
  PROVE  /\ IInv'
         /\ pc'[c] = "created" /\ c \notin disturbed =>
              \A t \in Table :
                /\ db'[DB(c)].tables[t].rows = 1
                /\ db'[DB(c)].tables[t] = Copied \/ DB(c) \in blamed'
  <1> DEFINE t == Head(todo[c])
             copy == LaidOut(db[DB(c)].tables[t])
  <1>1. TypeOK /\ DB(c) \in Branch \cup {Base} /\ Sound(c)
    BY DBType DEF IInv
  <1>2. /\ engine = "mongodb" /\ pc[c] = "rows"
        /\ pc' = [pc EXCEPT ![c] = IF Tail(todo[c]) = <<>> THEN "created" ELSE "tables"]
        /\ todo' = [todo EXCEPT ![c] = Tail(todo[c])]
        /\ \/ SetTable(c, t, copy) /\ UNCHANGED blamed
           \/ Blame(DB(c)) /\ UNCHANGED db
        /\ UNCHANGED <<engine, target, late, abandoned, disturbed>>
    BY <1>1 DEF CreateIndexes, NextTable, Goto, TypeOK
  <1>3. todo[c] \in Seq(Table) /\ todo[c] # <<>> /\ IsInjective(todo[c])
    BY <1>1, <1>2 DEF Sound, ListFits, Copying
  <1>4. /\ t \in Table /\ Tail(todo[c]) \in Seq(Table) /\ IsInjective(Tail(todo[c]))
        /\ Range(Tail(todo[c])) = Left(c) \ {t}
        /\ Tail(todo[c]) = <<>> => Left(c) = {t}
    BY <1>3, OneLess DEF Left
  <1>5. copy \in Copies /\ copy.shape = "indexed" /\ copy.rows = db[DB(c)].tables[t].rows
    <2>1. db[DB(c)].tables[t] \in Copies
      BY <1>1, <1>4 DEF TypeOK, Databases
    <2> QED
      BY <2>1 DEF Copies, Shapes, LaidOut
  <1> HIDE DEF copy
  <1>6. /\ db' \in [Branch \cup {Base} -> Databases]
        /\ \A d \in (Branch \cup {Base}) \ {DB(c)} : db'[d] = db[d]
        /\ db'[DB(c)].there \/ ~db[DB(c)].there
        /\ db[DB(c)].makers \subseteq db'[DB(c)].makers
        /\ \A u \in Table :
             /\ db'[DB(c)].tables[u] \in Copies
             /\ db'[DB(c)].tables[u].rows = db[DB(c)].tables[u].rows
             /\ db[DB(c)].tables[u].shape = "indexed" => db'[DB(c)].tables[u].shape = "indexed"
        /\ db'[DB(c)].tables[t].shape = "indexed" \/ DB(c) \in blamed'
    <2>1. CASE SetTable(c, t, copy)
      <3>1. /\ db' \in [Branch \cup {Base} -> Databases]
            /\ \A d \in (Branch \cup {Base}) \ {DB(c)} : db'[d] = db[d]
            /\ db'[DB(c)].there /\ db'[DB(c)].makers = db[DB(c)].makers \cup {c}
            /\ \A u \in Table : db'[DB(c)].tables[u] = IF u = t THEN copy ELSE db[DB(c)].tables[u]
        BY <1>2, <1>5, <2>1, HeadWorks
      <3>2. \A u \in Table : db'[DB(c)].tables[u] \in Copies
        BY <1>1, <3>1 DEF Databases
      <3> QED
        BY <1>4, <1>5, <3>1, <3>2
    <2>2. CASE Blame(DB(c)) /\ UNCHANGED db
      <3>1. \A u \in Table : db[DB(c)].tables[u] \in Copies
        BY <1>1 DEF TypeOK, Databases
      <3> QED
        BY <1>1, <2>2, <3>1 DEF Blame, TypeOK
    <2> QED
      BY <1>2, <2>1, <2>2
  <1>7. blamed \subseteq blamed' /\ blamed' \in SUBSET (Branch \cup {Base})
    BY <1>1, <1>2 DEF Blame, TypeOK
  <1>8. /\ pc'[c] = IF Tail(todo[c]) = <<>> THEN "created" ELSE "tables"
        /\ todo'[c] = Tail(todo[c]) /\ Works(c)
    BY <1>1, <1>2, <1>4, <1>6, <1>7, ListType DEF TypeOK, Works, Looking, Copying, Ended
  <1>9. c \notin disturbed =>
          /\ \A u \in Table \ (Left(c) \ {t}) :
               /\ db'[DB(c)].tables[u].rows = 1
               /\ db'[DB(c)].tables[u].shape = "indexed" \/ DB(c) \in blamed'
          /\ c \in db[DB(c)].makers
    <2>1. c \notin disturbed =>
            /\ \A u \in Table \ Left(c) :
                 /\ db[DB(c)].tables[u].rows = 1
                 /\ db[DB(c)].tables[u].shape = "indexed" \/ DB(c) \in blamed
            /\ db[DB(c)].tables[t].rows = 1
            /\ c \in db[DB(c)].makers
      BY <1>1, <1>2 DEF Sound, MongoProgress, Copying
    <2> QED
      BY <1>4, <1>6, <1>7, <2>1
  <1>10. pc'[c] = "created" /\ c \notin disturbed =>
           \A u \in Table :
             /\ db'[DB(c)].tables[u].rows = 1
             /\ db'[DB(c)].tables[u] = Copied \/ DB(c) \in blamed'
    BY <1>4, <1>6, <1>8, <1>9 DEF Copies, Copied
  <1>11. Adds(c)
    BY <1>6 DEF Adds
  <1>12. Explains(c)
    <2>1. CASE pc'[c] # "created"
      BY <1>8, <2>1 DEF Explains, Copying
    <2>2. CASE c \in disturbed
      BY <1>1, <1>2, <1>7, <2>2 DEF Explains, Sound, Copying
    <2>3. CASE pc'[c] = "created" /\ c \notin disturbed
      BY <1>2, <1>10, <2>3 DEF Explains
    <2> QED
      BY <2>1, <2>2, <2>3
  <1>13. c \notin disturbed => MongoProgress(c)'
    <2>1. DB(c)' = DB(c) /\ Left(c)' = Left(c) \ {t}
      BY <1>2, <1>4, <1>8, SameDB DEF Left
    <2> QED
      BY <1>6, <1>8, <1>9, <2>1 DEF MongoProgress
  <1>14. ListFits(c)'
    BY <1>4, <1>8 DEF ListFits
  <1>15. IInv'
    BY <1>2, <1>8, <1>11, <1>12, <1>13, <1>14, WorkStep DEF Copying
  <1> QED
    BY <1>10, <1>15

-----------------------------------------------------------------------------
(* What an abandoned statement makes of a database: nothing of the base one,*)
(* and nowhere less than there was.  Only MySQL's INSERT can spoil rows.    *)
Grows(old, new) ==
  /\ new \in Databases /\ new.makers = old.makers /\ (old.there => new.there)
  /\ old.extras \subseteq new.extras
  /\ \A t \in Table : old.tables[t].shape = "indexed" => new.tables[t].shape = "indexed"
  /\ \A t \in Table : old.tables[t].rows = 1 /\ engine = "mongodb" => new.tables[t].rows = 1

LEMMA OutcomeGrows ==
  ASSUME TypeOK, NEW s \in Statement
  PROVE  /\ s.to \in Branch \cup {Base}
         /\ Grows(db[s.to], Outcome(s))
         /\ engine = "mysql" /\ s.op # "rows" =>
              \A t \in Table : Outcome(s).tables[t].rows = db[s.to].tables[t].rows
         /\ s.to = Base /\ db[Base].there => Outcome(s) = db[Base]
  <1> DEFINE d == db[s.to]
  <1>1. s.to \in Branch \cup {Base} /\ engine \in {"mysql", "mongodb"}
    BY DEF Statement, TypeOK
  <1>2. d \in Databases /\ \A t \in Table : d.tables[t] \in Copies
    BY <1>1 DEF TypeOK, Databases
  <1>3. ASSUME NEW t \in Table
        PROVE  /\ LaidOut(d.tables[t]) \in Copies /\ LaidOut(d.tables[t]).shape = "indexed"
               /\ LaidOut(d.tables[t]).rows = d.tables[t].rows
               /\ Inserted(d.tables[t]) \in Copies
               /\ Inserted(d.tables[t]).shape = d.tables[t].shape
               /\ PutOut(d.tables[t]) \in Copies /\ PutOut(d.tables[t]).rows = 1
               /\ d.tables[t].shape = "indexed" => PutOut(d.tables[t]).shape = "indexed"
    BY <1>2 DEF LaidOut, Inserted, PutOut, Copies, Shapes
  <1>4. s.op \in {"tables", "rows"} => s.object \in Table /\ s.to \in Branch
    BY DEF Statement
  <1>5. s.op = "extras" => s.object \in Extra /\ s.to \in Branch
    BY DEF Statement
  <1>6. Base \notin Branch /\ s.op \in {"create", "tables", "rows", "extras"}
    BY NameAssumption DEF Statement
  <1>7. CASE Outcome(s) = d
    BY <1>1, <1>2, <1>7 DEF Grows
  <1>8. CASE s.op = "create"
    <2>1. Outcome(s) = [d EXCEPT !.there = TRUE]
      BY <1>8 DEF Outcome
    <2>2. d.there => Outcome(s) = d
      BY <1>2, <2>1 DEF Databases
    <2> QED
      BY <1>1, <1>2, <1>8, <2>1, <2>2 DEF Grows, Databases
  <1>9. CASE s.op \in {"tables", "rows"} /\ Outcome(s) # d
    <2>1. PICK t \in Table : t = s.object
      BY <1>4, <1>9
    <2>2. PICK there \in {d.there, TRUE}, copy \in {LaidOut(d.tables[t]), Inserted(d.tables[t]), PutOut(d.tables[t])} :
            /\ Outcome(s) = [d EXCEPT !.there = there, !.tables[t] = copy]
            /\ engine = "mysql" /\ s.op # "rows" => copy = LaidOut(d.tables[t])
            /\ engine = "mongodb" => copy \in {LaidOut(d.tables[t]), PutOut(d.tables[t])}
      <3>1. d = [d EXCEPT !.there = d.there]
        BY <1>2 DEF Databases
      <3>2. CASE engine = "mysql"
        BY <1>2, <1>9, <2>1, <3>1, <3>2 DEF Outcome, Databases
      <3>3. CASE engine = "mongodb"
        BY <1>2, <1>9, <2>1, <3>1, <3>3 DEF Outcome, Databases
      <3> QED
        BY <1>1, <3>2, <3>3
    <2>3. /\ copy \in Copies
          /\ d.tables[t].shape = "indexed" => copy.shape = "indexed"
          /\ engine = "mysql" /\ s.op # "rows" => copy.rows = d.tables[t].rows
          /\ engine = "mongodb" /\ d.tables[t].rows = 1 => copy.rows = 1
      BY <1>3, <2>2
    <2>4. /\ Outcome(s) \in Databases /\ Outcome(s).makers = d.makers
          /\ Outcome(s).there = there /\ Outcome(s).extras = d.extras
          /\ \A u \in Table : Outcome(s).tables[u] = IF u = t THEN copy ELSE d.tables[u]
      <3> DEFINE new == [d EXCEPT !.there = there, !.tables[t] = copy]
      <3>1. there \in BOOLEAN /\ copy \in Copies
        <4>1. d.there \in BOOLEAN
          BY <1>2 DEF Databases
        <4> QED
          BY <2>2, <2>3, <4>1
      <3>2. /\ new \in Databases /\ new.makers = d.makers
            /\ new.there = there /\ new.extras = d.extras
            /\ \A u \in Table : new.tables[u] = IF u = t THEN copy ELSE d.tables[u]
        BY <1>2, <3>1 DEF Databases
      <3> QED
        BY <2>2, <3>2
    <2>5. /\ d.there => there
          /\ \A u \in Table :
               /\ d.tables[u].shape = "indexed" => Outcome(s).tables[u].shape = "indexed"
               /\ d.tables[u].rows = 1 /\ engine = "mongodb" => Outcome(s).tables[u].rows = 1
               /\ engine = "mysql" /\ s.op # "rows" => Outcome(s).tables[u].rows = d.tables[u].rows
      <3> HIDE DEF d
      <3>1. d.there => there
        BY <2>2, Zenon
      <3>2. ASSUME NEW u \in Table
            PROVE  /\ d.tables[u].shape = "indexed" => Outcome(s).tables[u].shape = "indexed"
                   /\ d.tables[u].rows = 1 /\ engine = "mongodb" => Outcome(s).tables[u].rows = 1
                   /\ engine = "mysql" /\ s.op # "rows" => Outcome(s).tables[u].rows = d.tables[u].rows
        BY <2>3, <2>4
      <3> QED
        BY <3>1, <3>2
    <2> HIDE DEF d
    <2>6. Grows(d, Outcome(s))
      BY <2>4, <2>5 DEF Grows
    <2> QED
      BY <1>1, <1>4, <1>6, <1>9, <2>5, <2>6 DEF d
  <1>10. CASE s.op = "extras" /\ Outcome(s) # d
    <2>1. Outcome(s) = [d EXCEPT !.extras = @ \cup {s.object}]
      BY <1>10 DEF Outcome
    <2> QED
      BY <1>1, <1>2, <1>5, <1>6, <1>10, <2>1 DEF Grows, Databases
  <1> QED
    BY <1>6, <1>7, <1>8, <1>9, <1>10

(* It harms nobody's copy but those it meets with their rows, and leaves a  *)
(* record where nobody is left to clean up.                                 *)
LEMMA LateWriteStep ==
  ASSUME IInv, NEW s \in abandoned, LateWrite(s)
  PROVE  IInv'
  <1>1. /\ TypeOK /\ s \in Statement /\ s.to \in Branch \cup {Base}
        /\ UNCHANGED <<engine, pc, target, todo, late>> /\ abandoned' \in SUBSET Statement
    BY OutcomeGrows DEF IInv, TypeOK, LateWrite
  <1>2. \A e \in Client : DB(e)' = DB(e)
    BY <1>1, SameDB
  <1>3. CASE UNCHANGED <<db, disturbed, blamed>>
    <2>1. TypeOK' /\ BaseUntouched'
      BY <1>1, <1>3 DEF IInv, TypeOK, BaseUntouched
    <2>2. PartialIsExplained'
      BY <1>1, <1>2, <1>3 DEF IInv, PartialIsExplained, Copiers, Whole
    <2>3. ASSUME NEW e \in Client PROVE Sound(e)'
      <3>1. Waits(e)
        BY <1>1, <1>3 DEF Waits
      <3> QED
        BY <1>1, <1>2, <1>3, <3>1, AloneKeeps DEF IInv
    <2> QED
      BY <2>1, <2>2, <2>3 DEF IInv
  <1>4. CASE /\ Outcome(s) # db[s.to] /\ db' = [db EXCEPT ![s.to] = Outcome(s)]
             /\ disturbed' = disturbed \cup Harmed(s)
             /\ blamed' = IF Harmed(s) = {} /\ Copiers(s.to) # {} THEN blamed ELSE blamed \cup {s.to}
    <2>1. /\ Grows(db[s.to], Outcome(s)) /\ Outcome(s) \in Databases
          /\ engine = "mysql" /\ s.op # "rows" =>
               \A t \in Table : Outcome(s).tables[t].rows = db[s.to].tables[t].rows
      BY <1>1, OutcomeGrows DEF Grows
    <2>2. s.to # Base
      <3>1. db[Base].there
        BY DEF IInv, BaseUntouched, Model
      <3> QED
        BY <1>1, <1>4, <3>1, OutcomeGrows
    <2>3. /\ db' \in [Branch \cup {Base} -> Databases] /\ db'[s.to] = Outcome(s)
          /\ \A d \in (Branch \cup {Base}) \ {s.to} : db'[d] = db[d]
      BY <1>1, <1>4, <2>1 DEF TypeOK
    <2>4. /\ blamed \subseteq blamed' /\ blamed' \in SUBSET (Branch \cup {Base})
          /\ disturbed' \in SUBSET Client
      BY <1>1, <1>4 DEF TypeOK, Harmed, Involved, Copiers
    <2>5. TypeOK' /\ BaseUntouched'
      BY <1>1, <2>2, <2>3, <2>4 DEF IInv, TypeOK, BaseUntouched
    <2>6. PartialIsExplained'
      <3> SUFFICES ASSUME NEW d \in Branch, db'[d].there, Copiers(d)' = {}, ~Whole(d)'
                   PROVE  d \in blamed'
        BY DEF PartialIsExplained
      <3>1. Copiers(d) = {}
        BY <1>1, <1>2 DEF Copiers
      <3>2. CASE d = s.to
        BY <1>4, <3>1, <3>2
      <3>3. CASE d # s.to
        <4>1. db[d].there /\ ~Whole(d)
          BY <1>1, <2>3, <3>3 DEF Whole
        <4> QED
          BY <2>4, <3>1, <4>1 DEF IInv, PartialIsExplained
      <3> QED
        BY <3>2, <3>3
    <2>7. ASSUME NEW e \in Client PROVE Sound(e)'
      <3>1. Waits(e) /\ Sound(e) /\ DB(e) \in Branch \cup {Base}
        BY <1>1, <2>4, DBType DEF Waits, IInv
      <3>2. CASE pc[e] \notin Copying
        BY <1>1, <3>2 DEF Sound
      <3>3. CASE pc[e] \in Copying /\ e \in disturbed'
        <4>1. DB(e) \in blamed'
          BY <1>4, <2>4, <3>1, <3>3 DEF Sound, Harmed, Involved, Copiers
        <4> QED
          BY <3>1, <3>3, <4>1, DisturbedKeeps
      <3>4. CASE pc[e] \in Copying /\ e \notin disturbed' /\ DB(e) # s.to
        <4>1. e \in disturbed' <=> e \in disturbed
          BY <1>4, <3>4
        <4> QED
          BY <1>1, <1>2, <2>3, <3>1, <3>4, <4>1, AloneKeeps
      <3>5. CASE pc[e] \in Copying /\ e \notin disturbed' /\ DB(e) = s.to /\ engine = "mongodb"
        <4>1. e \in disturbed' <=> e \in disturbed
          BY <1>4, <3>5
        <4>2. pc[e] \in {"tables", "rows"} => Head(todo[e]) \in Table
          BY <3>1, <3>5, OneLess DEF Sound, ListFits
        <4>3. /\ db[DB(e)].makers \subseteq db'[DB(e)].makers
              /\ \A t \in Table :
                   /\ db[DB(e)].tables[t].rows = 1 => db'[DB(e)].tables[t].rows = 1
                   /\ db[DB(e)].tables[t].shape = "indexed" => db'[DB(e)].tables[t].shape = "indexed"
          BY <2>1, <2>3, <3>5 DEF Grows
        <4> QED
          BY <3>1, <3>5, <4>1, <4>2, <4>3, GrowthKeeps
      <3>6. CASE pc[e] \in Copying /\ e \notin disturbed' /\ DB(e) = s.to /\ engine = "mysql"
        <4>1. e \notin disturbed /\ e \notin Harmed(s)
          BY <1>4, <3>6
        <4>2. Owns(e) /\ MySQLProgress(e)
          BY <3>1, <3>6, <4>1 DEF Sound
        <4>3. Owns(e)'
          BY <1>1, <1>2, <2>1, <2>3, <3>6, <4>2 DEF Owns, Grows
        <4>4. s.op = "rows" => pc[e] \in {"undo", "cleanup"}
          BY <3>6, <4>1, <4>2 DEF Harmed, Involved, Copiers, Owns
        <4>5. MySQLProgress(e)'
          <5>1. CASE s.op = "rows"
            BY <1>1, <4>4, <5>1 DEF MySQLProgress
          <5>2. CASE s.op # "rows"
            <6>1. DB(e)' = DB(e) /\ Left(e)' = Left(e)
              BY <1>1, <1>2 DEF Left
            <6>2. \A t \in Table :
                    /\ db'[DB(e)].tables[t].rows = db[DB(e)].tables[t].rows
                    /\ db[DB(e)].tables[t].shape = "indexed" => db'[DB(e)].tables[t].shape = "indexed"
                    /\ db'[DB(e)].tables[t] \in Copies
              BY <2>1, <2>3, <3>6, <5>2 DEF Grows, Databases
            <6>3. \A t \in Table : db[DB(e)].tables[t] = Copied => db'[DB(e)].tables[t] = Copied
              BY <6>2 DEF Copies, Copied
            <6>4. db[DB(e)].extras \subseteq db'[DB(e)].extras /\ db'[DB(e)].extras \subseteq Extra
              BY <2>1, <2>3, <3>6 DEF Grows, Databases
            <6>5. pc[e] = "rows" => Head(todo[e]) \in Table
              BY <3>1, <3>6, OneLess DEF Sound, ListFits
            <6>6. \A u \in Extra : u \in db[DB(e)].extras => u \in db'[DB(e)].extras
              BY <6>4
            <6>7. db[DB(e)].extras = Extra => db'[DB(e)].extras = Extra
              BY <6>4
            <6>8. pc'[e] = pc[e] /\ todo'[e] = todo[e]
              BY <1>1
            <6> QED
              BY <4>2, <6>1, <6>2, <6>3, <6>5, <6>6, <6>7, <6>8 DEF MySQLProgress
          <5> QED
            BY <5>1, <5>2
        <4> QED
          BY <1>1, <1>2, <3>1, <3>6, <4>3, <4>5 DEF Sound, ListFits
      <3> QED
        BY <1>1, <3>2, <3>3, <3>4, <3>5, <3>6 DEF TypeOK
    <2> QED
      BY <2>5, <2>6, <2>7 DEF IInv
  <1> QED
    BY <1>3, <1>4 DEF LateWrite

-----------------------------------------------------------------------------
(* The inductive invariant.                                                 *)
LEMMA InitIInv == Init => IInv
  <1> SUFFICES ASSUME Init PROVE IInv
    OBVIOUS
  <1>1. Absent \in Databases /\ Model \in Databases
    <2>1. Nothing \in Copies /\ Copied \in Copies
      BY DEF Nothing, Copied, Copies, Shapes
    <2> QED
      BY <2>1 DEF Absent, Model, Databases
  <1>2. <<>> \in Seq(Table)
    OBVIOUS
  <1>3. TypeOK
    BY <1>1, <1>2 DEF Init, TypeOK, Ended
  <1>4. BaseUntouched
    BY DEF Init, BaseUntouched
  <1>5. PartialIsExplained
    BY NameAssumption DEF Init, PartialIsExplained, Absent
  <1>6. \A c \in Client : Sound(c)
    BY DEF Init, Sound, Copying
  <1> QED
    BY <1>3, <1>4, <1>5, <1>6 DEF IInv

(* Every step keeps it.                                                     *)
LEMMA NextIInv == IInv /\ [Next]_vars => IInv'
  <1> SUFFICES ASSUME IInv, [Next]_vars PROVE IInv'
    OBVIOUS
  <1>1. ASSUME NEW c \in Client,
               \/ \E b \in Branch : Ensure(c, b)
               \/ BranchExists(c) \/ Prune(c)
        PROVE  IInv'
    BY <1>1, LookStep
  <1>2. ASSUME NEW c \in Client, MySQLDelete(c) \/ MongoDelete(c)
        PROVE  IInv'
    BY <1>2, DeleteStep DEF MySQLDelete, MongoDelete
  <1>3. ASSUME NEW c \in Client, CreateDatabase(c) \/ ListCollections(c)
        PROVE  IInv'
    BY <1>3, CreateDatabaseStep, ListCollectionsStep
  <1>4. ASSUME NEW c \in Client, OpenSession(c) \/ CreateTable(c) \/ CopyRows(c) \/ CreateExtra(c)
        PROVE  IInv'
    BY <1>4, OpenSessionStep, CreateTableStep, CopyRowsStep, CreateExtraStep
  <1>5. ASSUME NEW c \in Client, CopyCollection(c) \/ CreateIndexes(c)
        PROVE  IInv'
    BY <1>5, CopyCollectionStep, CreateIndexesStep
  <1>6. ASSUME NEW c \in Client, Die(c) \/ FailMySQLCopy(c) \/ FailMongoCopy(c) \/ ResetSession(c)
        PROVE  IInv'
    BY <1>6, OverStep
  <1>7. ASSUME NEW c \in Client, MySQLCleanup(c) \/ MongoCleanup(c)
        PROVE  IInv'
    BY <1>7, CleanupStep
  <1>8. ASSUME NEW d \in Branch, LateDrop(d) PROVE IInv'
    BY <1>8, LateDropStep
  <1>9. ASSUME NEW s \in abandoned, LateWrite(s) PROVE IInv'
    BY <1>9, LateWriteStep
  <1>10. CASE UNCHANGED vars
    <2>1. TypeOK' /\ BaseUntouched'
      BY <1>10 DEF IInv, TypeOK, BaseUntouched, vars
    <2>2. \A c \in Client : DB(c)' = DB(c)
      BY <1>10, SameDB DEF vars
    <2>3. PartialIsExplained'
      BY <1>10, <2>2 DEF IInv, PartialIsExplained, Copiers, Whole, vars
    <2>4. ASSUME NEW c \in Client PROVE Sound(c)'
      <3>1. Waits(c)
        BY <1>10 DEF Waits, vars
      <3> QED
        BY <1>10, <2>2, <3>1, AloneKeeps DEF IInv, vars
    <2> QED
      BY <2>1, <2>3, <2>4 DEF IInv
  <1> QED
    BY <1>1, <1>2, <1>3, <1>4, <1>5, <1>6, <1>7, <1>8, <1>9, <1>10 DEF Next

(* The inductive invariant: types, the untouched base database, causes for  *)
(* what is there in part, and what holds of every client that copies.       *)
THEOREM CopyInvariance == Spec => []IInv
  BY InitIInv, NextIInv, PTL DEF Spec

(* Whatever clients and the server do to copies in mysql.go and mongodb.go, *)
(* the variables keep their types.                                          *)
THEOREM CopyTypeCorrect == Spec => []TypeOK
  <1>1. IInv => TypeOK
    BY DEF IInv
  <1> QED
    BY <1>1, CopyInvariance, PTL

(* A database that is there in part, with nobody at work on it, has a cause *)
(* on record: a client that died, a drop or an answer that was lost, a copy *)
(* dropped on its way, an index list that could not be read, or a $out,     *)
(* INSERT or CREATE that the server carried out after its caller had given  *)
(* it up and cleaned up.  Else a copy that fails leaves nothing behind.     *)
THEOREM Explained == Spec => []PartialIsExplained
  <1>1. IInv => PartialIsExplained
    BY DEF IInv
  <1> QED
    BY <1>1, CopyInvariance, PTL

(* The base database is neither dropped nor copied into: deletion refuses   *)
(* it (mysql.go:458, mongodb.go:234), and no copy begins that would have it *)
(* for its target, so that no cleanup can drop it either.                   *)
THEOREM BaseSurvives == Spec => []BaseUntouched
  <1>1. IInv => BaseUntouched
    BY DEF IInv
  <1> QED
    BY <1>1, CopyInvariance, PTL

-----------------------------------------------------------------------------
(* Who reports success has made the whole branch.                           *)
LEMMA SuccessIsWhole ==
  ASSUME IInv, Next, NEW c \in Client, pc[c] # "created", pc'[c] = "created", c \notin disturbed
  PROVE  /\ Filled(DB(c))'
         /\ engine = "mysql" \/ DB(c) \notin blamed' => Whole(DB(c))'
  <1>1. TypeOK /\ Sound(c)
    BY DEF IInv
  <1>2. ResetSession(c) \/ CreateIndexes(c)
    <2> USE <1>1 DEF TypeOK, Move, Goto
    <2>1. ASSUME NEW d \in Branch, LateDrop(d) PROVE FALSE
      BY <2>1 DEF LateDrop
    <2>2. ASSUME NEW e \in Client,
                 \/ \E b \in Branch : Ensure(e, b)
                 \/ BranchExists(e) \/ Prune(e) \/ Die(e) \/ MySQLDelete(e) \/ MongoDelete(e)
          PROVE  FALSE
      BY <2>2 DEF Ensure, BranchExists, Prune, Die, MySQLDelete, MongoDelete, DropForDelete
    <2>3. ASSUME NEW e \in Client,
                 \/ CreateDatabase(e) \/ OpenSession(e) \/ CreateTable(e) \/ CreateExtra(e)
                 \/ FailMySQLCopy(e) \/ MySQLCleanup(e)
          PROVE  FALSE
      BY <2>3 DEF CreateDatabase, OpenSession, CreateTable, CreateExtra, FailMySQLCopy,
                  MySQLCleanup, DropForCleanup
    <2>4. ASSUME NEW e \in Client,
                 \/ ListCollections(e) \/ CopyCollection(e) \/ FailMongoCopy(e) \/ MongoCleanup(e)
          PROVE  FALSE
      BY <2>4 DEF ListCollections, CopyCollection, FailMongoCopy, MongoCleanup, DropForCleanup
    <2>5. ASSUME NEW e \in Client, CopyRows(e) PROVE FALSE
      BY <2>5 DEF CopyRows, NextTable
    <2>6. ASSUME NEW s \in abandoned, LateWrite(s) PROVE FALSE
      BY <2>6 DEF LateWrite
    <2>7. ASSUME NEW e \in Client, ResetSession(e) \/ CreateIndexes(e) PROVE e = c
      BY <2>7 DEF ResetSession, CreateIndexes, NextTable
    <2> QED
      BY <2>1, <2>2, <2>3, <2>4, <2>5, <2>6, <2>7 DEF Next
  <1>3. DB(c)' = DB(c) /\ engine' = engine
    BY <1>2, SameDB DEF ResetSession, CreateIndexes
  <1>4. CASE ResetSession(c)
    <2>1. /\ pc[c] = "reset" /\ UNCHANGED db
      BY <1>1, <1>4 DEF ResetSession, Move, Goto, TypeOK
    <2>2. engine = "mysql"
      BY <1>1, <2>1 DEF Sound, TypeOK, Copying
    <2>3. (\A t \in Table : db[DB(c)].tables[t] = Copied) /\ db[DB(c)].extras = Extra
      BY <1>1, <2>1, <2>2 DEF Sound, MySQLProgress, Copying
    <2> QED
      BY <1>3, <2>1, <2>3 DEF Filled, Whole, Copied
  <1>5. CASE CreateIndexes(c)
    <2>1. engine = "mongodb"
      BY <1>5 DEF CreateIndexes
    <2>2. \A t \in Table :
            /\ db'[DB(c)].tables[t].rows = 1
            /\ db'[DB(c)].tables[t] = Copied \/ DB(c) \in blamed'
      BY <1>5, CreateIndexesStep
    <2> QED
      BY <1>3, <2>1, <2>2 DEF Filled, Whole
  <1> QED
    BY <1>2, <1>4, <1>5

(* CreateBranch (mysql.go:216, mongodb.go:128) that reports success leaves  *)
(* every table with its rows once and its indexes, and in MySQL the views   *)
(* and triggers, unless its target was dropped under it, or MySQL carried   *)
(* out an abandoned INSERT in it.                                           *)
THEOREM SuccessMeansWhole == Spec => CreatedIsWhole
  <1> DEFINE CreatedWhole ==
        \A c \in Client : (pc[c] # "created" /\ pc'[c] = "created" /\ c \notin disturbed) =>
          /\ Filled(DB(c))'
          /\ engine = "mysql" \/ DB(c) \notin blamed' => Whole(DB(c))'
  <1>1. IInv /\ [Next]_vars => [CreatedWhole]_vars
    BY SuccessIsWhole
  <1> QED
    BY <1>1, CopyInvariance, PTL DEF Spec, CreatedIsWhole

(* MySQL's cleanup (mysql.go:240) drops nothing but what its own call has   *)
(* made, unless a prune has dropped its target or an abandoned INSERT hit   *)
(* it: whoever reserved the name with CREATE DATABASE copies into it alone. *)
THEOREM CleanupIsOwn == Spec => CleanupDropsOwn
  <1> DEFINE DropsOwn ==
        \A c \in Client :
          /\ engine = "mysql" /\ pc[c] = "cleanup" /\ pc'[c] # "cleanup"
          /\ db'[DB(c)] # db[DB(c)] /\ c \notin disturbed
          => c \in db[DB(c)].makers
  <1>1. IInv => DropsOwn
    BY DEF IInv, Sound, Owns, Copying
  <1> QED
    BY <1>1, CopyInvariance, PTL DEF Spec, CleanupDropsOwn
=============================================================================
