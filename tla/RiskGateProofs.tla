--------------------------- MODULE RiskGateProofs ---------------------------
(***************************************************************************)
(* RiskGate for every set of calls, migrations, policies and answers: what  *)
(* is let through was assessed, whatever is in the cache and whoever wrote  *)
(* it, and the cache file is torn by overlapping writers only.              *)
(*                                                                          *)
(* SqlText for every text, of any length: splitting and policy matching see *)
(* what the server would execute.  The loops and the server's lexer go      *)
(* through the text side by side, so that the induction over the text is    *)
(* one over steps.                                                          *)
(***************************************************************************)
EXTENDS RiskGate, SqlText, TLAPS

(* A call that has not collected its migrations has none; the record of one *)
(* that has not begun is a hook's.                                          *)
Fresh ==
  \A r \in Run :
    /\ run[r].pc = "new" => run[r].kind = "hook"
    /\ run[r].pc \in {"new", "collect"} => run[r].files = {}

(* A result has the level its text demands, in the memory of a call ...     *)
WorthFloor(sql, risk) == risk.level >= Floor(sql, risk)
SoundEntries(e) == \A k \in DOMAIN e : WorthFloor(k.sql, e[k])

(* ... in its report, and in the files that hand it to later calls.         *)
SoundRisk(c, f) ==
  /\ WorthFloor(Text[f], c.risks[f])
  /\ MatchesAlwaysCritical(c.policy, Text[f]) => c.risks[f].level = Critical \/ c.risks[f].cached
Assessed ==
  /\ \A r \in Run : /\ SoundEntries(run[r].entries)
                    /\ \A f \in DOMAIN run[r].risks \ run[r].policy.excluded : SoundRisk(run[r], f)
  /\ SoundEntries(final.entries) /\ SoundEntries(tmp.entries)

(* A call that never met another at the temporary file has it for itself.   *)
SoleWriter ==
  \A r \in Run \ shared :
    /\ run[r].pc \in Persisting => \A other \in Run \ {r} : run[other].pc \notin Persisting
    /\ run[r].pc = "write" => run[r].fd = "tmp" /\ tmp = Empty
    /\ run[r].pc = "rename" => tmp.state = "whole"

IInv == TypeOK /\ Fresh /\ Assessed /\ SoleWriter

-----------------------------------------------------------------------------
(* The highest of some levels is one of them.                               *)
LEMMA MaxLevel ==
  ASSUME NEW S \in SUBSET Level, S # {}
  PROVE  Max(S) \in S /\ \A l \in S : l <= Max(S)
  <1>1. \E m \in S : \A l \in S : m >= l
    <2>1. CASE 4 \in S
      BY <2>1 DEF Level, Unknown, Critical
    <2>2. CASE 4 \notin S /\ 3 \in S
      BY <2>2 DEF Level, Unknown, Critical
    <2>3. CASE {3, 4} \cap S = {} /\ 2 \in S
      BY <2>3 DEF Level, Unknown, Critical
    <2>4. CASE {2, 3, 4} \cap S = {} /\ 1 \in S
      BY <2>4 DEF Level, Unknown, Critical
    <2>5. CASE {1, 2, 3, 4} \cap S = {}
      <3>1. \A l \in S : l = 0
        BY <2>5 DEF Level, Unknown, Critical
      <3> QED
        BY <3>1
    <2> QED
      BY <2>1, <2>2, <2>3, <2>4, <2>5
  <1> QED
    BY <1>1 DEF Max, Level, Unknown, Critical

(* Every operation has a level, whatever the catalog knows of its table.    *)
LEMMA OperationLevelType ==
  ASSUME NEW s, NEW sql, NEW schema
  PROVE  OperationLevel(s, sql, schema) \in Level
  BY DEF OperationLevel, Level, Unknown, Low, Medium, High, Critical

(* The heuristics' answer is a level and a confidence.                      *)
LEMMA HeuristicType ==
  ASSUME NEW sql \in Sql, NEW schema
  PROVE  /\ HeuristicClassify(sql, schema).level \in Level
         /\ HeuristicClassify(sql, schema).confidence \in 0..100
  <1> DEFINE operations == {OperationLevel(Statements[sql][i], sql, schema) : i \in DOMAIN Statements[sql]}
             cascades == IF SomeStatement(sql, LAMBDA s : s.cascade) THEN {High} ELSE {}
             levels == operations \cup cascades
  <1>1. operations \subseteq Level
    BY OperationLevelType
  <1>2. cascades \subseteq {High}
    BY DEF SomeStatement
  <1>3. levels \cup {Low} \in SUBSET Level /\ levels \cup {Low} # {}
    <2> HIDE DEF operations, cascades
    <2> QED
      BY <1>1, <1>2 DEF Level, Unknown, Low, High, Critical
  <1>4. Max(levels \cup {Low}) \in Level
    BY <1>3, MaxLevel
  <1>5. HeuristicClassify(sql, schema).level = Max(levels \cup {Low})
    BY Zenon DEF HeuristicClassify
  <1>6. HeuristicClassify(sql, schema).confidence \in {95, 100}
    BY DEF HeuristicClassify
  <1> QED
    BY <1>4, <1>5, <1>6

(* Raising a level never lowers it.                                         *)
LEMMA AtLeastRaises ==
  ASSUME NEW level \in Level, NEW condition \in BOOLEAN
  PROVE  /\ AtLeast(level, condition) \in Level
         /\ AtLeast(level, condition) >= level
         /\ condition => AtLeast(level, condition) >= High
  <1>1. {level, High} \in SUBSET Level /\ {level, High} # {}
    BY DEF Level, Unknown, High, Critical
  <1>2. Max({level, High}) \in Level /\ level <= Max({level, High}) /\ High <= Max({level, High})
    BY <1>1, MaxLevel
  <1> QED
    BY <1>2 DEF AtLeast, Level, Unknown, High, Critical

(* What AnalyzeSQL makes of an answer is worth what the text demands.       *)
LEMMA AssessmentSound ==
  ASSUME NEW p, NEW sql, NEW schema \in Schemas, NEW result,
         result.level \in Level, result.confidence \in 0..100
  PROVE  LET risk == Assessment(p, sql, schema, result) IN
         /\ risk \in Risk
         /\ WorthFloor(sql, risk)
         /\ MatchesAlwaysCritical(p, sql) => risk.level = Critical
  <1> DEFINE dropped == SomeStatement(sql, LAMBDA s : DropsColumn(s) /\ NoColumnsKnown(s, schema))
             unclassified == SomeStatement(sql, Unclassified)
             verified == AtLeast(result.level, dropped)
             reviewed == AtLeast(verified, unclassified)
             risk == Assessment(p, sql, schema, result)
  <1>1. dropped \in BOOLEAN /\ unclassified \in BOOLEAN
    BY DEF SomeStatement
  <1>2. verified \in Level /\ (dropped => verified >= High)
    BY <1>1, AtLeastRaises
  <1>3. /\ reviewed \in Level /\ reviewed >= verified
        /\ unclassified => reviewed >= High
    BY <1>1, <1>2, AtLeastRaises
  <1>4. risk.level = IF MatchesAlwaysCritical(p, sql) THEN Critical ELSE reviewed
    BY DEF Assessment, FinalLevel
  <1>5. MatchesAlwaysCritical(p, sql) \in BOOLEAN
    BY DEF MatchesAlwaysCritical
  <1>6. risk \in Risk
    BY <1>3, <1>4, <1>5 DEF Assessment, Risk, Level, Unknown, Critical
  <1>7. WorthFloor(sql, risk)
    <2>1. CASE MatchesAlwaysCritical(p, sql)
      BY <2>1, <1>4 DEF WorthFloor, Floor, Assessment, Critical
    <2>2. CASE ~MatchesAlwaysCritical(p, sql) /\ (dropped \/ unclassified)
      <3>1. risk.level >= High
        BY <2>2, <1>2, <1>3, <1>4 DEF Level, Unknown, Critical, High
      <3> QED
        BY <2>2, <3>1 DEF WorthFloor, Floor, Assessment, High, Unknown, SomeStatement
    <2>3. CASE ~MatchesAlwaysCritical(p, sql) /\ ~dropped /\ ~unclassified
      <3>1. Floor(sql, risk) = Unknown
        BY <2>3 DEF Floor, Assessment, SomeStatement
      <3> QED
        BY <3>1, <1>6 DEF WorthFloor, Risk, Level, Unknown, Critical
    <2> QED
      BY <2>1, <2>2, <2>3
  <1> QED
    BY <1>4, <1>6, <1>7

(* The signature of what the catalog told describes tables.                 *)
LEMMA SignatureType ==
  ASSUME NEW sql \in Sql, NEW metas \in IntrospectTables(sql)
  PROVE  FormatSchemaSignature(metas) \in Schemas
  <1> DEFINE listed == {t \in DOMAIN metas : metas[t] # Absent}
  <1>1. TablesOf(sql) \subseteq Table
    <2>1. \A i \in DOMAIN Statements[sql] : Statements[sql][i] \in Statement
      BY TextAssumption
    <2> QED
      BY <2>1 DEF TablesOf, Statement
  <1>2. metas \in [TablesOf(sql) -> Metas \cup {Absent}]
    BY DEF IntrospectTables
  <1>3. listed \in SUBSET Table /\ \A t \in listed : metas[t] \in TableMetadata
    BY <1>1, <1>2, TextAssumption
  <1>4. [t \in listed |-> metas[t]] \in [listed -> TableMetadata]
    BY <1>3
  <1> QED
    BY <1>3, <1>4 DEF FormatSchemaSignature, Schemas

(* The cache takes a result.                                                *)
LEMMA AddingType ==
  ASSUME NEW e, IsEntries(e), NEW k \in Key, NEW risk \in Risk
  PROVE  IsEntries(Adding(e, k, risk))
  BY DEF IsEntries, Adding

(* A new result leaves the others as they were.                             *)
LEMMA AddingSound ==
  ASSUME NEW e, SoundEntries(e), NEW k, NEW risk, WorthFloor(k.sql, risk)
  PROVE  SoundEntries(Adding(e, k, risk))
  BY DEF SoundEntries, Adding

(* Whether a result came from the cache says nothing of its level.          *)
LEMMA CachedSame ==
  ASSUME NEW sql, NEW risk \in Risk
  PROVE  LET hit == [risk EXCEPT !.cached = TRUE] IN
         /\ hit \in Risk /\ hit.cached
         /\ WorthFloor(sql, risk) => WorthFloor(sql, hit)
  <1> DEFINE hit == [risk EXCEPT !.cached = TRUE]
  <1>1. hit \in Risk /\ hit.cached
    BY DEF Risk
  <1>2. hit.level = risk.level /\ hit.critical = risk.critical /\ hit.schema = risk.schema
    BY DEF Risk
  <1>3. Floor(sql, hit) = Floor(sql, risk)
    BY <1>2 DEF Floor, SomeStatement
  <1> QED
    BY <1>1, <1>2, <1>3 DEF WorthFloor

-----------------------------------------------------------------------------
(* A call that ends, or has not begun, has nothing in memory.               *)
LEMMA GoneType ==
  ASSUME NEW outcome \in Ended \cup {"new", "collect"}
  PROVE  IsRun(Gone(outcome))
  BY DEF IsRun, Gone, IsEntries, Nothing, Ended, Persisting

(* No results at all are the results of a call.                             *)
LEMMA NothingType ==
  /\ IsEntries(Nothing) /\ SoundEntries(Nothing) /\ Nothing \in Schemas
  <1>1. DOMAIN Nothing = {} /\ \A T : Nothing \in [{} -> T]
    BY DEF Nothing
  <1>2. [{} -> TableMetadata] \subseteq Schemas
    BY DEF Schemas
  <1> QED
    BY <1>1, <1>2 DEF IsEntries, SoundEntries

(* What NewRiskAnalyzer has read.                                           *)
LEMMA LoadedType ==
  ASSUME TypeOK, NEW r \in Run, NEW file \in PolicyFiles, NEW kind \in {"hook", "check", "analyze"},
         NEW remote \in BOOLEAN, kind = "hook" => ~remote
  PROVE  IsRun([NewRiskAnalyzer(r, file) EXCEPT !.kind = kind, !.remote = remote])
  <1>1. IsEntries(final.entries)
    BY NothingType DEF TypeOK, IsCacheFile, NoFile, Empty, Torn
  <1>2. LoadPolicy(file) \in Policy
    BY PolicyAssumption
  <1> QED
    BY <1>1, <1>2 DEF NewRiskAnalyzer, IsRun, Gone, Nothing, Ended, Persisting

(* A call takes a result: the report and the cache in memory stay typed.    *)
LEMMA TakeType ==
  ASSUME TypeOK, NEW r \in Run, NEW f \in run[r].todo, NEW risk \in Risk,
         NEW entries, IsEntries(entries), NEW pc \in {"assess", "open"}, Take(r, f, risk, entries, pc)
  PROVE  DOMAIN run' = Run /\ \A q \in Run : IsRun(run'[q])
  <1> DEFINE c == run[r]
             d == run'[r]
  <1>1. IsRun(c)
    BY DEF TypeOK
  <1>2. /\ DOMAIN run' = Run /\ \A q \in Run \ {r} : run'[q] = run[q]
        /\ d = [c EXCEPT !.risks = Adding(c.risks, f, risk), !.todo = c.todo \ {f},
                         !.entries = entries, !.pc = pc]
    BY DEF TypeOK, Take
  <1>3. Adding(c.risks, f, risk) \in [c.files \ (c.todo \ {f}) -> Risk]
    <2>1. c.risks \in [c.files \ c.todo -> Risk] /\ f \in c.files
      BY <1>1 DEF IsRun
    <2>2. (c.files \ c.todo) \cup {f} = c.files \ (c.todo \ {f})
      BY <2>1
    <2> QED
      BY <2>1, <2>2 DEF Adding
  <1>4. IsRun(d)
    BY <1>1, <1>2, <1>3 DEF IsRun, Persisting, Ended
  <1> QED
    BY <1>2, <1>4 DEF TypeOK

(* Where a call stands and its descriptor are independent of the rest.      *)
LEMMA MovedType ==
  ASSUME NEW c, IsRun(c), NEW d, DOMAIN d = DOMAIN c,
         \A x \in DOMAIN c \ {"pc", "fd"} : d[x] = c[x],
         d.pc \in {c.pc, "assess"}, d.fd \in {"none", "tmp", "final", "lost"}
  PROVE  IsRun(d)
  <1>1. /\ d.kind = c.kind /\ d.remote = c.remote /\ d.policy = c.policy
        /\ d.entries = c.entries /\ d.files = c.files /\ d.todo = c.todo /\ d.risks = c.risks
    BY DEF IsRun
  <1> QED
    BY <1>1 DEF IsRun

(* Where a file is renamed or removed, the descriptors follow it.           *)
LEMMA DescriptorsType ==
  ASSUME TypeOK, NEW r \in Run, NEW moved, DOMAIN moved \subseteq {"tmp", "final"},
         \A fd \in DOMAIN moved : moved[fd] \in {"final", "lost"},
         run' = [Descriptors(moved) EXCEPT ![r].pc = "assess"]
  PROVE  /\ DOMAIN run' = Run
         /\ \A q \in Run : /\ IsRun(run'[q])
                           /\ \A x \in DOMAIN run[q] \ {"pc", "fd"} : run'[q][x] = run[q][x]
                           /\ q # r => run'[q].pc = run[q].pc
                           /\ run[q].fd \notin DOMAIN moved => run'[q].fd = run[q].fd
         /\ run'[r].pc = "assess"
  <1> DEFINE moves(q) == IF run[q].fd \in DOMAIN moved THEN moved[run[q].fd] ELSE run[q].fd
  <1>1. \A q \in Run : IsRun(run[q]) /\ moves(q) \in {"none", "tmp", "final", "lost"}
    BY DEF TypeOK, IsRun
  <1>2. /\ DOMAIN run' = Run
        /\ \A q \in Run \ {r} : run'[q] = [run[q] EXCEPT !.fd = moves(q)]
        /\ run'[r] = [run[r] EXCEPT !.fd = moves(r), !.pc = "assess"]
    BY DEF Descriptors
  <1>3. \A q \in Run : run[q].fd \notin DOMAIN moved => moves(q) = run[q].fd
    OBVIOUS
  <1> HIDE DEF moves
  <1>4. ASSUME NEW q \in Run \ {r}
        PROVE  /\ IsRun(run'[q]) /\ run'[q].fd = moves(q) /\ run'[q].pc = run[q].pc
               /\ \A x \in DOMAIN run[q] \ {"pc", "fd"} : run'[q][x] = run[q][x]
    <2>1. IsRun(run[q]) /\ moves(q) \in {"none", "tmp", "final", "lost"}
      BY <1>1
    <2>2. run'[q] = [run[q] EXCEPT !.fd = moves(q)]
      BY <1>2
    <2>3. /\ DOMAIN run'[q] = DOMAIN run[q] /\ run'[q].fd = moves(q) /\ run'[q].pc = run[q].pc
          /\ \A x \in DOMAIN run[q] \ {"pc", "fd"} : run'[q][x] = run[q][x]
      BY <2>1, <2>2 DEF IsRun
    <2> QED
      BY <2>1, <2>3, MovedType
  <1>5. /\ IsRun(run'[r]) /\ run'[r].fd = moves(r) /\ run'[r].pc = "assess"
        /\ \A x \in DOMAIN run[r] \ {"pc", "fd"} : run'[r][x] = run[r][x]
    <2>1. IsRun(run[r]) /\ moves(r) \in {"none", "tmp", "final", "lost"}
      BY <1>1
    <2>2. run'[r] = [run[r] EXCEPT !.fd = moves(r), !.pc = "assess"]
      BY <1>2
    <2>3. /\ DOMAIN run'[r] = DOMAIN run[r] /\ run'[r].fd = moves(r) /\ run'[r].pc = "assess"
          /\ \A x \in DOMAIN run[r] \ {"pc", "fd"} : run'[r][x] = run[r][x]
      <3>1. {"pc", "fd"} \subseteq DOMAIN run[r]
        BY <2>1 DEF IsRun
      <3> DEFINE g == [run[r] EXCEPT !.fd = moves(r)]
      <3>2. /\ DOMAIN g = DOMAIN run[r] /\ g.fd = moves(r)
            /\ \A x \in DOMAIN run[r] \ {"fd"} : g[x] = run[r][x]
        BY <3>1
      <3>3. run'[r] = [g EXCEPT !.pc = "assess"]
        BY <2>2
      <3> HIDE DEF g
      <3> QED
        BY <3>1, <3>2, <3>3
    <2> QED
      BY <2>1, <2>3, MovedType
  <1> QED
    BY <1>2, <1>3, <1>4, <1>5

(* Every step keeps the calls and the files typed.                          *)
LEMMA NextTypeOK == TypeOK /\ Fresh /\ [Next]_vars => TypeOK'
  <1> SUFFICES ASSUME TypeOK, Fresh, [Next]_vars PROVE TypeOK'
    OBVIOUS
  <1> USE DEF FilesUnchanged
  <1>1. ASSUME NEW r \in Run, NEW c, IsRun(c), run' = [run EXCEPT ![r] = c]
        PROVE  DOMAIN run' = Run /\ \A q \in Run : IsRun(run'[q])
    BY <1>1 DEF TypeOK
  <1>2. ASSUME NEW r \in Run, NEW outcome \in Ended, End(r, outcome), FilesUnchanged PROVE TypeOK'
    BY <1>1, <1>2, GoneType DEF End, TypeOK
  <1>3. ASSUME NEW r \in Run, NEW pc \in {"assess", "remove"}, Goto(r, pc)
        PROVE  DOMAIN run' = Run /\ \A q \in Run : IsRun(run'[q])
    <2>1. IsRun([run[r] EXCEPT !.pc = pc])
      BY DEF TypeOK, IsRun, Ended, Persisting
    <2> QED
      BY <1>1, <1>3, <2>1 DEF Goto
  <1>4. ASSUME NEW r \in Run, NEW kind \in {"hook", "check", "analyze"}, NEW remote \in BOOLEAN,
               Start(r, kind, remote)
        PROVE  TypeOK'
    <2>1. CASE Skip(r, kind)
      BY <1>2, <1>4, <2>1 DEF Start, Skip, Ended
    <2>2. ASSUME NEW file \in PolicyFiles,
                 run' = [run EXCEPT ![r] = [NewRiskAnalyzer(r, file) EXCEPT !.kind = kind, !.remote = remote]]
          PROVE  TypeOK'
      BY <1>1, <1>4, <2>2, LoadedType DEF Start, TypeOK
    <2> QED
      BY <1>4, <2>1, <2>2 DEF Start
  <1>5. ASSUME NEW r \in Run, Collect(r) PROVE TypeOK'
    <2>1. CASE Skip(r, run[r].kind)
      BY <1>2, <1>5, <2>1 DEF Collect, Skip, Ended
    <2>2. ASSUME NEW files \in SUBSET File,
                 run' = [run EXCEPT ![r].files = files, ![r].todo = files, ![r].pc = "assess"]
          PROVE  TypeOK'
      <3> DEFINE c == [run[r] EXCEPT !.files = files, !.todo = files, !.pc = "assess"]
      <3>1. IsRun(run[r]) /\ run[r].files = {}
        BY <1>5 DEF TypeOK, Fresh, Collect
      <3>2. run[r].risks \in [files \ files -> Risk]
        <4>1. run[r].files \ run[r].todo = files \ files
          BY <3>1
        <4> QED
          BY <3>1, <4>1 DEF IsRun
      <3>3. IsRun(c)
        BY <3>1, <3>2 DEF IsRun, Ended, Persisting
      <3>4. run' = [run EXCEPT ![r] = c]
        BY <2>2
      <3> QED
        BY <1>1, <1>5, <3>3, <3>4 DEF Collect, TypeOK
    <2>3. {{f} : f \in File} \subseteq SUBSET File /\ Pending \subseteq SUBSET File
      BY TextAssumption
    <2> QED
      BY <1>5, <2>1, <2>2, <2>3 DEF Collect
  <1>6. ASSUME NEW r \in Run, NEW f \in File, ExcludePath(r, f) \/ JevUnavailable(r, f) PROVE TypeOK'
    <2>1. ExcludedRisk \in Risk /\ JevUnavailableRisk \in Risk
      BY NothingType DEF ExcludedRisk, JevUnavailableRisk, Risk, Level, Unknown, Low, Critical
    <2>2. IsEntries(run[r].entries)
      BY DEF TypeOK, IsRun
    <2> QED
      BY <1>6, <2>1, <2>2, TakeType DEF ExcludePath, JevUnavailable, Assessing, TypeOK
  <1>7. ASSUME NEW r \in Run, NEW f \in File, HitCache(r, f) PROVE TypeOK'
    <2>1. IsEntries(run[r].entries)
      BY DEF TypeOK, IsRun
    <2>2. PICK key \in DOMAIN run[r].entries :
            Take(r, f, [run[r].entries[key] EXCEPT !.cached = TRUE], run[r].entries, "assess")
      BY <1>7 DEF HitCache
    <2>3. run[r].entries[key] \in Risk
      BY <2>1 DEF IsEntries
    <2>4. [run[r].entries[key] EXCEPT !.cached = TRUE] \in Risk
      BY <2>3, CachedSame
    <2> QED
      BY <1>7, <2>1, <2>2, <2>4, TakeType DEF HitCache, Assessing, TypeOK
  <1>8. ASSUME NEW r \in Run, NEW f \in File, AnalyzeSQL(r, f) PROVE TypeOK'
    <2>1. PICK metas \in IntrospectTables(Text[f]) :
            \E result \in Answers(r, Text[f], FormatSchemaSignature(metas)) :
              LET schema == FormatSchemaSignature(metas)
                  risk == Assessment(run[r].policy, Text[f], schema, result) IN
              Take(r, f, risk, Adding(run[r].entries, ComputeCacheKey(Text[f], schema), risk), "open")
      BY <1>8 DEF AnalyzeSQL
    <2> DEFINE schema == FormatSchemaSignature(metas)
    <2>2. PICK result \in Answers(r, Text[f], schema) :
            LET risk == Assessment(run[r].policy, Text[f], schema, result) IN
            Take(r, f, risk, Adding(run[r].entries, ComputeCacheKey(Text[f], schema), risk), "open")
      BY <2>1
    <2> DEFINE risk == Assessment(run[r].policy, Text[f], schema, result)
               entries == Adding(run[r].entries, ComputeCacheKey(Text[f], schema), risk)
    <2>3. Text[f] \in Sql /\ schema \in Schemas
      BY TextAssumption, SignatureType
    <2>4. result.level \in Level /\ result.confidence \in 0..100
      BY <2>3, HeuristicType, JevAssumption DEF Answers, JevClassify
    <2>5. risk \in Risk
      BY <2>3, <2>4, AssessmentSound
    <2>6. ComputeCacheKey(Text[f], schema) \in Key
      BY <2>3 DEF ComputeCacheKey, Key
    <2>7. IsEntries(entries)
      BY <2>5, <2>6, AddingType DEF TypeOK, IsRun
    <2>8. Take(r, f, risk, entries, "open") /\ f \in run[r].todo
      BY <1>8, <2>2 DEF AnalyzeSQL, Assessing
    <2> HIDE DEF risk, entries
    <2> QED
      BY <1>8, <2>5, <2>7, <2>8, TakeType DEF AnalyzeSQL, TypeOK
  <1>9. ASSUME NEW r \in Run, ReadFails(r) \/ Decide(r) \/ Die(r) PROVE TypeOK'
    BY <1>2, <1>9 DEF ReadFails, Decide, Die, Ended
  <1>10. ASSUME NEW r \in Run, OpenTmp(r) PROVE TypeOK'
    <2>1. IsRun([run[r] EXCEPT !.pc = "write", !.fd = "tmp"])
      BY DEF TypeOK, IsRun, Ended, Persisting
    <2>2. DOMAIN run' = Run /\ \A q \in Run : IsRun(run'[q])
      <3>1. CASE run' = [run EXCEPT ![r].pc = "write", ![r].fd = "tmp"]
        <4> DEFINE c == [run[r] EXCEPT !.pc = "write", !.fd = "tmp"]
        <4>1. run' = [run EXCEPT ![r] = c]
          BY <3>1
        <4> QED
          BY <1>1, <2>1, <4>1
      <3> QED
        BY <1>3, <1>10, <3>1 DEF OpenTmp
    <2> QED
      BY <1>10, <2>2 DEF OpenTmp, TypeOK, IsCacheFile, HasFile
  <1>11. ASSUME NEW r \in Run, WriteData(r) PROVE TypeOK'
    <2>1. PICK failed \in BOOLEAN :
            run' = [run EXCEPT ![r].pc = IF failed THEN "assess" ELSE "rename", ![r].fd = "none"]
      BY <1>11 DEF WriteData
    <2>2. IsRun([run[r] EXCEPT !.pc = IF failed THEN "assess" ELSE "rename", !.fd = "none"])
      <3>1. IsRun(run[r])
        BY DEF TypeOK
      <3> QED
        BY <3>1 DEF IsRun, Ended, Persisting
    <2>3. DOMAIN run' = Run /\ \A q \in Run : IsRun(run'[q])
      BY <1>1, <2>1, <2>2
    <2>4. IsCacheFile(Torn) /\ IsCacheFile(Whole(run[r].entries))
      BY DEF IsCacheFile, TypeOK, IsRun, Whole
    <2> QED
      BY <1>11, <2>3, <2>4 DEF WriteData, Written, TypeOK
  <1>12. ASSUME NEW r \in Run, Rename(r) \/ RemoveTmp(r) PROVE TypeOK'
    <2>1. IsCacheFile(NoFile)
      BY DEF IsCacheFile
    <2>2. CASE Goto(r, "remove") /\ UNCHANGED <<final, tmp, shared>>
      BY <1>3, <2>2 DEF TypeOK
    <2>3. CASE /\ run' = [Descriptors([tmp |-> "final", final |-> "lost"]) EXCEPT ![r].pc = "assess"]
               /\ final' = tmp /\ tmp' = NoFile /\ shared' = shared
      <3> DEFINE moved == [tmp |-> "final", final |-> "lost"]
      <3>1. DOMAIN moved = {"tmp", "final"} /\ \A fd \in DOMAIN moved : moved[fd] \in {"final", "lost"}
        OBVIOUS
      <3>2. run' = [Descriptors(moved) EXCEPT ![r].pc = "assess"]
        BY <2>3
      <3> HIDE DEF moved
      <3> QED
        BY <2>1, <2>3, <3>1, <3>2, DescriptorsType DEF TypeOK
    <2>4. CASE RemoveTmp(r)
      <3> DEFINE moved == [tmp |-> "lost"]
      <3>1. DOMAIN moved = {"tmp"} /\ \A fd \in DOMAIN moved : moved[fd] \in {"final", "lost"}
        OBVIOUS
      <3>2. run' = [Descriptors(moved) EXCEPT ![r].pc = "assess"]
        BY <2>4 DEF RemoveTmp
      <3> HIDE DEF moved
      <3> QED
        BY <2>1, <2>4, <3>1, <3>2, DescriptorsType DEF RemoveTmp, TypeOK
    <2> QED
      BY <1>12, <2>2, <2>3, <2>4 DEF Rename
  <1>13. CASE UNCHANGED vars
    BY <1>13 DEF vars, TypeOK
  <1> QED
    BY <1>4, <1>5, <1>6, <1>7, <1>8, <1>9, <1>10, <1>11, <1>12, <1>13 DEF Next, Step

-----------------------------------------------------------------------------
(* A result in the report: the others are as they were.                     *)
LEMMA TakeEffect ==
  ASSUME TypeOK, NEW r \in Run, NEW f, NEW risk, NEW entries, NEW pc, Take(r, f, risk, entries, pc)
  PROVE  /\ \A q \in Run \ {r} : run'[q] = run[q]
         /\ run'[r].policy = run[r].policy /\ run'[r].entries = entries /\ run'[r].pc = pc
         /\ run'[r].risks = Adding(run[r].risks, f, risk)
  BY DEF Take, TypeOK, IsRun

(* A call that ends forgets what it had in memory.                          *)
LEMMA EndEffect ==
  ASSUME TypeOK, NEW r \in Run, NEW outcome, End(r, outcome)
  PROVE  /\ \A q \in Run \ {r} : run'[q] = run[q]
         /\ run'[r].pc = outcome /\ run'[r].entries = Nothing /\ run'[r].risks = Nothing
  BY DEF End, Gone, TypeOK

(* A call begins with what is in the cache file.                            *)
LEMMA StartEffect ==
  ASSUME TypeOK, NEW r \in Run, NEW file, NEW kind, NEW remote,
         run' = [run EXCEPT ![r] = [NewRiskAnalyzer(r, file) EXCEPT !.kind = kind, !.remote = remote]]
  PROVE  /\ \A q \in Run \ {r} : run'[q] = run[q]
         /\ run'[r].pc = "collect" /\ run'[r].entries = final.entries
         /\ run'[r].risks = Nothing /\ run'[r].files = {}
  BY DEF NewRiskAnalyzer, Gone, TypeOK

(* The list of migrations comes before any result.                          *)
LEMMA CollectEffect ==
  ASSUME TypeOK, NEW r \in Run, NEW files,
         run' = [run EXCEPT ![r].files = files, ![r].todo = files, ![r].pc = "assess"]
  PROVE  /\ \A q \in Run \ {r} : run'[q] = run[q]
         /\ run'[r].pc = "assess"
         /\ \A x \in {"entries", "risks", "policy"} : run'[r][x] = run[r][x]
  BY DEF TypeOK, IsRun

(* What persist does to the calls: it moves one and their descriptors.      *)
LEMMA PersistEffect ==
  ASSUME TypeOK, NEW r \in Run, OpenTmp(r) \/ WriteData(r) \/ Rename(r) \/ RemoveTmp(r)
  PROVE  /\ run[r].pc \in {"open", "write", "rename", "remove"}
         /\ run'[r].pc \in {"assess", "write", "rename", "remove"}
         /\ \A q \in Run : \A x \in {"kind", "entries", "risks", "policy", "files"} :
              run'[q][x] = run[q][x]
         /\ \A q \in Run \ {r} : run'[q].pc = run[q].pc
         /\ OpenTmp(r) \/ WriteData(r) => \A q \in Run \ {r} : run'[q] = run[q]
         /\ Rename(r) \/ RemoveTmp(r) => run'[r].pc \in {"assess", "remove"}
  <1> DEFINE fields == {"kind", "entries", "risks", "policy", "files"}
  <1>1. \A q \in Run : DOMAIN run[q] = fields \cup {"pc", "remote", "todo", "fd"}
    BY DEF TypeOK, IsRun
  <1>2. DOMAIN run = Run
    BY DEF TypeOK
  <1>3. CASE OpenTmp(r) \/ WriteData(r)
    <2>1. /\ run'[r].pc \in {"assess", "write", "rename"}
          /\ \A x \in fields : run'[r][x] = run[r][x]
          /\ \A q \in Run \ {r} : run'[q] = run[q]
      <3>1. CASE OpenTmp(r)
        <4>1. CASE run' = [run EXCEPT ![r].pc = "write", ![r].fd = "tmp"]
          BY <1>1, <1>2, <4>1
        <4>2. CASE Goto(r, "assess")
          BY <1>1, <1>2, <4>2 DEF Goto
        <4> QED
          BY <3>1, <4>1, <4>2 DEF OpenTmp
      <3>2. CASE WriteData(r)
        <4>1. PICK failed \in BOOLEAN :
                run' = [run EXCEPT ![r].pc = IF failed THEN "assess" ELSE "rename", ![r].fd = "none"]
          BY <3>2 DEF WriteData
        <4> QED
          BY <1>1, <1>2, <4>1
      <3> QED
        BY <1>3, <3>1, <3>2
    <2>2. run[r].pc \in {"open", "write"} /\ ~Rename(r) /\ ~RemoveTmp(r)
      BY <1>3 DEF OpenTmp, WriteData, Rename, RemoveTmp
    <2> QED
      BY <2>1, <2>2
  <1>4. ASSUME NEW moved, DOMAIN moved \subseteq {"tmp", "final"},
               \A fd \in DOMAIN moved : moved[fd] \in {"final", "lost"},
               run' = [Descriptors(moved) EXCEPT ![r].pc = "assess"]
        PROVE  /\ \A q \in Run : \A x \in fields : run'[q][x] = run[q][x]
               /\ \A q \in Run \ {r} : run'[q].pc = run[q].pc
               /\ run'[r].pc = "assess"
    <2>1. /\ \A q \in Run : /\ \A x \in DOMAIN run[q] \ {"pc", "fd"} : run'[q][x] = run[q][x]
                            /\ q # r => run'[q].pc = run[q].pc
          /\ run'[r].pc = "assess"
      BY <1>4, DescriptorsType
    <2>2. \A q \in Run : fields \subseteq DOMAIN run[q] \ {"pc", "fd"}
      BY <1>1
    <2> QED
      BY <2>1, <2>2
  <1>5. CASE RemoveTmp(r)
    <2> DEFINE moved == [tmp |-> "lost"]
    <2>1. DOMAIN moved = {"tmp"} /\ \A fd \in DOMAIN moved : moved[fd] \in {"final", "lost"}
      OBVIOUS
    <2>2. run' = [Descriptors(moved) EXCEPT ![r].pc = "assess"]
      BY <1>5 DEF RemoveTmp
    <2> HIDE DEF moved
    <2> QED
      BY <1>4, <1>5, <2>1, <2>2 DEF RemoveTmp, OpenTmp, WriteData
  <1>6. CASE Rename(r)
    <2> DEFINE moved == [tmp |-> "final", final |-> "lost"]
    <2>1. DOMAIN moved = {"tmp", "final"} /\ \A fd \in DOMAIN moved : moved[fd] \in {"final", "lost"}
      OBVIOUS
    <2>2. CASE run' = [Descriptors(moved) EXCEPT ![r].pc = "assess"]
      <3> HIDE DEF moved
      <3> QED
        BY <1>4, <1>6, <2>1, <2>2 DEF Rename, OpenTmp, WriteData
    <2>3. CASE Goto(r, "remove")
      BY <1>1, <1>2, <1>6, <2>3 DEF Rename, Goto, OpenTmp, WriteData
    <2> QED
      BY <1>6, <2>2, <2>3 DEF Rename
  <1> QED
    BY <1>3, <1>5, <1>6

(* Nothing is collected before a call is past the list of its migrations.   *)
LEMMA NextFresh == TypeOK /\ Fresh /\ [Next]_vars => Fresh'
  <1> SUFFICES ASSUME TypeOK, Fresh, [Next]_vars PROVE Fresh'
    OBVIOUS
  <1>1. ASSUME NEW r \in Run, \A q \in Run \ {r} : run'[q] = run[q],
               run'[r].pc # "new", run'[r].pc = "collect" => run'[r].files = {}
        PROVE  Fresh'
    BY <1>1 DEF Fresh
  <1>2. ASSUME NEW r \in Run, NEW outcome \in Ended, End(r, outcome) PROVE Fresh'
    BY <1>1, <1>2, EndEffect DEF Ended
  <1>3. ASSUME NEW r \in Run, NEW kind, NEW remote, Start(r, kind, remote) PROVE Fresh'
    <2>1. CASE Skip(r, kind)
      BY <1>2, <2>1 DEF Skip, Ended
    <2>2. ASSUME NEW file,
                 run' = [run EXCEPT ![r] = [NewRiskAnalyzer(r, file) EXCEPT !.kind = kind, !.remote = remote]]
          PROVE  Fresh'
      BY <1>1, <2>2, StartEffect
    <2> QED
      BY <1>3, <2>1, <2>2 DEF Start
  <1>4. ASSUME NEW r \in Run, Collect(r) PROVE Fresh'
    BY <1>1, <1>2, <1>4, CollectEffect DEF Collect, Skip, Ended
  <1>5. ASSUME NEW r \in Run, NEW f \in File,
               ExcludePath(r, f) \/ HitCache(r, f) \/ AnalyzeSQL(r, f) \/ JevUnavailable(r, f)
        PROVE  Fresh'
    <2>1. \E risk, entries : \E pc \in {"assess", "open"} : Take(r, f, risk, entries, pc)
      BY <1>5 DEF ExcludePath, HitCache, AnalyzeSQL, JevUnavailable
    <2> QED
      BY <1>1, <2>1, TakeEffect
  <1>6. ASSUME NEW r \in Run, ReadFails(r) \/ Decide(r) \/ Die(r) PROVE Fresh'
    BY <1>2, <1>6 DEF ReadFails, Decide, Die, Ended
  <1>7. ASSUME NEW r \in Run, OpenTmp(r) \/ WriteData(r) \/ Rename(r) \/ RemoveTmp(r) PROVE Fresh'
    BY <1>7, PersistEffect DEF Fresh
  <1>8. CASE UNCHANGED vars
    BY <1>8 DEF vars, Fresh
  <1> QED
    BY <1>3, <1>4, <1>5, <1>6, <1>7, <1>8 DEF Next, Step

-----------------------------------------------------------------------------
(* The result a call takes is sound for its text and its own policy, or for *)
(* the policy it was cached under.                                          *)
LEMMA NextAssessed == TypeOK /\ Assessed /\ [Next]_vars => Assessed'
  <1> SUFFICES ASSUME TypeOK, Assessed, [Next]_vars PROVE Assessed'
    OBVIOUS
  <1> DEFINE SoundCall(c) ==
        SoundEntries(c.entries) /\ \A f \in DOMAIN c.risks \ c.policy.excluded : SoundRisk(c, f)
  <1> USE DEF FilesUnchanged
  <1>1. ASSUME NEW r \in Run, \A q \in Run \ {r} : run'[q] = run[q], SoundCall(run'[r]),
               UNCHANGED <<final, tmp>>
        PROVE  Assessed'
    BY <1>1 DEF Assessed
  <1>2. ASSUME NEW r \in Run, NEW outcome, End(r, outcome), FilesUnchanged PROVE Assessed'
    <2>1. DOMAIN Nothing = {}
      BY DEF Nothing
    <2> QED
      BY <1>1, <1>2, <2>1, EndEffect, NothingType
  <1>3. ASSUME NEW r \in Run, NEW kind, NEW remote, Start(r, kind, remote) PROVE Assessed'
    <2>1. CASE Skip(r, kind)
      BY <1>2, <1>3, <2>1 DEF Skip, Start
    <2>2. ASSUME NEW file,
                 run' = [run EXCEPT ![r] = [NewRiskAnalyzer(r, file) EXCEPT !.kind = kind, !.remote = remote]]
          PROVE  Assessed'
      <3>1. DOMAIN Nothing = {}
        BY DEF Nothing
      <3> QED
        BY <1>1, <1>3, <2>2, <3>1, StartEffect DEF Assessed, Start
    <2> QED
      BY <1>3, <2>1, <2>2 DEF Start
  <1>4. ASSUME NEW r \in Run, Collect(r) PROVE Assessed'
    <2>1. CASE Skip(r, run[r].kind)
      BY <1>2, <1>4, <2>1 DEF Skip, Collect
    <2>2. ASSUME NEW files,
                 run' = [run EXCEPT ![r].files = files, ![r].todo = files, ![r].pc = "assess"]
          PROVE  Assessed'
      <3>1. SoundCall(run'[r])
        BY <2>2, CollectEffect DEF Assessed, SoundRisk
      <3> QED
        BY <1>1, <1>4, <2>2, <3>1, CollectEffect DEF Collect
    <2> QED
      BY <1>4, <2>1, <2>2 DEF Collect
  <1>5. ASSUME NEW r \in Run, NEW f, NEW risk, NEW entries, NEW pc, Take(r, f, risk, entries, pc),
               FilesUnchanged, SoundEntries(entries),
               \/ f \in run[r].policy.excluded
               \/ /\ WorthFloor(Text[f], risk)
                  /\ MatchesAlwaysCritical(run[r].policy, Text[f]) => risk.level = Critical \/ risk.cached
        PROVE  Assessed'
    <2>1. SoundCall(run'[r])
      <3> SUFFICES ASSUME NEW g \in DOMAIN run'[r].risks \ run'[r].policy.excluded
                   PROVE  SoundRisk(run'[r], g)
        BY <1>5, TakeEffect
      <3>1. /\ g \notin run[r].policy.excluded
            /\ g \in DOMAIN run[r].risks \cup {f}
            /\ run'[r].risks[g] = IF g = f THEN risk ELSE run[r].risks[g]
        <4>1. run'[r].policy = run[r].policy /\ run'[r].risks = Adding(run[r].risks, f, risk)
          BY <1>5, TakeEffect
        <4> QED
          BY <4>1 DEF Adding
      <3> QED
        BY <1>5, <3>1, TakeEffect DEF SoundRisk, Assessed
    <2> QED
      BY <1>1, <1>5, <2>1, TakeEffect
  <1>6. ASSUME NEW r \in Run, NEW f \in File, ExcludePath(r, f) \/ JevUnavailable(r, f) PROVE Assessed'
    <2>1. SoundEntries(run[r].entries)
      BY DEF Assessed
    <2>2. WorthFloor(Text[f], JevUnavailableRisk) /\ JevUnavailableRisk.level = Critical
      BY DEF WorthFloor, Floor, JevUnavailableRisk, Critical, High, Unknown
    <2> QED
      BY <1>5, <1>6, <2>1, <2>2 DEF ExcludePath, JevUnavailable, Excluded
  <1>7. ASSUME NEW r \in Run, NEW f \in File, HitCache(r, f) PROVE Assessed'
    <2>1. SoundEntries(run[r].entries) /\ IsEntries(run[r].entries)
      BY DEF Assessed, TypeOK, IsRun
    <2>2. PICK schema :
            /\ ComputeCacheKey(Text[f], schema) \in DOMAIN run[r].entries
            /\ Take(r, f, [run[r].entries[ComputeCacheKey(Text[f], schema)] EXCEPT !.cached = TRUE],
                    run[r].entries, "assess")
      BY <1>7 DEF HitCache
    <2> DEFINE key == ComputeCacheKey(Text[f], schema)
               risk == run[r].entries[key]
               hit == [risk EXCEPT !.cached = TRUE]
    <2>3. risk \in Risk /\ WorthFloor(Text[f], risk)
      BY <2>1, <2>2 DEF IsEntries, SoundEntries, ComputeCacheKey
    <2>4. WorthFloor(Text[f], hit) /\ hit.cached
      BY <2>3, CachedSame
    <2> HIDE DEF hit
    <2> QED
      BY <1>5, <1>7, <2>1, <2>2, <2>4 DEF HitCache, hit
  <1>8. ASSUME NEW r \in Run, NEW f \in File, AnalyzeSQL(r, f) PROVE Assessed'
    <2>1. PICK metas \in IntrospectTables(Text[f]) :
            \E result \in Answers(r, Text[f], FormatSchemaSignature(metas)) :
              LET schema == FormatSchemaSignature(metas)
                  risk == Assessment(run[r].policy, Text[f], schema, result) IN
              Take(r, f, risk, Adding(run[r].entries, ComputeCacheKey(Text[f], schema), risk), "open")
      BY <1>8 DEF AnalyzeSQL
    <2> DEFINE schema == FormatSchemaSignature(metas)
    <2>2. PICK result \in Answers(r, Text[f], schema) :
            LET risk == Assessment(run[r].policy, Text[f], schema, result) IN
            Take(r, f, risk, Adding(run[r].entries, ComputeCacheKey(Text[f], schema), risk), "open")
      BY <2>1
    <2> DEFINE risk == Assessment(run[r].policy, Text[f], schema, result)
               key == ComputeCacheKey(Text[f], schema)
               entries == Adding(run[r].entries, key, risk)
    <2>3. Text[f] \in Sql /\ schema \in Schemas
      BY TextAssumption, SignatureType
    <2>4. result.level \in Level /\ result.confidence \in 0..100
      BY <2>3, HeuristicType, JevAssumption DEF Answers, JevClassify
    <2>5. /\ WorthFloor(Text[f], risk)
          /\ MatchesAlwaysCritical(run[r].policy, Text[f]) => risk.level = Critical
      BY <2>3, <2>4, AssessmentSound
    <2>6. SoundEntries(run[r].entries) /\ key.sql = Text[f]
      BY DEF Assessed, ComputeCacheKey
    <2> HIDE DEF risk, key
    <2>7. SoundEntries(entries)
      BY <2>5, <2>6, AddingSound
    <2>8. Take(r, f, risk, entries, "open")
      BY <2>2 DEF risk, key
    <2> HIDE DEF entries
    <2> QED
      BY <1>5, <1>8, <2>5, <2>7, <2>8 DEF AnalyzeSQL
  <1>9. ASSUME NEW r \in Run, ReadFails(r) \/ Decide(r) \/ Die(r) PROVE Assessed'
    BY <1>2, <1>9 DEF ReadFails, Decide, Die
  <1>10. ASSUME NEW r \in Run, OpenTmp(r) \/ WriteData(r) \/ Rename(r) \/ RemoveTmp(r) PROVE Assessed'
    <2>1. \A q \in Run : SoundCall(run'[q])
      BY <1>10, PersistEffect DEF Assessed, SoundRisk
    <2>2. /\ SoundEntries(NoFile.entries) /\ SoundEntries(Empty.entries) /\ SoundEntries(Torn.entries)
          /\ SoundEntries(Whole(run[r].entries).entries)
      BY NothingType DEF NoFile, Empty, Torn, Whole, Assessed
    <2>3. SoundEntries(final'.entries) /\ SoundEntries(tmp'.entries)
      BY <1>10, <2>2 DEF OpenTmp, WriteData, Written, Rename, RemoveTmp, Assessed
    <2> QED
      BY <2>1, <2>3 DEF Assessed
  <1>11. CASE UNCHANGED vars
    BY <1>11 DEF vars, Assessed, SoundRisk
  <1> QED
    BY <1>3, <1>4, <1>6, <1>7, <1>8, <1>9, <1>10, <1>11 DEF Next, Step

-----------------------------------------------------------------------------
(* Whoever opens the temporary file looks who else has it; a call that is   *)
(* not at it disturbs nobody.                                               *)
LEMMA NextSoleWriter == TypeOK /\ SoleWriter /\ [Next]_vars => SoleWriter'
  <1> SUFFICES ASSUME TypeOK, SoleWriter, [Next]_vars PROVE SoleWriter'
    OBVIOUS
  <1> USE DEF FilesUnchanged
  <1>1. ASSUME NEW r \in Run, \A q \in Run \ {r} : run'[q] = run[q], run'[r].pc \notin Persisting,
               UNCHANGED <<tmp, shared>>
        PROVE  SoleWriter'
    BY <1>1 DEF SoleWriter, Persisting
  <1>2. ASSUME NEW r \in Run, NEW outcome \in Ended, End(r, outcome), FilesUnchanged PROVE SoleWriter'
    BY <1>1, <1>2, EndEffect DEF Ended, Persisting
  <1>3. ASSUME NEW r \in Run, NEW kind, NEW remote, Start(r, kind, remote) PROVE SoleWriter'
    <2>1. CASE Skip(r, kind)
      BY <1>2, <1>3, <2>1 DEF Skip, Start, Ended
    <2>2. ASSUME NEW file,
                 run' = [run EXCEPT ![r] = [NewRiskAnalyzer(r, file) EXCEPT !.kind = kind, !.remote = remote]]
          PROVE  SoleWriter'
      BY <1>1, <1>3, <2>2, StartEffect DEF Start, Persisting
    <2> QED
      BY <1>3, <2>1, <2>2 DEF Start
  <1>4. ASSUME NEW r \in Run, Collect(r) PROVE SoleWriter'
    <2>1. CASE Skip(r, run[r].kind)
      BY <1>2, <1>4, <2>1 DEF Skip, Collect, Ended
    <2>2. ASSUME NEW files,
                 run' = [run EXCEPT ![r].files = files, ![r].todo = files, ![r].pc = "assess"]
          PROVE  SoleWriter'
      BY <1>1, <1>4, <2>2, CollectEffect DEF Collect, Persisting
    <2> QED
      BY <1>4, <2>1, <2>2 DEF Collect
  <1>5. ASSUME NEW r \in Run, NEW f \in File,
               ExcludePath(r, f) \/ HitCache(r, f) \/ AnalyzeSQL(r, f) \/ JevUnavailable(r, f)
        PROVE  SoleWriter'
    <2>1. \E risk, entries : \E pc \in {"assess", "open"} : Take(r, f, risk, entries, pc)
      BY <1>5 DEF ExcludePath, HitCache, AnalyzeSQL, JevUnavailable
    <2>2. UNCHANGED <<tmp, shared>>
      BY <1>5 DEF ExcludePath, HitCache, AnalyzeSQL, JevUnavailable
    <2> QED
      BY <1>1, <2>1, <2>2, TakeEffect DEF Persisting
  <1>6. ASSUME NEW r \in Run, ReadFails(r) \/ Decide(r) \/ Die(r) PROVE SoleWriter'
    BY <1>2, <1>6 DEF ReadFails, Decide, Die, Ended
  <1>7. ASSUME NEW r \in Run, OpenTmp(r) PROVE SoleWriter'
    <2>1. CASE Goto(r, "assess") /\ UNCHANGED <<tmp, shared>>
      BY <1>1, <1>7, <2>1, PersistEffect DEF Goto, TypeOK, IsRun, Persisting
    <2>2. CASE /\ run' = [run EXCEPT ![r].pc = "write", ![r].fd = "tmp"]
               /\ tmp' = Empty
               /\ shared' = IF HasFile(r) = {} THEN shared \ {r} ELSE shared \cup HasFile(r) \cup {r}
      <3>1. run'[r].pc = "write" /\ run'[r].fd = "tmp" /\ \A q \in Run \ {r} : run'[q] = run[q]
        BY <2>2 DEF TypeOK, IsRun
      <3>2. CASE HasFile(r) = {}
        <4>1. \A q \in Run \ {r} : run'[q].pc \notin Persisting
          BY <3>1, <3>2 DEF HasFile
        <4> QED
          BY <2>2, <3>1, <4>1 DEF SoleWriter, Persisting
      <3>3. CASE HasFile(r) # {}
        BY <2>2, <3>1, <3>3 DEF SoleWriter, HasFile, Persisting
      <3> QED
        BY <3>2, <3>3
    <2> QED
      BY <1>7, <2>1, <2>2 DEF OpenTmp
  <1>8. ASSUME NEW r \in Run, WriteData(r) PROVE SoleWriter'
    <2>1. run[r].pc = "write" /\ \A q \in Run \ {r} : run'[q] = run[q]
      BY <1>8, PersistEffect DEF WriteData
    <2>2. /\ run'[r].pc \in {"assess", "rename"} /\ shared' = shared
          /\ run'[r].pc = "rename" /\ run[r].fd = "tmp" => tmp' \in Written(tmp, run[r].entries)
      BY <1>8 DEF WriteData, TypeOK, IsRun
    <2>3. Written(Empty, run[r].entries) = {Whole(run[r].entries)}
      BY DEF Written, Empty
    <2>4. Whole(run[r].entries).state = "whole"
      BY DEF Whole
    <2> QED
      BY <2>1, <2>2, <2>3, <2>4 DEF SoleWriter, Persisting
  <1>9. ASSUME NEW r \in Run, Rename(r) \/ RemoveTmp(r) PROVE SoleWriter'
    <2>1. /\ run[r].pc \in Persisting /\ run'[r].pc \in {"assess", "remove"} /\ shared' = shared
          /\ \A q \in Run \ {r} : run'[q].pc = run[q].pc
      BY <1>9, PersistEffect DEF Rename, RemoveTmp, Persisting
    <2> QED
      BY <2>1 DEF SoleWriter, Persisting
  <1>10. CASE UNCHANGED vars
    BY <1>10 DEF vars, SoleWriter
  <1> QED
    BY <1>3, <1>4, <1>5, <1>6, <1>7, <1>8, <1>9, <1>10 DEF Next, Step

-----------------------------------------------------------------------------
(* Before any call there is no cache.                                       *)
LEMMA InitIInv == Init => IInv
  <1> SUFFICES ASSUME Init PROVE IInv
    OBVIOUS
  <1>1. \A r \in Run : run[r] = Gone("new")
    BY DEF Init
  <1>2. /\ Gone("new").pc = "new" /\ Gone("new").kind = "hook" /\ Gone("new").files = {}
        /\ Gone("new").entries = Nothing /\ Gone("new").risks = Nothing /\ DOMAIN Nothing = {}
    BY DEF Gone, Nothing
  <1>3. TypeOK
    BY <1>1, GoneType DEF Init, TypeOK, IsCacheFile
  <1>4. Fresh
    BY <1>1, <1>2 DEF Fresh
  <1>5. Assessed
    BY <1>1, <1>2, NothingType DEF Init, Assessed, NoFile
  <1>6. SoleWriter
    BY <1>1, <1>2 DEF SoleWriter, Persisting
  <1> QED
    BY <1>3, <1>4, <1>5, <1>6 DEF IInv

(* The parts together are inductive.                                        *)
LEMMA NextIInv == IInv /\ [Next]_vars => IInv'
  BY NextTypeOK, NextFresh, NextAssessed, NextSoleWriter DEF IInv

(* The strengthening the safety of the gate rests on.                       *)
THEOREM InductiveInvariant == Spec => []IInv
  BY InitIInv, NextIInv, PTL DEF Spec

(* Every call, and every cache file it may read, is one of the values that  *)
(* the decision is defined on.                                              *)
THEOREM TypeCorrect == Spec => []TypeOK
  BY InductiveInvariant, PTL DEF IInv

-----------------------------------------------------------------------------
(* Only the hook before its migrations, and the decision, let a call pass.  *)
LEMMA PassesBy ==
  ASSUME TypeOK, NEW q \in Run, Step(q), NEW r \in Run,
         run[r].pc \notin Ended, run'[r].pc \in {"passed", "confirmed"}
  PROVE  /\ r = q
         /\ \/ Decide(r) \/ Collect(r)
            \/ \E kind \in {"hook", "check", "analyze"}, remote \in BOOLEAN : Start(r, kind, remote)
  <1>1. CASE Collect(q)
    <2>1. CASE Skip(q, run[q].kind)
      BY <1>1, <2>1, EndEffect DEF Skip, Ended
    <2>2. ASSUME NEW files,
                 run' = [run EXCEPT ![q].files = files, ![q].todo = files, ![q].pc = "assess"]
          PROVE  FALSE
      BY <2>2, CollectEffect DEF Ended
    <2> QED
      BY <1>1, <2>1, <2>2 DEF Collect
  <1>2. ASSUME NEW kind \in {"hook", "check", "analyze"}, NEW remote \in BOOLEAN, Start(q, kind, remote)
        PROVE  r = q
    <2>1. CASE Skip(q, kind)
      BY <2>1, EndEffect DEF Skip, Ended
    <2>2. ASSUME NEW file,
                 run' = [run EXCEPT ![q] = [NewRiskAnalyzer(q, file) EXCEPT !.kind = kind, !.remote = remote]]
          PROVE  FALSE
      BY <2>2, StartEffect DEF Ended
    <2> QED
      BY <1>2, <2>1, <2>2 DEF Start
  <1>3. ASSUME NEW f \in File,
               ExcludePath(q, f) \/ HitCache(q, f) \/ AnalyzeSQL(q, f) \/ JevUnavailable(q, f)
        PROVE  FALSE
    <2>1. \E risk, entries : \E pc \in {"assess", "open"} : Take(q, f, risk, entries, pc)
      BY <1>3 DEF ExcludePath, HitCache, AnalyzeSQL, JevUnavailable
    <2> QED
      BY <2>1, TakeEffect DEF Ended
  <1>4. CASE ReadFails(q) \/ Die(q)
    BY <1>4, EndEffect DEF ReadFails, Die, Ended
  <1>5. CASE Decide(q)
    BY <1>5, EndEffect DEF Decide, Ended
  <1>6. CASE OpenTmp(q) \/ WriteData(q) \/ Rename(q) \/ RemoveTmp(q)
    BY <1>6, PersistEffect DEF Ended
  <1> QED
    BY <1>1, <1>2, <1>3, <1>4, <1>5, <1>6 DEF Step

(* PassedWasAssessed of one step and one call.                              *)
StepAssessed(r) ==
  LET c == run[r] IN
  c.pc \notin Ended /\ run'[r].pc \in {"passed", "confirmed"} =>
    \/ c.kind = "hook" /\ c.pc \in {"new", "collect"}
    \/ \A f \in c.files \ c.policy.excluded :
         /\ f \in DOMAIN c.risks
         /\ LET risk == c.risks[f] IN
            /\ risk.level >= Floor(Text[f], risk)
            /\ MatchesAlwaysCritical(c.policy, Text[f]) => risk.level = Critical \/ risk.cached
            /\ Evaluate(c.policy, risk) # "block"
            /\ Evaluate(c.policy, risk) = "confirm" => run'[r].pc = "confirmed"

(* The decision is taken on results that are sound.                         *)
LEMMA PassedSound == IInv /\ [Next]_vars => \A r \in Run : StepAssessed(r)
  <1> SUFFICES ASSUME IInv, [Next]_vars, NEW r \in Run,
                      run[r].pc \notin Ended, run'[r].pc \in {"passed", "confirmed"}
               PROVE  StepAssessed(r)
    BY DEF StepAssessed
  <1>1. PICK q \in Run : Step(q)
    BY DEF Next, vars, Ended
  <1>2. CASE \E kind \in {"hook", "check", "analyze"}, remote \in BOOLEAN : Start(r, kind, remote)
    BY <1>2 DEF Start, StepAssessed, IInv, Fresh
  <1>3. CASE Collect(r)
    <2>1. CASE Skip(r, run[r].kind)
      <3>1. End(r, IF run[r].kind = "hook" THEN "passed" ELSE "stopped")
        BY <2>1 DEF Skip
      <3>2. run'[r].pc = IF run[r].kind = "hook" THEN "passed" ELSE "stopped"
        BY <3>1, EndEffect DEF IInv
      <3> QED
        BY <1>3, <3>2 DEF Collect, StepAssessed
    <2>2. ASSUME NEW files,
                 run' = [run EXCEPT ![r].files = files, ![r].todo = files, ![r].pc = "assess"]
          PROVE  FALSE
      BY <2>2, CollectEffect DEF IInv
    <2> QED
      BY <1>3, <2>1, <2>2 DEF Collect
  <1>4. CASE Decide(r)
    <2>1. DOMAIN run[r].risks = run[r].files
      <3>1. IsRun(run[r]) /\ run[r].todo = {}
        BY <1>4 DEF IInv, TypeOK, Decide
      <3>2. run[r].files \ run[r].todo = run[r].files
        BY <3>1
      <3> QED
        BY <3>1, <3>2 DEF IsRun
    <2>2. /\ ~Blocked(run[r].policy, run[r].risks)
          /\ RequiresConfirm(run[r].policy, run[r].risks) => run'[r].pc = "confirmed"
      <3>1. \A outcome : End(r, outcome) => outcome \in {"passed", "confirmed"} /\ run'[r].pc = outcome
        BY EndEffect DEF IInv
      <3> QED
        BY <1>4, <3>1 DEF Decide
    <2>3. \A f \in DOMAIN run[r].risks \ run[r].policy.excluded : SoundRisk(run[r], f)
      BY DEF IInv, Assessed
    <2> QED
      BY <2>1, <2>2, <2>3 DEF StepAssessed, SoundRisk, WorthFloor, Blocked, RequiresConfirm
  <1> QED
    BY <1>1, <1>2, <1>3, <1>4, PassesBy DEF IInv

(* What a call lets through has been assessed, under every policy, with     *)
(* every cache and whatever the remote classifier answers.                  *)
THEOREM NothingUnassessed == Spec => PassedWasAssessed
  <1>1. IInv /\ [Next]_vars => [\A r \in Run : StepAssessed(r)]_vars
    BY PassedSound
  <1> QED
    BY <1>1, InductiveInvariant, PTL DEF Spec, PassedWasAssessed, StepAssessed

-----------------------------------------------------------------------------
(* The cache file's content is that of a call that had the temporary file   *)
(* for itself, or one of those that shared it takes the step.               *)
LEMMA TornStep ==
  ASSUME IInv, [Next]_vars, final' # final, final' \in Unreadable
  PROVE  \E r \in shared : run[r].pc \in Persisting /\ run'[r] # run[r]
  <1>1. PICK r \in Run : WriteData(r) \/ Rename(r)
    <2>1. PICK r \in Run : Step(r)
      BY DEF Next, vars
    <2>2. /\ ~\E kind \in {"hook", "check", "analyze"}, remote \in BOOLEAN : Start(r, kind, remote)
          /\ ~Collect(r)
      BY DEF Start, Collect, FilesUnchanged
    <2>3. ~\E f \in File : ExcludePath(r, f) \/ HitCache(r, f) \/ AnalyzeSQL(r, f) \/ JevUnavailable(r, f)
      BY DEF ExcludePath, HitCache, AnalyzeSQL, JevUnavailable, FilesUnchanged
    <2>4. ~ReadFails(r) /\ ~OpenTmp(r) /\ ~RemoveTmp(r) /\ ~Decide(r) /\ ~Die(r)
      BY DEF ReadFails, OpenTmp, RemoveTmp, Decide, Die, FilesUnchanged
    <2> QED
      BY <2>1, <2>2, <2>3, <2>4 DEF Step
  <1>2. run[r].pc \in Persisting /\ run'[r].pc # run[r].pc
    <2>1. CASE WriteData(r)
      <3>1. PICK failed \in BOOLEAN :
              run' = [run EXCEPT ![r].pc = IF failed THEN "assess" ELSE "rename", ![r].fd = "none"]
        BY <2>1 DEF WriteData
      <3>2. run'[r].pc = IF failed THEN "assess" ELSE "rename"
        BY <3>1 DEF IInv, TypeOK, IsRun
      <3> QED
        BY <2>1, <3>2 DEF WriteData, Persisting
    <2>2. CASE Rename(r)
      BY <2>2, PersistEffect DEF IInv, Rename, Persisting
    <2> QED
      BY <1>1, <2>1, <2>2
  <1>3. CASE r \notin shared /\ WriteData(r)
    BY <1>3 DEF IInv, SoleWriter, WriteData
  <1>4. CASE r \notin shared /\ Rename(r)
    <2>1. tmp.state = "whole" /\ final' = tmp
      BY <1>4 DEF IInv, SoleWriter, Rename
    <2> QED
      BY <2>1 DEF Unreadable, Empty, Torn
  <1> QED
    BY <1>1, <1>2, <1>3, <1>4

(* For any number of calls, killed at any moment, with files that cannot be *)
(* written or renamed: only overlapping writers leave an unreadable cache.  *)
THEOREM TornByOverlapOnly == Spec => TornOnlyByOverlap
  <1>1. IInv /\ [Next]_vars =>
          [final' # final /\ final' \in Unreadable =>
             \E r \in shared : run[r].pc \in Persisting /\ run'[r] # run[r]]_vars
    BY TornStep
  <1> QED
    BY <1>1, InductiveInvariant, PTL DEF Spec, TornOnlyByOverlap

-----------------------------------------------------------------------------
(* What the server's lexer has read.                                        *)
LexState ==
  [mode : {"code", "line", "block", "dollar"} \cup Quotes, depth : Int, escaped : BOOLEAN]

LexerOK ==
  /\ engine \in {"postgres", "mysql", "sqlite"}
  /\ text \in Seq(Tokens(engine))
  /\ lexer \in Seq([outer : LexState, inner : LexState]) /\ Len(lexer) = Len(text) + 1
  /\ lexer[1] = [outer |-> AtCode, inner |-> AtCode]
  /\ \A p \in 1..Len(text) : lexer[p + 1] = ReadOn(engine, lexer[p], text[p])
  /\ \A p \in 1..(Len(text) + 1) : lexer[p].outer.escaped => lexer[p].outer.mode \in Quotes

(* It is in a dollar-quoted body from a tag in the code to the next tag.    *)
InDollar(p) == lexer[p].outer.mode = "dollar"
Opened(j) ==
  engine = "postgres" /\ \E q \in 1..(j - 1) : text[q] = "$$" /\ lexer[q].outer.mode = "code"
Bodies ==
  /\ \A i \in 1..(Len(text) + 1), j \in 1..(Len(text) + 1) :
       InDollar(i) /\ i <= j /\ (\A q \in i..(j - 1) : text[q] # "$$") => InDollar(j)
  /\ \A j \in 1..(Len(text) + 1) : InDollar(j) => Opened(j)

(* The code: where it is in the text, and what it has kept.                 *)
Scanning == {"StripComments", "sqlForPolicyMatching"}
Stripped == {"StripComments", "SplitStatements", "split"}
Matching == {"sqlForPolicyMatching", "matched"}

ScanOK ==
  /\ function \in {"none"} \cup Stripped \cup Matching
  /\ closing \in 0..Len(text) /\ at \in 1..(Limit + 1)
  /\ loop \in {"top", "line", "block"} \cup Quotes
  /\ depth \in Nat /\ (loop = "block" => depth > 0)
  /\ function = "none" => at = 1 /\ loop = "top" /\ closing = 0 /\ kept = <<>>
  /\ function \notin {"none"} \cup Scanning => at = Len(text) + 1

(* The texts that the properties are about.                                 *)
Covered == WellFormed /\ ReadsAlike /\ (function \in Matching => ~TagsAreWords)

(* A body is gone through between two tags that have none in between.       *)
InBodyOK ==
  closing # 0 =>
    /\ function = "sqlForPolicyMatching" /\ text[closing] = "$$"
    /\ \A p \in at..(closing - 1) : text[p] # "$$"
    /\ Covered => \A p \in at..closing : InDollar(p)

(* A sequence of places below a, each after the ones before it.             *)
Sorted(s, a) ==
  /\ s \in Seq(Nat)
  /\ \A k \in 1..Len(s) : s[k] \in 1..(a - 1)
  /\ \A k \in 1..Len(s), l \in 1..Len(s) : k < l => s[k] < s[l]
Has(s, p) == \E k \in 1..Len(s) : s[k] = p

(* The code is where the server's lexer is, in the text or in its body.     *)
Here(p) == IF closing = 0 THEN lexer[p].outer ELSE lexer[p].inner
Follows(l, d, p) ==
  /\ l = "top" => Here(p).mode = "code" \/ (Here(p).mode = "line" /\ (p <= Limit => text[p] = "nl"))
  /\ l = "line" => Here(p).mode = "line"
  /\ l = "block" => Here(p).mode = "block" /\ d = IF engine = "postgres" THEN Here(p).depth ELSE 1
  /\ l \in Quotes => Here(p).mode = l /\ (p <= Limit => ~Here(p).escaped)
InStep == Follows(loop, depth, at)

(* It has kept what it should.                                              *)
KeepsCode ==
  \A p \in 1..(at - 1) :
    /\ function \in Stripped =>
         /\ ~Has(kept, p) => RoleAt(p) = "comment"
         /\ Has(kept, p) /\ text[p] # "nl" => RoleAt(p) # "comment"
    /\ function \in Matching /\ text[p] # "nl" => (Has(kept, p) <=> p \in Executed)

(* SplitStatements: where it is in what was kept, and what it has found.    *)
SplitOK ==
  /\ rune \in 1..(Len(kept) + 1)
  /\ current \in SUBSET Nat /\ statements \in Seq(SUBSET Nat)
  /\ function \notin {"SplitStatements", "split"} =>
       rune = 1 /\ quote = "none" /\ ~dollar /\ current = {} /\ statements = <<>>

Place(k) == IF k <= Len(kept) THEN kept[k] ELSE Len(text) + 1
QuoteOf(s) == IF s.mode \in Quotes THEN s.mode ELSE "none"
EndsBefore(n) == {p \in 1..Len(text) : RoleAt(p) = "end" /\ p < n}
Finds(found, S) ==
  {found[k] : k \in 1..Len(found)} = {Part(end) : end \in S} \ {{}}
InOrder(found) ==
  \A k \in 1..Len(found), l \in 1..Len(found) :
     l < k => \A p \in found[l], q \in found[k] : p < q
Reaches(n, quotes, part, found) ==
  /\ quotes = QuoteOf(lexer[n].outer) /\ ~lexer[n].outer.escaped
  /\ part = Part(n) /\ Finds(found, EndsBefore(n)) /\ InOrder(found)
AtRune == ~dollar /\ Reaches(Place(rune), quote, current, statements)

-----------------------------------------------------------------------------
(* A lexer's state after a token is one again, escaped in strings only.     *)
LEMMA ReadType ==
  ASSUME NEW e, NEW s \in LexState, NEW token \in Tokens(e)
  PROVE  /\ Read(e, s, token) \in LexState
         /\ Read(e, s, token).escaped => Read(e, s, token).mode \in Quotes
  <1> DEFINE m == Mode(e, s, token)
             d == Depth(e, s, token)
             x == e = "mysql" /\ s.mode \in {"'", "dq"} /\ token = "\\" /\ ~s.escaped
  <1>1. m \in {"code", "line", "block", "dollar"} \cup Quotes
    BY DEF Mode, Enter, LexState, Quotes
  <1>2. d \in Int
    BY DEF Depth, LexState
  <1>3. x => m \in Quotes
    BY DEF Mode, Quotes
  <1>4. Read(e, s, token) = [mode |-> m, depth |-> d, escaped |-> x]
    BY DEF Read
  <1>5. x \in BOOLEAN
    OBVIOUS
  <1> HIDE DEF m, d, x
  <1>6. [mode |-> m, depth |-> d, escaped |-> x] \in LexState
    BY <1>1, <1>2, <1>5 DEF LexState
  <1>7. [mode |-> m, depth |-> d, escaped |-> x].escaped => m \in Quotes
    BY <1>3, Zenon
  <1> QED
    BY <1>4, <1>6, <1>7

LEMMA AtCodeType == AtCode \in LexState /\ ~AtCode.escaped /\ AtCode.mode = "code"
  BY DEF AtCode, LexState

(* Where a dollar-quoted body begins and ends.                              *)
LEMMA ReadDollar ==
  ASSUME NEW e, NEW s \in LexState, NEW token
  PROVE  /\ s.mode = "dollar" /\ token # "$$" => Read(e, s, token).mode = "dollar"
         /\ Read(e, s, token).mode = "dollar" =>
              s.mode = "dollar" \/ (s.mode = "code" /\ token = "$$" /\ e = "postgres")
  BY DEF Read, Mode, Enter, LexState, Quotes

-----------------------------------------------------------------------------
(* The author writes a token: the lexer has read it.                        *)
LEMMA WriteLexer ==
  ASSUME LexerOK, Bodies, NEW token \in Tokens(engine), Write(token)
  PROVE  LexerOK' /\ Bodies'
  <1> DEFINE N == Len(text)
             s == lexer[N + 1]
             t == ReadOn(engine, s, token)
  <1>1. /\ text' = Append(text, token) /\ lexer' = Append(lexer, t) /\ engine' = engine
        /\ text \in Seq(Tokens(engine)) /\ N \in Nat
        /\ lexer \in Seq([outer : LexState, inner : LexState]) /\ Len(lexer) = N + 1
    BY DEF Write, LexerOK
  <1>2. s \in [outer : LexState, inner : LexState]
    <2> DEFINE P == [outer : LexState, inner : LexState]
    <2>1. lexer \in Seq(P) /\ Len(lexer) = N + 1 /\ N \in Nat
      BY <1>1
    <2> HIDE DEF P
    <2>2. s \in P
      BY <2>1
    <2> QED
      BY <2>2 DEF P
  <1>3. /\ t \in [outer : LexState, inner : LexState]
        /\ t.outer.escaped => t.outer.mode \in Quotes
    <2>1. s.outer \in LexState /\ s.inner \in LexState
      BY <1>2
    <2>2. /\ Read(engine, s.outer, token) \in LexState
          /\ Read(engine, s.outer, token).escaped => Read(engine, s.outer, token).mode \in Quotes
          /\ Read(engine, s.inner, token) \in LexState
      BY <2>1, ReadType
    <2> QED
      BY <2>2, AtCodeType DEF ReadOn
  <1>4. t.outer = Read(engine, s.outer, token)
    BY DEF ReadOn
  <1>5. /\ Len(text') = N + 1 /\ Len(lexer') = N + 2
        /\ \A p \in 1..N : text'[p] = text[p]
        /\ text'[N + 1] = token
        /\ \A p \in 1..(N + 1) : lexer'[p] = lexer[p]
        /\ lexer'[N + 2] = t
    BY <1>1
  <1> HIDE DEF t
  <1>6. LexerOK'
    <2>1. text' \in Seq(Tokens(engine')) /\ lexer' \in Seq([outer : LexState, inner : LexState])
      BY <1>1, <1>3
    <2>2. lexer'[1] = [outer |-> AtCode, inner |-> AtCode]
      BY <1>1, <1>5 DEF LexerOK
    <2>3. ASSUME NEW p \in 1..(N + 1)  PROVE lexer'[p + 1] = ReadOn(engine', lexer'[p], text'[p])
      <3>1. CASE p \in 1..N
        <4>1. lexer[p + 1] = ReadOn(engine, lexer[p], text[p])
          BY <3>1 DEF LexerOK
        <4> QED
          BY <1>1, <1>5, <3>1, <4>1
      <3>2. CASE p = N + 1
        BY <1>1, <1>5, <3>2 DEF t
      <3> QED
        BY <3>1, <3>2, <1>1
    <2>4. ASSUME NEW p \in 1..(N + 2)
          PROVE  lexer'[p].outer.escaped => lexer'[p].outer.mode \in Quotes
      <3>1. CASE p \in 1..(N + 1)
        <4>1. lexer[p].outer.escaped => lexer[p].outer.mode \in Quotes
          BY <3>1 DEF LexerOK
        <4> QED
          BY <1>5, <3>1, <4>1
      <3>2. CASE p = N + 2
        BY <1>3, <1>5, <3>2
      <3> QED
        BY <3>1, <3>2, <1>1
    <2>5. engine' \in {"postgres", "mysql", "sqlite"}
      BY <1>1 DEF LexerOK
    <2> QED
      BY <1>1, <1>5, <2>1, <2>2, <2>3, <2>4, <2>5 DEF LexerOK
  <1>7. Bodies'
    <2>1. /\ \A p \in 1..(N + 1) : InDollar(p)' <=> InDollar(p)
          /\ \A p : p = N + 2 => (InDollar(p)' <=> t.outer.mode = "dollar")
      BY <1>1, <1>5 DEF InDollar
    <2>2. /\ InDollar(N + 1) /\ token # "$$" => t.outer.mode = "dollar"
          /\ t.outer.mode = "dollar" =>
               \/ InDollar(N + 1)
               \/ lexer[N + 1].outer.mode = "code" /\ token = "$$" /\ engine = "postgres"
      BY <1>2, <1>4, ReadDollar DEF InDollar
    <2>3. ASSUME NEW i \in 1..(N + 2), NEW j \in 1..(N + 2), InDollar(i)', i <= j,
                 \A q \in i..(j - 1) : text'[q] # "$$"
          PROVE  InDollar(j)'
      <3>1. CASE j \in 1..(N + 1)
        <4>1. InDollar(i) /\ \A q \in i..(j - 1) : text[q] # "$$"
          BY <1>1, <1>5, <2>1, <2>3, <3>1
        <4>2. InDollar(j)
          <5>1. i \in 1..(N + 1) /\ j \in 1..(N + 1) /\ i <= j /\ N = Len(text)
            BY <1>1, <2>3, <3>1
          <5> QED
            BY <4>1, <5>1 DEF Bodies
        <4> QED
          BY <2>1, <3>1, <4>2
      <3>2. CASE j = N + 2 /\ i # N + 2
        <4>1. InDollar(i) /\ \A q \in i..N : text[q] # "$$"
          BY <1>1, <1>5, <2>1, <2>3, <3>2
        <4>2. InDollar(N + 1)
          BY <1>1, <2>3, <3>2, <4>1 DEF Bodies
        <4>3. token # "$$"
          BY <1>1, <1>5, <2>3, <3>2
        <4> QED
          BY <2>1, <2>2, <3>2, <4>2, <4>3
      <3> QED
        BY <2>3, <3>1, <3>2, <1>1
    <2>4. ASSUME NEW j \in 1..(N + 2), InDollar(j)'
          PROVE  Opened(j)'
      <3>1. CASE j \in 1..(N + 1)
        <4>1. PICK q \in 1..(j - 1) :
                engine = "postgres" /\ text[q] = "$$" /\ lexer[q].outer.mode = "code"
          BY <2>1, <2>4, <3>1 DEF Bodies, Opened
        <4> QED
          BY <1>1, <1>5, <3>1, <4>1 DEF Opened
      <3>2. CASE j = N + 2 /\ lexer[N + 1].outer.mode = "code" /\ token = "$$" /\ engine = "postgres"
        BY <1>1, <1>5, <3>2 DEF Opened
      <3>3. CASE j = N + 2 /\ InDollar(N + 1)
        <4>1. PICK q \in 1..N :
                engine = "postgres" /\ text[q] = "$$" /\ lexer[q].outer.mode = "code"
          BY <1>1, <3>3 DEF Bodies, Opened
        <4> QED
          BY <1>1, <1>5, <3>3, <4>1 DEF Opened
      <3> QED
        BY <1>1, <2>1, <2>2, <2>4, <3>1, <3>2, <3>3
    <2> QED
      BY <1>1, <1>5, <2>3, <2>4, N + 1 + 1 = N + 2 DEF Bodies, InDollar
  <1> QED
    BY <1>6, <1>7

-----------------------------------------------------------------------------
(* What is kept goes on with the next n places of the text.                 *)
Onwards(u, a, n) == u \in Seq(Nat) /\ Len(u) = n /\ \A k \in 1..n : u[k] = a + k - 1

LEMMA Appended ==
  ASSUME NEW s \in Seq(Nat), NEW u \in Seq(Nat)
  PROVE  /\ s \o u \in Seq(Nat) /\ Len(s \o u) = Len(s) + Len(u)
         /\ \A k \in 1..Len(s) : (s \o u)[k] = s[k]
         /\ \A k \in (Len(s) + 1)..(Len(s) + Len(u)) : (s \o u)[k] = u[k - Len(s)]
  OBVIOUS

LEMMA KeptGrows ==
  ASSUME NEW a \in Nat \ {0}, NEW n \in Nat, NEW s, Sorted(s, a), NEW u, Onwards(u, a, n)
  PROVE  /\ Sorted(s \o u, a + n)
         /\ \A p : Has(s \o u, p) <=> Has(s, p) \/ p \in a..(a + n - 1)
  <1> DEFINE t == s \o u
  <1>1. /\ s \in Seq(Nat) /\ Len(s) \in Nat
        /\ \A k \in 1..Len(s) : s[k] \in 1..(a - 1)
        /\ \A k \in 1..Len(s), l \in 1..Len(s) : k < l => s[k] < s[l]
    BY DEF Sorted
  <1>2. u \in Seq(Nat) /\ Len(u) = n /\ \A k \in 1..n : u[k] = a + k - 1
    BY DEF Onwards
  <1>3. /\ t \in Seq(Nat) /\ Len(t) = Len(s) + Len(u)
        /\ \A k \in 1..Len(s) : t[k] = s[k]
        /\ \A k \in (Len(s) + 1)..(Len(s) + Len(u)) : t[k] = u[k - Len(s)]
    BY <1>1, <1>2, Appended
  <1> HIDE DEF t
  <1>4. Len(s) \in Nat /\ t \in Seq(Nat) /\ Len(t) = Len(s) + n
    BY <1>1, <1>2, <1>3
  <1>5. \A k \in 1..Len(s) : t[k] = s[k] /\ t[k] \in 1..(a - 1)
    BY <1>1, <1>3
  <1>6. \A k \in (Len(s) + 1)..(Len(s) + n) : t[k] = a + (k - Len(s)) - 1
    BY <1>1, <1>2, <1>3
  <1>7. \A k \in 1..Len(t) : t[k] \in 1..(a + n - 1)
    <2>1. ASSUME NEW k \in 1..Len(t)  PROVE t[k] \in 1..(a + n - 1)
      <3>1. CASE k <= Len(s)
        BY <1>4, <1>5, <3>1
      <3>2. CASE k > Len(s)
        BY <1>4, <1>6, <3>2
      <3> QED
        BY <3>1, <3>2, <1>4
    <2> QED
      BY <2>1
  <1>8. ASSUME NEW k \in 1..Len(t), NEW l \in 1..Len(t), k < l  PROVE t[k] < t[l]
    <2>0. k \in 1..(Len(s) + n) /\ l \in 1..(Len(s) + n) /\ k < l /\ Len(s) \in Nat
      BY <1>4, <1>8
    <2>1. CASE l \in 1..Len(s)
      <3>1. k \in 1..Len(s)
        BY <2>0, <2>1
      <3>2. s[k] < s[l]
        BY <1>1, <2>0, <2>1, <3>1
      <3> QED
        BY <1>5, <2>1, <3>1, <3>2
    <2>2. CASE k \in 1..Len(s) /\ l \in (Len(s) + 1)..(Len(s) + n)
      <3>1. t[k] \in 1..(a - 1) /\ t[l] = a + (l - Len(s)) - 1
        BY <1>5, <1>6, <2>2
      <3> QED
        BY <2>0, <2>2, <3>1
    <2>3. CASE k \in (Len(s) + 1)..(Len(s) + n)
      <3>1. t[k] = a + (k - Len(s)) - 1 /\ t[l] = a + (l - Len(s)) - 1
        BY <1>6, <2>0, <2>3
      <3> QED
        BY <2>0, <2>3, <3>1
    <2> QED
      BY <2>0, <2>1, <2>2, <2>3
  <1>9. ASSUME NEW p
        PROVE  Has(t, p) <=> Has(s, p) \/ p \in a..(a + n - 1)
    <2>1. ASSUME NEW k \in 1..Len(t), t[k] = p
          PROVE  Has(s, p) \/ p \in a..(a + n - 1)
      <3>1. CASE k <= Len(s)
        BY <1>4, <1>5, <2>1, <3>1 DEF Has
      <3>2. CASE k > Len(s)
        <4>1. k \in (Len(s) + 1)..(Len(s) + n)
          BY <1>4, <2>1, <3>2
        <4>2. p = a + (k - Len(s)) - 1
          BY <1>6, <2>1, <4>1
        <4> QED
          BY <1>4, <4>1, <4>2
      <3> QED
        BY <3>1, <3>2, <1>4
    <2>2. ASSUME NEW k \in 1..Len(s), s[k] = p  PROVE Has(t, p)
      BY <1>4, <1>5, <2>2 DEF Has
    <2>3. ASSUME p \in a..(a + n - 1)  PROVE Has(t, p)
      <3>1. Len(s) + (p - a) + 1 \in (Len(s) + 1)..(Len(s) + n)
        BY <1>4, <2>3
      <3>2. t[Len(s) + (p - a) + 1] = p
        BY <1>6, <2>3, <3>1
      <3> QED
        BY <1>4, <3>1, <3>2 DEF Has
    <2> QED
      BY <2>1, <2>2, <2>3 DEF Has
  <1>10. Sorted(t, a + n)
    BY <1>4, <1>7, <1>8 DEF Sorted
  <1> QED
    BY <1>9, <1>10 DEF t

-----------------------------------------------------------------------------
(* The next n places are gone through, and kept or left out.                *)
Passes(n, keeps) == at' = at + n /\ IF keeps THEN Keep(n) ELSE UNCHANGED kept

(* Whether a place is to be kept.                                           *)
Suits(p, keeps) ==
  /\ function = "StripComments" =>
       /\ ~keeps => RoleAt(p) = "comment"
       /\ keeps /\ text[p] # "nl" => RoleAt(p) # "comment"
  /\ function = "sqlForPolicyMatching" /\ text[p] # "nl" => (keeps <=> p \in Executed)

LEMMA Pass ==
  ASSUME LexerOK, ScanOK, Sorted(kept, at), function \in Scanning, UNCHANGED <<textVars, function>>,
         NEW n \in Nat, NEW keeps \in BOOLEAN, Passes(n, keeps)
  PROVE  /\ Sorted(kept, at)'
         /\ KeepsCode /\ (\A p \in at..(at + n - 1) : Suits(p, keeps)) => KeepsCode'
  <1>1. /\ at \in Nat \ {0} /\ at' = at + n
        /\ text' = text /\ lexer' = lexer /\ engine' = engine /\ function' = function
    BY DEF ScanOK, Limit, Passes, textVars, LexerOK
  <1>2. /\ Sorted(kept', at + n)
        /\ \A p : Has(kept', p) <=> Has(kept, p) \/ (keeps /\ p \in at..(at + n - 1))
    <2>1. CASE keeps
      <3> DEFINE u == [k \in 1..n |-> at + k - 1]
      <3>1. kept' = kept \o u
        BY <2>1 DEF Passes, Keep
      <3>2. Onwards(u, at, n)
        BY <1>1 DEF Onwards
      <3> HIDE DEF u
      <3> QED
        BY <1>1, <2>1, <3>1, <3>2, KeptGrows
    <2>2. CASE ~keeps
      <3>1. kept' = kept
        BY <2>2 DEF Passes
      <3> QED
        BY <1>1, <2>2, <3>1 DEF Sorted
    <2> QED
      BY <2>1, <2>2
  <1>3. Sorted(kept, at)'
    BY <1>1, <1>2
  <1>5. \A p \in at..(at + n - 1) : ~Has(kept, p)
    BY <1>1 DEF Has, Sorted
  <1>6. /\ \A p : RoleAt(p)' = RoleAt(p) /\ text'[p] = text[p]
        /\ Executed' = Executed
    BY <1>1 DEF RoleAt, RoleInBody, Executed
  <1>7. ASSUME KeepsCode, \A p \in at..(at + n - 1) : Suits(p, keeps), NEW p \in 1..(at + n - 1)
        PROVE  /\ function \in Stripped =>
                    /\ ~Has(kept', p) => RoleAt(p) = "comment"
                    /\ Has(kept', p) /\ text[p] # "nl" => RoleAt(p) # "comment"
               /\ function \in Matching /\ text[p] # "nl" => (Has(kept', p) <=> p \in Executed)
    <2>1. CASE p \in 1..(at - 1)
      <3>1. Has(kept', p) <=> Has(kept, p)
        BY <1>1, <1>2, <2>1
      <3> QED
        BY <1>7, <2>1, <3>1 DEF KeepsCode
    <2>2. CASE p \in at..(at + n - 1)
      <3>1. Suits(p, keeps)
        BY <1>7, <2>2
      <3>2. Has(kept', p) <=> keeps
        BY <1>2, <1>5, <2>2
      <3> QED
        BY <3>1, <3>2 DEF Suits, Scanning, Stripped, Matching
    <2> QED
      BY <1>1, <2>1, <2>2
  <1>8. ASSUME KeepsCode, \A p \in at..(at + n - 1) : Suits(p, keeps)  PROVE KeepsCode'
    <2>1. ASSUME NEW p \in 1..(at' - 1)
          PROVE  /\ function' \in Stripped =>
                      /\ ~Has(kept', p) => RoleAt(p)' = "comment"
                      /\ Has(kept', p) /\ text'[p] # "nl" => RoleAt(p)' # "comment"
                 /\ function' \in Matching /\ text'[p] # "nl" => (Has(kept', p) <=> p \in Executed')
      <3>1. p \in 1..(at + n - 1)
        BY <1>1
      <3> QED
        BY <1>1, <1>6, <1>7, <1>8, <3>1
    <2> QED
      BY <2>1 DEF KeepsCode
  <1> QED
    BY <1>3, <1>8

-----------------------------------------------------------------------------
(* The lexer that the code follows reads the tokens of the text ...         *)
LEMMA HereReads ==
  ASSUME LexerOK, ScanOK, InBodyOK, Covered, NEW p \in at..Limit
  PROVE  /\ p \in 1..Len(text) /\ text[p] \in Tokens(engine)
         /\ Here(p + 1) = Read(engine, Here(p), text[p])
  <1>1. p \in 1..Len(text)
    BY DEF ScanOK, Limit, LexerOK
  <1>2. lexer[p + 1] = ReadOn(engine, lexer[p], text[p]) /\ text[p] \in Tokens(engine)
    BY <1>1 DEF LexerOK
  <1>4. CASE closing = 0
    BY <1>1, <1>2, <1>4 DEF Here, ReadOn
  <1>5. CASE closing # 0
    <2>1. p \in at..(closing - 1) /\ p \in at..closing
      BY <1>5 DEF Limit, ScanOK, LexerOK
    <2>2. lexer[p].outer.mode = "dollar" /\ text[p] # "$$"
      BY <1>5, <2>1 DEF InBodyOK, InDollar
    <2> QED
      BY <1>1, <1>2, <1>5, <2>2 DEF Here, ReadOn
  <1> QED
    BY <1>4, <1>5

(* ... as the code does ...                                                 *)
LEMMA HereAlike ==
  ASSUME LexerOK, ScanOK, InBodyOK, Covered, NEW p \in at..Limit
  PROVE  ~Differs(Here(p), text[p])
  <1>1. p \in 1..Len(text)
    BY HereReads
  <1>2. /\ ~Differs(lexer[p].outer, text[p])
        /\ lexer[p].outer.mode = "dollar" /\ text[p] # "$$" => ~Differs(lexer[p].inner, text[p])
    BY <1>1 DEF Covered, ReadsAlike
  <1>3. CASE closing = 0
    BY <1>2, <1>3 DEF Here
  <1>4. CASE closing # 0
    <2>1. p \in at..(closing - 1) /\ p \in at..closing
      BY <1>4 DEF Limit, ScanOK, LexerOK
    <2>2. lexer[p].outer.mode = "dollar" /\ text[p] # "$$"
      BY <1>4, <2>1 DEF InBodyOK, InDollar
    <2> QED
      BY <1>2, <1>4, <2>2 DEF Here
  <1> QED
    BY <1>3, <1>4

(* ... and it is the one that says what they are.                           *)
LEMMA HereSuits ==
  ASSUME LexerOK, ScanOK, InBodyOK, Covered, function \in Scanning, NEW p \in at..Limit,
         Here(p).mode # "dollar", NEW role, role = Role(engine, Here(p), text[p])
  PROVE  /\ text[p] = "nl" \/ role \in {"code", "end"} => Suits(p, TRUE)
         /\ role = "comment" => Suits(p, FALSE)
         /\ role = "quoted" => Suits(p, function = "StripComments")
  <1>1. p \in 1..Len(text)
    BY HereReads
  <1>2. CASE closing = 0
    <2>1. RoleAt(p) = role
      BY <1>2 DEF Here, RoleAt
    <2>2. role # "body"
      BY DEF Role
    <2>3. text[p] # "nl" => (p \in Executed <=> role \in {"code", "end"})
      BY <1>1, <2>1, <2>2 DEF Executed
    <2> QED
      BY <2>1, <2>3 DEF Suits
  <1>3. CASE closing # 0
    <2>1. lexer[p].outer.mode = "dollar" /\ text[p] # "$$" /\ function = "sqlForPolicyMatching"
      BY <1>3 DEF InBodyOK, InDollar, Limit, ScanOK, LexerOK
    <2>2. RoleAt(p) = "body"
      BY <2>1 DEF RoleAt, Role
    <2>3. RoleInBody(p) = role
      BY <1>3 DEF Here, RoleInBody
    <2>4. text[p] # "nl" => (p \in Executed <=> role \in {"code", "end"})
      BY <1>1, <2>2, <2>3 DEF Executed
    <2> QED
      BY <2>1, <2>4 DEF Suits
  <1> QED
    BY <1>2, <1>3

-----------------------------------------------------------------------------
(* The scanner: what it knows at every iteration.                           *)
ScanIInv ==
  /\ LexerOK /\ Bodies /\ ScanOK /\ InBodyOK /\ Sorted(kept, at)
  /\ Covered /\ function \in Scanning => InStep
  /\ Covered => KeepsCode

(* A step of the code leaves the text as it is.                             *)
LEMMA SameText ==
  ASSUME UNCHANGED textVars
  PROVE  /\ WellFormed' = WellFormed /\ ReadsAlike' = ReadsAlike
         /\ TagsAreWords' = TagsAreWords /\ DollarOpens' = DollarOpens
         /\ DialectStatements' = DialectStatements
         /\ (function' \in Matching <=> function \in Matching) => (Covered' = Covered)
  <1>1. text' = text /\ lexer' = lexer /\ engine' = engine
    BY DEF textVars
  <1>2. WellFormed' = WellFormed /\ ReadsAlike' = ReadsAlike
    BY <1>1 DEF WellFormed, Ends, ReadsAlike, Differs
  <1>3. TagsAreWords' = TagsAreWords /\ DollarOpens' = DollarOpens
    BY <1>1 DEF TagsAreWords, DollarOpens, RoleAt
  <1>4. DialectStatements' = DialectStatements
    BY <1>1 DEF DialectStatements, Part, RoleAt
  <1> QED
    BY <1>2, <1>3, <1>4 DEF Covered

LEMMA TextKept ==
  ASSUME LexerOK, Bodies, UNCHANGED textVars
  PROVE  /\ LexerOK' /\ Bodies'
         /\ (function' \in Matching <=> function \in Matching) => (Covered' = Covered)
  <1>1. text' = text /\ lexer' = lexer /\ engine' = engine
    BY DEF textVars
  <1>2. LexerOK' /\ Bodies'
    <2>1. LexerOK'
      BY <1>1 DEF LexerOK
    <2>2. \A j : InDollar(j)' = InDollar(j) /\ Opened(j)' = Opened(j)
      BY <1>1 DEF InDollar, Opened
    <2>3. Bodies'
      BY <1>1, <2>2 DEF Bodies
    <2> QED
      BY <2>1, <2>3
  <1> QED
    BY <1>2, SameText

(* Nothing but the place and the loop it is in need change.                 *)
LEMMA Moves ==
  ASSUME LexerOK, ScanOK, InBodyOK, UNCHANGED <<textVars, function, closing>>,
         NEW n \in Nat, at' = at + n, at + n <= Limit + 1
  PROVE  /\ Limit' = Limit /\ at' \in 1..(Limit' + 1) /\ closing' \in 0..Len(text')
         /\ InBodyOK'
         /\ \A p : Here(p)' = Here(p)
  <1>1. /\ text' = text /\ lexer' = lexer /\ engine' = engine /\ function' = function
        /\ closing' = closing
    BY DEF textVars
  <1>2. at \in Nat \ {0} /\ Limit \in Nat
    BY DEF ScanOK, Limit, LexerOK
  <1>3. Limit' = Limit
    BY <1>1 DEF Limit
  <1>4. InBodyOK'
    <2>1. Covered' = Covered
      BY <1>1, SameText
    <2> QED
      BY <1>1, <1>2, <2>1 DEF InBodyOK, InDollar, ScanOK
  <1>5. \A p : Here(p)' = Here(p)
    BY <1>1 DEF Here
  <1> QED
    BY <1>1, <1>2, <1>3, <1>4, <1>5 DEF ScanOK

(* An iteration of n tokens that stays in the text or body it is in.        *)
LEMMA Iteration ==
  ASSUME ScanIInv, function \in Scanning, UNCHANGED <<textVars, function, closing>>,
         NEW n \in Nat, NEW keeps \in BOOLEAN, Passes(n, keeps), at + n <= Limit + 1,
         loop' \in {"top", "line", "block"} \cup Quotes,
         depth' \in Nat, loop' = "block" => depth' > 0,
         Covered => \A p \in at..(at + n - 1) : Suits(p, keeps),
         Covered => Follows(loop', depth', at + n)
  PROVE  ScanIInv'
  <1>1. /\ text' = text /\ lexer' = lexer /\ engine' = engine /\ function' = function
        /\ at' = at + n
    BY DEF textVars, Passes
  <1>2. Covered' = Covered /\ LexerOK' /\ Bodies'
    BY TextKept DEF ScanIInv
  <1>3. /\ Limit' = Limit /\ at' \in 1..(Limit' + 1) /\ closing' \in 0..Len(text')
        /\ InBodyOK'
        /\ \A p : Here(p)' = Here(p)
    BY <1>1, Moves DEF ScanIInv
  <1>4. Sorted(kept, at)' /\ (Covered => KeepsCode')
    BY Pass DEF ScanIInv
  <1>5. ScanOK'
    BY <1>1, <1>3 DEF ScanOK, ScanIInv, Scanning, Stripped, Matching
  <1>6. Covered => InStep'
    BY <1>1, <1>3 DEF InStep, Follows
  <1> QED
    BY <1>2, <1>3, <1>4, <1>5, <1>6 DEF ScanIInv

(* One of a single token, and one of none.                                  *)
LEMMA OneToken ==
  ASSUME ScanIInv, function \in Scanning, UNCHANGED <<textVars, function, closing>>, at <= Limit,
         NEW keeps \in BOOLEAN, Passes(1, keeps),
         loop' \in {"top", "line", "block"} \cup Quotes,
         depth' \in Nat, loop' = "block" => depth' > 0,
         Covered => Suits(at, keeps) /\ Follows(loop', depth', at + 1)
  PROVE  ScanIInv'
  <1>1. at \in Nat /\ Limit \in Nat
    BY DEF ScanIInv, ScanOK, Limit, LexerOK
  <1>2. at + 1 <= Limit + 1 /\ \A p \in at..(at + 1 - 1) : p = at
    BY <1>1
  <1>3. Covered => \A p \in at..(at + 1 - 1) : Suits(p, keeps)
    BY <1>2
  <1> QED
    BY <1>2, <1>3, Iteration

LEMMA NoToken ==
  ASSUME ScanIInv, function \in Scanning, UNCHANGED <<textVars, function, closing, depth, kept>>,
         at' = at, loop' = "top", Covered => Follows("top", depth, at)
  PROVE  ScanIInv'
  <1>1. at \in Nat /\ Limit \in Nat /\ at <= Limit + 1 /\ depth \in Nat
    BY DEF ScanIInv, ScanOK, Limit, LexerOK
  <1>2. Passes(0, FALSE) /\ at + 0 = at /\ \A p \in at..(at + 0 - 1) : FALSE
    BY <1>1 DEF Passes
  <1> QED
    BY <1>1, <1>2, Iteration

LEMMA ReadInBody ==
  ASSUME LexerOK, NEW p \in 1..Len(text), InDollar(p)
  PROVE  /\ RoleAt(p) \in {"body", "quoted"}
         /\ text[p] = "$$" => RoleAt(p) = "quoted" /\ lexer[p + 1].outer.mode = "code"
  <1> DEFINE s == lexer[p].outer
  <1>1. s.mode = "dollar" /\ lexer[p + 1] = ReadOn(engine, lexer[p], text[p])
    BY DEF LexerOK, InDollar
  <1>2. lexer[p + 1].outer = Read(engine, s, text[p]) /\ RoleAt(p) = Role(engine, s, text[p])
    BY <1>1 DEF ReadOn, RoleAt
  <1>3. Role(engine, s, text[p]) = IF text[p] # "$$" THEN "body" ELSE "quoted"
    BY <1>1 DEF Role
  <1>4. text[p] = "$$" => Read(engine, s, text[p]).mode = "code"
    BY <1>1 DEF Read, Mode, Quotes
  <1> QED
    BY <1>2, <1>3, <1>4

(* The tokens that are no more to the server than they say.                 *)
IsWord(e, token) ==
  \/ token \in {"word", ";", "nl", "\\", "$"}
  \/ token = "*/" /\ e # "mysql"
  \/ token = "$$" /\ e # "postgres"

(* The lexer's rules, by its mode.                                          *)
InCode(e, token, t, role) ==
  /\ ~t.escaped
  /\ token = "--" \/ (token = "#" /\ e = "mysql") => t.mode = "line" /\ role = "comment"
  /\ token = "/*" => t.mode = "block" /\ t.depth = 1 /\ role = "comment"
  /\ token \in Quotes => t.mode = token /\ role = "quoted"
  /\ token = "$$" /\ e = "postgres" => t.mode = "dollar" /\ role = "quoted"
  /\ token = "/*!" \/ (token = "*/" /\ e = "mysql") => t.mode = "code" /\ role = "comment"
  /\ IsWord(e, token) =>
       t.mode = "code" /\ role \in {"code", "end"}

LEMMA ReadInCode ==
  ASSUME NEW e, NEW s, s.mode = "code", NEW token
  PROVE  InCode(e, token, Read(e, s, token), Role(e, s, token))
  <1> DEFINE t == Read(e, s, token)
             role == Role(e, s, token)
  <1>0. t.mode = Enter(e, token)
    BY DEF Read, Mode
  <1>1. ~t.escaped
    BY DEF Read
  <1>6. token = "/*" => t.depth = 1
    BY DEF Read, Depth, Mode, Enter, Quotes
  <1>2. role = CASE token \in {"--", "/*", "/*!"} \/ (token \in {"*/", "#"} /\ e = "mysql") -> "comment"
                 [] token \in Quotes \/ (token = "$$" /\ e = "postgres") -> "quoted"
                 [] token = ";" -> "end"
                 [] OTHER -> "code"
    BY DEF Role
  <1> HIDE DEF t, role
  <1>3. /\ token = "--" \/ (token = "#" /\ e = "mysql") => t.mode = "line" /\ role = "comment"
        /\ token = "/*" => t.mode = "block" /\ role = "comment"
    BY <1>0, <1>2 DEF Enter, Quotes
  <1>7. token \in Quotes => t.mode = token /\ role = "quoted"
    <2>1. token \in Quotes => Enter(e, token) = token
      BY DEF Enter, Quotes
    <2> QED
      BY <1>0, <1>2, <2>1 DEF Quotes
  <1>8. token = "$$" /\ e = "postgres" => t.mode = "dollar" /\ role = "quoted"
    BY <1>0, <1>2 DEF Enter, Quotes
  <1>4. token = "/*!" \/ (token = "*/" /\ e = "mysql") => t.mode = "code" /\ role = "comment"
    BY <1>0, <1>2 DEF Enter, Quotes
  <1>5. IsWord(e, token) => t.mode = "code" /\ role \in {"code", "end"}
    BY <1>0, <1>2 DEF Enter, Quotes, IsWord
  <1> QED
    BY <1>1, <1>3, <1>4, <1>5, <1>6, <1>7, <1>8 DEF InCode, t, role

LEMMA ReadInComment ==
  ASSUME NEW e, NEW s, s.mode \in {"line", "block"}, NEW token
  PROVE  Role(e, s, token) = "comment"
  BY DEF Role

LEMMA ReadInQuotes ==
  ASSUME NEW e, NEW s, s.mode \in Quotes, NEW token
  PROVE  LET t == Read(e, s, token) IN
         /\ Role(e, s, token) = "quoted"
         /\ t.mode = IF token = s.mode /\ ~s.escaped THEN "code" ELSE s.mode
         /\ t.escaped <=> e = "mysql" /\ s.mode \in {"'", "dq"} /\ token = "\\" /\ ~s.escaped
  BY DEF Read, Role, Mode, Quotes

(* What becomes of a token the loops read.                                  *)
LEMMA TokenRead ==
  ASSUME ScanIInv, Covered, function \in Scanning, NEW p \in at..Limit,
         Here(p).mode # "dollar"
  PROVE  /\ text[p] \in Tokens(engine)
         /\ Here(p + 1) = Read(engine, Here(p), text[p])
         /\ text[p] = "nl" \/ Role(engine, Here(p), text[p]) \in {"code", "end"} => Suits(p, TRUE)
         /\ Role(engine, Here(p), text[p]) = "comment" => Suits(p, FALSE)
         /\ Role(engine, Here(p), text[p]) = "quoted" => Suits(p, function = "StripComments")
  <1>1. LexerOK /\ ScanOK /\ InBodyOK
    BY DEF ScanIInv
  <1> QED
    BY <1>1, HereReads, HereSuits

LEMMA CodeRead ==
  ASSUME ScanIInv, Covered, function \in Scanning, NEW p \in at..Limit,
         Here(p).mode = "code",
         NEW t, t = Here(p + 1)
  PROVE  /\ text[p] \in Tokens(engine) /\ ~t.escaped
         /\ text[p] \in {"--", "--x", "#"} => t.mode = "line" /\ Suits(p, FALSE)
         /\ text[p] = "/*" => t.mode = "block" /\ t.depth = 1 /\ Suits(p, FALSE)
         /\ text[p] \in Quotes => t.mode = text[p] /\ Suits(p, function = "StripComments")
         /\ text[p] = "$$" /\ engine = "postgres" =>
              t.mode = "dollar" /\ Suits(p, function = "StripComments")
         /\ text[p] = "/*!" \/ (text[p] = "*/" /\ engine = "mysql") =>
              t.mode = "code" /\ Suits(p, FALSE)
         /\ IsWord(engine, text[p]) => t.mode = "code" /\ Suits(p, TRUE)
  <1> DEFINE s == Here(p)
             token == text[p]
             role == Role(engine, s, token)
  <1>1. /\ token \in Tokens(engine) /\ t = Read(engine, s, token)
        /\ role \in {"code", "end"} => Suits(p, TRUE)
        /\ role = "comment" => Suits(p, FALSE)
        /\ role = "quoted" => Suits(p, function = "StripComments")
    BY TokenRead
  <1>2. s.mode = "code"
    OBVIOUS
  <1>4. token # "--x" /\ (token = "#" => engine = "mysql")
    BY HereAlike DEF ScanIInv, Differs
  <1> HIDE DEF s, token
  <1>3. InCode(engine, token, t, role)
    BY <1>1, <1>2, ReadInCode
  <1> HIDE DEF role
  <1> QED
    BY <1>1, <1>3, <1>4 DEF token, InCode

LEMMA CommentRead ==
  ASSUME ScanIInv, Covered, function \in Scanning, NEW p \in at..Limit,
         Here(p).mode \in {"line", "block"}
  PROVE  /\ Suits(p, FALSE)
         /\ Here(p).mode = "line" => Here(p + 1).mode = IF text[p] = "nl" THEN "code" ELSE "line"
         /\ Here(p).mode = "block" /\ engine # "postgres" =>
              Here(p + 1).mode = IF text[p] = "*/" THEN "code" ELSE "block"
         /\ Here(p).mode = "block" /\ engine = "postgres" =>
              /\ Here(p + 1).mode =
                   IF text[p] = "*/" /\ Here(p).depth = 1 THEN "code" ELSE "block"
              /\ Here(p + 1).mode = "block" =>
                   Here(p + 1).depth = CASE text[p] = "/*" -> Here(p).depth + 1
                                         [] text[p] = "*/" -> Here(p).depth - 1
                                         [] OTHER -> Here(p).depth
  <1> DEFINE s == Here(p)
             t == Here(p + 1)
  <1>1. Role(engine, s, text[p]) = "comment"
    BY ReadInComment
  <1>2. t = Read(engine, s, text[p]) /\ Suits(p, FALSE)
    BY <1>1, TokenRead
  <1>3. t.mode = Mode(engine, s, text[p]) /\ t.depth = Depth(engine, s, text[p])
    BY <1>2 DEF Read
  <1>4. CASE s.mode = "line"
    BY <1>2, <1>3, <1>4 DEF Mode, Quotes
  <1>5. CASE s.mode = "block" /\ engine # "postgres"
    BY <1>2, <1>3, <1>5 DEF Mode, Quotes
  <1>6. CASE s.mode = "block" /\ engine = "postgres"
    BY <1>2, <1>3, <1>6 DEF Mode, Depth, Quotes
  <1> QED
    BY <1>4, <1>5, <1>6

LEMMA QuoteRead ==
  ASSUME ScanIInv, Covered, function \in Scanning, NEW p \in at..Limit,
         Here(p).mode \in Quotes,
         NEW s, s = Here(p), NEW t, t = Here(p + 1)
  PROVE  /\ Suits(p, function = "StripComments")
         /\ t.mode = IF text[p] = s.mode /\ ~s.escaped THEN "code" ELSE s.mode
         /\ t.escaped <=> s.mode = "'" /\ text[p] = "\\" /\ ~s.escaped
  <1>1. Role(engine, s, text[p]) = "quoted"
    BY ReadInQuotes
  <1>2. t = Read(engine, s, text[p]) /\ Suits(p, function = "StripComments")
    BY <1>1, TokenRead DEF Quotes
  <1>3. text[p] = "\\" => s.mode # IF engine = "mysql" THEN "dq" ELSE "'"
    BY HereAlike DEF ScanIInv, Differs
  <1> QED
    BY <1>2, <1>3, ReadInQuotes

LEMMA ScanComments ==
  ASSUME ScanIInv, UNCHANGED <<textVars, function>>,
         LineComment \/ LineRune \/ BlockComment \/ BlockRune \/ ExecutableComment
  PROVE  ScanIInv'
  <1> DEFINE s == Here(at)
             e == engine
             token == text[at]
  <1>1. /\ function \in Scanning
        /\ UNCHANGED <<textVars, function, closing>> /\ depth \in Nat
        /\ at \in Nat /\ (at <= Limit => at \in at..Limit)
    BY DEF LineComment, LineRune, BlockComment, BlockRune, ExecutableComment, At, In, Scanning,
           ScanIInv, ScanOK, Limit, LexerOK
  <1>2. Covered => InStep
    BY <1>1 DEF ScanIInv
  <1>3. CASE LineComment
    <2>1. /\ at <= Limit /\ loop = "top" /\ token \in {"--", "--x", "#"}
          /\ loop' = "line" /\ Passes(1, FALSE) /\ depth' = depth
      BY <1>3 DEF LineComment, At, In, Advance, Passes
    <2>2. Covered => s.mode = "code"
      BY <1>2, <2>1 DEF InStep, Follows
    <2>3. Covered => Suits(at, FALSE) /\ Here(at + 1).mode = "line"
      BY <1>1, <2>1, <2>2, CodeRead
    <2> QED
      BY <1>1, <2>1, <2>3, OneToken DEF Follows, Quotes
  <1>4. CASE BlockComment
    <2>1. /\ at <= Limit /\ loop = "top" /\ token = "/*"
          /\ loop' = "block" /\ Passes(1, FALSE) /\ depth' = 1
      BY <1>4 DEF BlockComment, At, In, Advance, Passes
    <2>2. Covered => s.mode = "code"
      BY <1>2, <2>1 DEF InStep, Follows
    <2>3. Covered => Suits(at, FALSE) /\ Here(at + 1).mode = "block" /\ Here(at + 1).depth = 1
      BY <1>1, <2>1, <2>2, CodeRead
    <2>4. loop' \in {"top", "line", "block"} \cup Quotes /\ depth' \in Nat /\ depth' > 0
      BY <2>1
    <2>5. Covered => Suits(at, FALSE) /\ Follows(loop', depth', at + 1)
      BY <2>1, <2>3 DEF Follows, Quotes
    <2> QED
      BY <1>1, <2>1, <2>4, <2>5, OneToken
  <1>5. CASE ExecutableComment
    <2>1. /\ at <= Limit /\ loop = "top" /\ (token = "/*!" \/ (token = "*/" /\ e = "mysql"))
          /\ loop' = "top" /\ Passes(1, FALSE) /\ depth' = depth
      BY <1>5 DEF ExecutableComment, At, In, Advance, Passes
    <2>2. Covered => s.mode = "code"
      BY <1>2, <2>1 DEF InStep, Follows
    <2>3. Covered => Suits(at, FALSE) /\ Here(at + 1).mode = "code"
      BY <1>1, <2>1, <2>2, CodeRead
    <2> QED
      BY <1>1, <2>1, <2>3, OneToken DEF Follows, Quotes
  <1>6. CASE LineRune /\ at <= Limit /\ token # "nl"
    <2>1. loop = "line" /\ loop' = "line" /\ Passes(1, FALSE) /\ depth' = depth
      BY <1>6 DEF LineRune, In, Advance, Passes
    <2>2. Covered => s.mode = "line"
      BY <1>2, <2>1 DEF InStep, Follows
    <2>3. Covered => Suits(at, FALSE) /\ Here(at + 1).mode = "line"
      BY <1>1, <1>6, <2>1, <2>2, CommentRead
    <2> QED
      BY <1>1, <1>6, <2>1, <2>3, OneToken DEF Follows, Quotes
  <1>7. CASE LineRune /\ ~(at <= Limit /\ token # "nl")
    <2>1. loop = "line" /\ loop' = "top" /\ at' = at + 0 /\ UNCHANGED <<depth, kept>>
      BY <1>7 DEF LineRune, In, Advance
    <2>2. Covered => s.mode = "line"
      BY <1>2, <2>1 DEF InStep, Follows
    <2>3. Covered => Follows("top", depth, at)
      BY <1>7, <2>2 DEF Follows, Quotes
    <2> QED
      BY <1>1, <2>1, <2>3, NoToken
  <1>8. CASE BlockRune
    <2>1. /\ at <= Limit /\ loop = "block" /\ Passes(1, FALSE)
          /\ depth' = CASE token = "*/" -> depth - 1
                        [] token = "/*" /\ e = "postgres" -> depth + 1
                        [] OTHER -> depth
          /\ loop' = IF depth' = 0 THEN "top" ELSE "block"
      BY <1>8 DEF BlockRune, In, Advance, Passes
    <2>2. depth > 0 /\ depth' \in Nat /\ (loop' = "block" => depth' > 0)
      BY <1>1, <2>1 DEF ScanIInv, ScanOK
    <2>3. Covered => s.mode = "block" /\ depth = IF e = "postgres" THEN s.depth ELSE 1
      BY <1>2, <2>1 DEF InStep, Follows
    <2>4. Covered => Suits(at, FALSE)
      BY <1>1, <2>1, <2>3, CommentRead
    <2>5. CASE e # "postgres"
      <3>1. Covered => Here(at + 1).mode = IF token = "*/" THEN "code" ELSE "block"
        BY <1>1, <2>1, <2>3, <2>5, CommentRead
      <3>2. Covered => Follows(loop', depth', at + 1)
        BY <2>1, <2>3, <2>5, <3>1 DEF Follows, Quotes
      <3> QED
        BY <1>1, <2>1, <2>2, <2>4, <3>2, OneToken
    <2>6. CASE e = "postgres"
      <3>1. Covered =>
              /\ Here(at + 1).mode = IF token = "*/" /\ s.depth = 1 THEN "code" ELSE "block"
              /\ Here(at + 1).mode = "block" =>
                   Here(at + 1).depth = CASE token = "/*" -> s.depth + 1
                                          [] token = "*/" -> s.depth - 1
                                          [] OTHER -> s.depth
        BY <1>1, <2>1, <2>3, <2>6, CommentRead
      <3>2. Covered => Follows(loop', depth', at + 1)
        BY <1>1, <2>1, <2>2, <2>3, <2>6, <3>1 DEF Follows, Quotes
      <3> QED
        BY <1>1, <2>1, <2>2, <2>4, <3>2, OneToken
    <2> QED
      BY <2>5, <2>6
  <1> QED
    BY <1>3, <1>4, <1>5, <1>6, <1>7, <1>8

LEMMA ScanQuotes ==
  ASSUME ScanIInv, UNCHANGED <<textVars, function>>, OpenQuote \/ QuoteRune
  PROVE  ScanIInv'
  <1> DEFINE s == Here(at)
             keeps == function = "StripComments"
  <1>1. /\ function \in Scanning /\ at <= Limit /\ at \in Nat /\ Limit \in Nat /\ at \in at..Limit
        /\ UNCHANGED <<textVars, function, closing>> /\ depth' = depth /\ depth \in Nat
    BY DEF OpenQuote, QuoteRune, At, In, Scanning, ScanIInv, ScanOK, Limit, LexerOK
  <1>2. Covered => InStep
    BY <1>1 DEF ScanIInv
  <1>3. CASE OpenQuote
    <2>1. loop = "top" /\ text[at] \in Quotes /\ loop' = text[at] /\ Passes(1, keeps)
      BY <1>3 DEF OpenQuote, At, In, Advance, Passes, KeepQuoted
    <2>2. Covered => s.mode = "code"
      BY <1>1, <1>2, <2>1 DEF InStep, Follows, Quotes
    <2>3. Covered => Suits(at, keeps) /\ Here(at + 1).mode = text[at] /\ ~Here(at + 1).escaped
      BY <1>1, <2>1, <2>2, CodeRead
    <2>4. Covered => Suits(at, keeps) /\ Follows(loop', depth', at + 1)
      BY <2>1, <2>3 DEF Follows, Quotes
    <2>5. loop' \in {"top", "line", "block"} \cup Quotes /\ loop' # "block" /\ keeps \in BOOLEAN
      BY <2>1 DEF Quotes
    <2> QED
      BY <1>1, <2>1, <2>4, <2>5, OneToken
  <1>4. CASE QuoteRune /\ ~Pair
    <2>1. /\ loop \in Quotes /\ Passes(1, keeps)
          /\ loop' = IF text[at] = loop THEN "top" ELSE loop
      BY <1>4 DEF QuoteRune, Advance, Passes, KeepQuoted
    <2>2. Covered => s.mode = loop /\ ~s.escaped
      BY <1>1, <1>2, <2>1 DEF InStep, Follows, Quotes
    <2>3. Covered => /\ Suits(at, keeps)
                     /\ Here(at + 1).mode = IF text[at] = loop THEN "code" ELSE loop
                     /\ Here(at + 1).escaped <=> loop = "'" /\ text[at] = "\\"
      BY <1>1, <2>1, <2>2, QuoteRead
    <2>4. ~(text[at] = "\\" /\ loop = "'") \/ at + 1 > Limit
      BY <1>1, <1>4 DEF Pair
    <2>5. Covered => Suits(at, keeps) /\ Follows(loop', depth', at + 1)
      <3>1. CASE text[at] = loop
        BY <2>1, <2>3, <3>1 DEF Follows, Quotes
      <3>2. CASE text[at] # loop
        <4>1. loop' = loop
          BY <2>1, <3>2
        <4>2. Covered => Here(at + 1).mode = loop' /\ (at + 1 <= Limit => ~Here(at + 1).escaped)
          BY <1>1, <2>3, <2>4, <3>2, <4>1
        <4> QED
          BY <2>1, <2>3, <4>1, <4>2 DEF Follows, Quotes
      <3> QED
        BY <3>1, <3>2
    <2>6. loop' \in {"top", "line", "block"} \cup Quotes /\ loop' # "block" /\ keeps \in BOOLEAN
      BY <2>1 DEF Quotes
    <2> QED
      BY <1>1, <2>1, <2>5, <2>6, OneToken
  <1>5. CASE QuoteRune /\ Pair
    <2>1. /\ loop \in Quotes /\ Passes(2, keeps) /\ loop' = loop /\ at < Limit
          /\ \/ text[at] = loop /\ text[at + 1] = loop
             \/ text[at] = "\\" /\ loop = "'"
      BY <1>5 DEF QuoteRune, Pair, Advance, Passes, KeepQuoted
    <2>2. Covered => s.mode = loop /\ ~s.escaped
      BY <1>1, <1>2, <2>1 DEF InStep, Follows, Quotes
    <2>3. at + 1 \in at..Limit /\ (at + 1) + 1 = at + 2 /\ \A p \in at..(at + 2 - 1) : p \in {at, at + 1}
      BY <1>1, <2>1
    <2>4. Covered => /\ Suits(at, keeps)
                     /\ Here(at + 1).mode = IF text[at] = loop THEN "code" ELSE loop
                     /\ Here(at + 1).escaped <=> loop = "'" /\ text[at] = "\\"
      BY <1>1, <2>1, <2>2, QuoteRead
    <2>5. Covered => Suits(at + 1, keeps) /\ Here(at + 2).mode = loop /\ ~Here(at + 2).escaped
      <3>1. CASE text[at] = loop /\ text[at + 1] = loop
        BY <1>1, <2>1, <2>3, <2>4, <3>1, CodeRead
      <3>2. CASE text[at] = "\\" /\ loop = "'"
        BY <1>1, <2>1, <2>3, <2>4, <3>2, QuoteRead DEF Quotes
      <3> QED
        BY <2>1, <3>1, <3>2
    <2>6. /\ Covered => \A p \in at..(at + 2 - 1) : Suits(p, keeps)
          /\ Covered => Follows(loop', depth', at + 2)
      BY <2>1, <2>3, <2>4, <2>5 DEF Follows, Quotes
    <2>7. /\ loop' \in {"top", "line", "block"} \cup Quotes /\ loop' # "block" /\ keeps \in BOOLEAN
          /\ at + 2 <= Limit + 1
      BY <1>1, <2>1 DEF Quotes
    <2> QED
      BY <1>1, <2>1, <2>6, <2>7, Iteration
  <1> QED
    BY <1>3, <1>4, <1>5

LEMMA ScanTokens ==
  ASSUME ScanIInv, UNCHANGED <<textVars, function>>, Unclosed \/ Token
  PROVE  ScanIInv'
  <1> DEFINE s == Here(at)
  <1>1. /\ function \in Scanning /\ at \in Nat /\ Limit \in Nat /\ at <= Limit + 1
        /\ UNCHANGED <<textVars, function, closing>> /\ depth' = depth /\ depth \in Nat
        /\ Len(text) \in Nat /\ closing \in 0..Len(text)
    <2>1. Len(text) \in Nat /\ closing \in 0..Len(text) /\ at \in 1..(Limit + 1) /\ depth \in Nat
      BY DEF ScanIInv, ScanOK, LexerOK
    <2>2. function \in Scanning /\ closing' = closing /\ depth' = depth
      BY DEF Unclosed, Token, At, In, Scanning
    <2> QED
      BY <2>1, <2>2 DEF Limit
  <1>2. Covered => InStep
    BY <1>1 DEF ScanIInv
  <1>3. CASE Unclosed
    <2>1. /\ loop \in {"block"} \cup Quotes /\ at > Limit /\ at' = at + 0 /\ loop' = "top"
          /\ UNCHANGED <<depth, kept>>
      BY <1>3 DEF Unclosed, Advance
    <2>2. Covered => ~Ends(s)
      BY <1>2, <2>1 DEF InStep, Follows, Ends, Quotes
    <2>3. CASE closing = 0
      <3>1. at = Len(text) + 1
        BY <1>1, <2>1, <2>3 DEF Limit
      <3>2. ~Covered
        BY <2>2, <2>3, <3>1 DEF Covered, WellFormed, Here
      <3> QED
        BY <1>1, <2>1, <3>2, NoToken
    <2>4. CASE closing # 0
      <3>1. at = closing /\ closing \in 1..Len(text) /\ closing \in at..closing
        BY <1>1, <2>1, <2>4 DEF Limit
      <3>2. Covered => lexer[closing].outer.mode = "dollar" /\ text[closing] = "$$"
        BY <2>4, <3>1 DEF ScanIInv, InBodyOK, InDollar
      <3>3. ~Covered
        BY <2>2, <2>4, <3>1, <3>2 DEF Covered, WellFormed, Here
      <3> QED
        BY <1>1, <2>1, <3>3, NoToken
    <2> QED
      BY <2>3, <2>4
  <1>4. CASE Token
    <2>1. /\ at <= Limit /\ at \in at..Limit /\ loop = "top" /\ loop' = "top" /\ Passes(1, TRUE)
          /\ IsWord(engine, text[at]) \/ (text[at] = "$$" /\ engine = "postgres" /\ Tags = {})
      <3>1. /\ at <= Limit /\ loop = "top" /\ loop' = "top" /\ Passes(1, TRUE)
            /\ IsWord(engine, text[at]) \/ (text[at] = "$$" /\ engine = "postgres" /\ Tags = {})
        <4> DEFINE W == {"word", ";", "nl", "\\", "$"} \cup (IF engine = "mysql" THEN {} ELSE {"*/"})
                                                       \cup (IF LoneTag THEN {"$$"} ELSE {})
        <4>1. At(W)
          BY <1>4 DEF Token
        <4>2. loop' = "top" /\ Passes(1, TRUE)
          BY <1>4 DEF Token, Advance, Passes
        <4> HIDE DEF W
        <4>3. at <= Limit /\ loop = "top" /\ text[at] \in W
          BY <4>1 DEF At, In
        <4>4. \/ text[at] \in {"word", ";", "nl", "\\", "$"}
              \/ text[at] = "*/" /\ engine # "mysql"
              \/ text[at] = "$$" /\ LoneTag
          BY <4>3, Zenon DEF W
        <4> QED
          BY <4>2, <4>3, <4>4 DEF IsWord, LoneTag
      <3>2. at <= Limit
        BY <3>1
      <3>3. at \in at..Limit
        BY <1>1, <3>2
      <3> QED
        BY <3>1, <3>3
    <2>2. Covered => s.mode = "code" \/ (s.mode = "line" /\ text[at] = "nl")
      BY <1>2, <2>1 DEF InStep, Follows
    <2>3. Covered => Suits(at, TRUE) /\ Here(at + 1).mode = "code"
      <3>1. CASE text[at] = "$$" /\ engine = "postgres" /\ Tags = {} /\ Covered
        <4>1. closing = 0
          <5>1. closing # 0 => at \in at..(closing - 1)
            BY <1>1, <2>1 DEF Limit
          <5> QED
            BY <3>1, <5>1 DEF ScanIInv, InBodyOK
        <4>2. at \in 1..Len(text) /\ at + 1 \in 1..(Len(text) + 1)
          <5>1. at \in 1..(Limit + 1)
            BY DEF ScanIInv, ScanOK
          <5>2. Limit = Len(text) /\ at <= Limit /\ Len(text) \in Nat /\ at \in Nat
            BY <1>1, <2>1, <4>1 DEF Limit
          <5> QED
            BY <5>1, <5>2
        <4>4. InDollar(at + 1)
          BY <1>1, <2>1, <2>2, <3>1, <4>1, CodeRead DEF Here, InDollar
        <4>5. \A q \in (at + 1)..(Len(text) + 1 - 1) : text[q] # "$$"
          BY <1>1, <3>1, <4>1 DEF Tags, Limit
        <4>6. InDollar(Len(text) + 1)
          BY <1>1, <4>2, <4>4, <4>5 DEF ScanIInv, Bodies
        <4> QED
          BY <3>1, <4>6 DEF Covered, WellFormed, Ends, InDollar
      <3>2. CASE IsWord(engine, text[at]) /\ Covered /\ s.mode = "code"
        BY <1>1, <2>1, <3>2, CodeRead
      <3>3. CASE text[at] = "nl" /\ Covered /\ s.mode = "line"
        <4>1. Suits(at, TRUE)
          BY <1>1, <2>1, <3>3, TokenRead
        <4>2. Here(at + 1).mode = "code"
          BY <1>1, <2>1, <3>3, CommentRead
        <4> QED
          BY <4>1, <4>2
      <3> QED
        BY <2>1, <2>2, <3>1, <3>2, <3>3
    <2>4. Covered => Suits(at, TRUE) /\ Follows(loop', depth', at + 1)
      BY <2>1, <2>3 DEF Follows, Quotes
    <2> QED
      BY <1>1, <2>1, <2>4, OneToken
  <1> QED
    BY <1>3, <1>4

LEMMA ScanBodies ==
  ASSUME ScanIInv, UNCHANGED <<textVars, function>>, DollarBody \/ BodyEnds
  PROVE  ScanIInv'
  <1> DEFINE N == Len(text)
  <1>1. /\ function \in Scanning /\ at \in Nat \ {0} /\ N \in Nat /\ closing \in 0..N
        /\ at <= Limit + 1 /\ loop = "top" /\ loop' = "top" /\ depth' = depth /\ depth \in Nat
    <2>1. N \in Nat /\ closing \in 0..N /\ at \in 1..(Limit + 1) /\ depth \in Nat
      BY DEF ScanIInv, ScanOK, LexerOK
    <2>2. function \in Scanning /\ loop = "top" /\ loop' = "top" /\ depth' = depth
      BY DEF DollarBody, BodyEnds, At, In, Scanning, Advance
    <2> QED
      BY <2>1, <2>2 DEF Limit
  <1>2. /\ text' = text /\ lexer' = lexer /\ engine' = engine /\ function' = function
        /\ LexerOK' /\ Bodies' /\ Covered' = Covered
    <2>1. text' = text /\ lexer' = lexer /\ engine' = engine /\ function' = function
      BY DEF textVars
    <2> QED
      BY <2>1, TextKept DEF ScanIInv
  <1>3. CASE BodyEnds
    <2>1. closing # 0 /\ at = closing /\ at' = at + 1 /\ closing' = 0 /\ kept' = kept
      BY <1>1, <1>3 DEF BodyEnds, Limit
    <2>2. /\ text[at] = "$$" /\ function = "sqlForPolicyMatching" /\ at \in 1..N /\ at \in at..closing
          /\ Covered => InDollar(at)
      BY <1>1, <2>1 DEF ScanIInv, InBodyOK
    <2>3. Covered => RoleAt(at) = "quoted" /\ lexer[at + 1].outer.mode = "code"
      <3>1. LexerOK
        BY DEF ScanIInv
      <3> QED
        BY <2>2, <3>1, ReadInBody
    <2>4. Covered => Suits(at, FALSE)
      <3>1. Covered => at \notin Executed
        BY <2>3 DEF Executed
      <3> QED
        BY <2>2, <3>1 DEF Suits
    <2>5. Passes(1, FALSE) /\ (Covered => \A p \in at..(at + 1 - 1) : Suits(p, FALSE))
      <3>1. \A p \in at..(at + 1 - 1) : p = at
        BY <1>1
      <3> QED
        BY <2>1, <2>4, <3>1 DEF Passes
    <2>6. Sorted(kept, at)' /\ (Covered => KeepsCode')
      BY <1>1, <2>5, Pass DEF ScanIInv
    <2>7. ScanOK'
      BY <1>1, <1>2, <2>1, <2>2 DEF ScanIInv, ScanOK, Limit, Scanning, Stripped, Matching, Quotes
    <2>8. Covered => InStep'
      BY <1>1, <1>2, <2>1, <2>3 DEF InStep, Follows, Here, Quotes
    <2>9. InBodyOK'
      BY <2>1 DEF InBodyOK
    <2> QED
      BY <1>2, <2>6, <2>7, <2>8, <2>9 DEF ScanIInv
  <1>4. CASE DollarBody
    <2>1. at <= Limit /\ text[at] = "$$" /\ at \in at..Limit
      BY <1>1, <1>4 DEF DollarBody, At, Limit
    <2>2. PICK p \in Tags :
            /\ \A q \in Tags : p <= q
            /\ \/ function = "StripComments" /\ engine = "postgres"
                  /\ Keep(p - at + 1) /\ Advance(p - at + 1, "top") /\ UNCHANGED closing
               \/ function = "sqlForPolicyMatching"
                  /\ closing' = p /\ Advance(1, "top") /\ UNCHANGED kept
      BY <1>4 DEF DollarBody
    <2>3. closing = 0 /\ Limit = N /\ at \in 1..N
      <3>1. closing # 0 => at \in at..(closing - 1)
        BY <1>1, <2>1 DEF Limit
      <3>2. closing = 0
        BY <2>1, <3>1 DEF ScanIInv, InBodyOK
      <3>3. Limit = N /\ at \in 1..N
        BY <1>1, <2>1, <3>2 DEF Limit
      <3> QED
        BY <3>2, <3>3
    <2>4. /\ p \in (at + 1)..N /\ text[p] = "$$"
          /\ \A q \in (at + 1)..(p - 1) : text[q] # "$$"
      BY <1>1, <2>2, <2>3 DEF Tags
    <2>5. Covered => Here(at).mode = "code"
      BY <1>1, <2>1 DEF ScanIInv, InStep, Follows
    <2>10. Covered => engine = "postgres"
      <3>1. CASE function = "StripComments"
        BY <2>2, <3>1
      <3>2. CASE function = "sqlForPolicyMatching" /\ engine # "postgres" /\ Covered
        <4>1. RoleAt(at) = "code"
          BY <2>1, <2>3, <2>5, <3>2 DEF RoleAt, Role, Here, Quotes
        <4>2. TagsAreWords
          BY <2>1, <2>3, <2>4, <4>1 DEF TagsAreWords
        <4> QED
          BY <3>2, <4>2 DEF Covered, Matching
      <3> QED
        BY <1>1, <3>1, <3>2 DEF Scanning
    <2>6. Covered => InDollar(at + 1) /\ Suits(at, function = "StripComments")
      BY <1>1, <2>1, <2>3, <2>5, <2>10, CodeRead DEF Here, InDollar
    <2>7. Covered => \A q \in (at + 1)..p : InDollar(q)
      <3>1. \A q \in (at + 1)..p : /\ q \in 1..(N + 1) /\ at + 1 \in 1..(N + 1) /\ at + 1 <= q
                                   /\ \A r \in (at + 1)..(q - 1) : text[r] # "$$"
        BY <1>1, <2>4
      <3> QED
        BY <2>6, <3>1 DEF ScanIInv, Bodies
    <2>8. CASE function = "StripComments"
      <3>1. Passes(p - at + 1, TRUE) /\ UNCHANGED <<textVars, function, closing>>
        BY <2>2, <2>8 DEF Passes, Advance
      <3>2. p - at + 1 \in Nat /\ at + (p - at + 1) = p + 1 /\ p + 1 <= Limit + 1
        BY <1>1, <2>3, <2>4
      <3>3. Covered => \A q \in (at + 1)..p : Suits(q, TRUE)
        <4>1. LexerOK /\ \A q \in (at + 1)..p : q \in 1..N
          BY <1>1, <2>4 DEF ScanIInv
        <4>2. Covered => \A q \in (at + 1)..p : RoleAt(q) \in {"body", "quoted"}
          BY <2>7, <4>1, ReadInBody
        <4>3. ASSUME Covered, NEW q \in (at + 1)..p  PROVE Suits(q, TRUE)
          <5>1. RoleAt(q) \in {"body", "quoted"}
            BY <4>2, <4>3
          <5> QED
            BY <2>8, <5>1 DEF Suits
        <4> QED
          BY <4>3
      <3>4. Covered => \A q \in at..(at + (p - at + 1) - 1) : Suits(q, TRUE)
        <4>1. \A q \in at..(at + (p - at + 1) - 1) : q = at \/ q \in (at + 1)..p
          BY <1>1, <2>4
        <4>2. Covered => Suits(at, TRUE)
          BY <2>6, <2>8 DEF Suits
        <4> QED
          BY <3>3, <4>1, <4>2
      <3>7. LexerOK
        BY DEF ScanIInv
      <3>5. Covered => lexer[p + 1].outer.mode = "code"
        <4>1. p \in 1..N /\ p \in (at + 1)..p
          BY <1>1, <2>4
        <4> QED
          BY <2>4, <2>7, <3>7, <4>1, ReadInBody
      <3>6. Covered => Follows(loop', depth', at + (p - at + 1))
        BY <1>1, <2>3, <3>2, <3>5 DEF Follows, Here, Quotes
      <3> QED
        BY <1>1, <3>1, <3>2, <3>4, <3>6, Iteration
    <2>9. CASE function = "sqlForPolicyMatching"
      <3>1. Passes(1, FALSE) /\ at' = at + 1 /\ closing' = p
        BY <2>2, <2>9 DEF Passes, Advance
      <3>2. Covered => \A q \in at..(at + 1 - 1) : Suits(q, FALSE)
        <4>1. \A q \in at..(at + 1 - 1) : q = at
          BY <1>1
        <4>2. Covered => Suits(at, FALSE)
          BY <2>6, <2>9 DEF Suits
        <4> QED
          BY <4>1, <4>2
      <3>3. Sorted(kept, at)' /\ (Covered => KeepsCode')
        BY <1>1, <3>1, <3>2, Pass DEF ScanIInv
      <3>4. ScanOK'
        BY <1>1, <1>2, <2>4, <2>9, <3>1 DEF ScanIInv, ScanOK, Limit, Scanning, Stripped, Matching, Quotes
      <3>5. InBodyOK'
        <4>1. Covered' => \A q \in (at + 1)..p : InDollar(q)'
          BY <1>2, <2>7 DEF InDollar
        <4>2. function' = "sqlForPolicyMatching" /\ text'[p] = "$$"
          BY <1>2, <2>4, <2>9
        <4>3. \A q \in (at + 1)..(p - 1) : text'[q] # "$$"
          BY <1>2, <2>4
        <4> QED
          BY <3>1, <4>1, <4>2, <4>3, Zenon DEF InBodyOK
      <3>6. Covered => lexer[at + 1].inner = AtCode
        <4>1. Covered => lexer[at].outer.mode # "dollar"
          BY <2>3, <2>5 DEF Here
        <4>2. lexer[at + 1] = ReadOn(engine, lexer[at], text[at])
          BY <2>3 DEF ScanIInv, LexerOK
        <4> QED
          BY <4>1, <4>2 DEF ReadOn
      <3>7. Covered => InStep'
        BY <1>1, <1>2, <2>4, <3>1, <3>6, AtCodeType DEF InStep, Follows, Here, Quotes
      <3> QED
        BY <1>2, <3>3, <3>4, <3>5, <3>7 DEF ScanIInv
    <2> QED
      BY <2>2, <2>8, <2>9
  <1> QED
    BY <1>3, <1>4

-----------------------------------------------------------------------------
LEMMA ScanInit ==
  ASSUME SqlInit
  PROVE  ScanIInv
  <1>1. /\ engine \in {"postgres", "mysql", "sqlite"} /\ text = <<>>
        /\ lexer = <<[outer |-> AtCode, inner |-> AtCode]>>
        /\ function = "none" /\ at = 1 /\ loop = "top" /\ depth = 0 /\ closing = 0 /\ kept = <<>>
    BY DEF SqlInit
  <1>2. Len(text) = 0 /\ Len(lexer) = 1 /\ lexer[1] = [outer |-> AtCode, inner |-> AtCode]
    BY <1>1
  <1>3. lexer \in Seq([outer : LexState, inner : LexState]) /\ text \in Seq(Tokens(engine))
    BY <1>1, AtCodeType
  <1>4. lexer[1].outer.mode = "code" /\ ~lexer[1].outer.escaped
    BY <1>2, AtCodeType
  <1>5. LexerOK
    BY <1>1, <1>2, <1>3, <1>4 DEF LexerOK
  <1>6. Bodies
    BY <1>2, <1>4 DEF Bodies, InDollar
  <1>7. ScanOK /\ InBodyOK
    BY <1>1, <1>2 DEF ScanOK, InBodyOK, Limit, Scanning, Stripped, Matching
  <1>8. Sorted(kept, at) /\ KeepsCode /\ function \notin Scanning
    BY <1>1 DEF Sorted, KeepsCode, Scanning
  <1> QED
    BY <1>5, <1>6, <1>7, <1>8 DEF ScanIInv

LEMMA ScanNext ==
  ASSUME ScanIInv, [SqlNext]_sqlVars
  PROVE  ScanIInv'
  <1>1. ASSUME NEW token \in Tokens(engine), Write(token)  PROVE ScanIInv'
    <2>1. /\ function = "none" /\ text' = Append(text, token) /\ engine' = engine
          /\ UNCHANGED <<function, scanVars>>
      BY <1>1 DEF Write
    <2>2. LexerOK' /\ Bodies'
      BY <1>1, WriteLexer DEF ScanIInv
    <2>3. /\ at = 1 /\ loop = "top" /\ closing = 0 /\ kept = <<>> /\ depth \in Nat
      BY <2>1 DEF ScanIInv, ScanOK, Scanning
    <2>4. at' = 1 /\ loop' = "top" /\ closing' = 0 /\ kept' = <<>> /\ depth' \in Nat /\ function' = "none"
      BY <2>1, <2>3 DEF scanVars
    <2>5. Len(text') \in Nat
      BY <2>2 DEF LexerOK
    <2>6. ScanOK' /\ InBodyOK'
      BY <2>4, <2>5 DEF ScanOK, InBodyOK, Limit, Scanning, Stripped, Matching
    <2>7. Sorted(kept, at)' /\ KeepsCode' /\ function' \notin Scanning
      BY <2>4 DEF Sorted, KeepsCode, Scanning
    <2> QED
      BY <2>2, <2>6, <2>7 DEF ScanIInv
  <1>2. ASSUME UNCHANGED textVars
        PROVE  /\ LexerOK' /\ Bodies'
               /\ (function' \in Matching <=> function \in Matching) => (Covered' = Covered)
               /\ text' = text /\ lexer' = lexer /\ engine' = engine
    BY <1>2, TextKept DEF ScanIInv, textVars
  <1>3. CASE Call
    <2>1. /\ UNCHANGED textVars /\ function = "none" /\ function' \in Scanning
          /\ at' = at /\ loop' = loop /\ depth' = depth /\ closing' = closing /\ kept' = kept
      BY <1>3 DEF Call, scanVars, Scanning
    <2>2. at = 1 /\ loop = "top" /\ closing = 0 /\ kept = <<>> /\ depth \in Nat /\ Len(text) \in Nat
      BY <2>1 DEF ScanIInv, ScanOK, LexerOK
    <2>3. ScanOK' /\ InBodyOK'
      BY <1>2, <2>1, <2>2 DEF ScanOK, InBodyOK, Limit, Scanning, Stripped, Matching
    <2>4. Sorted(kept, at)' /\ KeepsCode'
      BY <2>1, <2>2 DEF Sorted, KeepsCode
    <2>5. lexer[1].outer.mode = "code"
      BY AtCodeType DEF ScanIInv, LexerOK
    <2>6. InStep'
      BY <1>2, <2>1, <2>2, <2>5 DEF InStep, Follows, Here, Quotes
    <2> QED
      BY <1>2, <2>1, <2>3, <2>4, <2>6 DEF ScanIInv
  <1>4. CASE Scan
    <2>1. UNCHANGED <<textVars, function>>
      BY <1>4 DEF Scan
    <2> QED
      BY <1>4, <2>1, ScanComments, ScanQuotes, ScanTokens, ScanBodies DEF Scan
  <1>5. CASE Scanned \/ Split \/ Splits \/ UNCHANGED sqlVars
    <2>1. /\ UNCHANGED textVars
          /\ at' = at /\ loop' = loop /\ depth' = depth /\ closing' = closing /\ kept' = kept
      BY <1>5 DEF Scanned, Split, Splits, scanVars, sqlVars
    <2>2. /\ LexerOK' /\ Bodies'
          /\ (function' \in Matching <=> function \in Matching) => (Covered' = Covered)
          /\ text' = text /\ lexer' = lexer /\ engine' = engine
      BY <1>2, <2>1
    <2>3. \/ function' = function
          \/ /\ Scanned /\ closing = 0 /\ at = Len(text) + 1
             /\ \/ function = "StripComments" /\ function' = "SplitStatements"
                \/ function = "sqlForPolicyMatching" /\ function' = "matched"
          \/ function = "SplitStatements" /\ function' = "split"
      <3>1. CASE Scanned
        <4>1. closing = 0 /\ at > Limit /\ at \in 1..(Limit + 1) /\ Len(text) \in Nat
          BY <3>1 DEF Scanned, ScanIInv, ScanOK, LexerOK
        <4>2. at = Len(text) + 1
          BY <4>1 DEF Limit
        <4> QED
          BY <3>1, <4>1, <4>2 DEF Scanned, In, Scanning
      <3>2. CASE Split \/ UNCHANGED sqlVars
        BY <3>2 DEF Split, sqlVars, textVars
      <3>3. CASE Splits
        BY <3>3 DEF Splits
      <3> QED
        BY <1>5, <3>1, <3>2, <3>3
    <2>11. Covered' = Covered
      BY <2>2, <2>3 DEF Matching
    <2>4. Limit' = Limit
      BY <2>1, <2>2 DEF Limit
    <2>5. ScanOK'
      BY <2>1, <2>2, <2>3, <2>4 DEF ScanIInv, ScanOK, Scanning, Stripped, Matching
    <2>6. InBodyOK'
      <3>1. closing # 0 => function' = function
        BY <2>3 DEF ScanIInv, InBodyOK
      <3> QED
        BY <2>1, <2>2, <2>11, <3>1 DEF ScanIInv, InBodyOK, InDollar
    <2>7. Sorted(kept, at)'
      BY <2>1 DEF ScanIInv, Sorted
    <2>8. /\ function' \in Stripped <=> function \in Stripped
          /\ function' \in Matching <=> function \in Matching
          /\ function' \in Scanning => function' = function
      BY <2>3 DEF Scanning, Stripped, Matching
    <2>9. Covered => KeepsCode'
      <3>1. /\ \A p : RoleAt(p)' = RoleAt(p) /\ Has(kept', p) = Has(kept, p)
            /\ Executed' = Executed
        BY <2>1, <2>2 DEF RoleAt, RoleInBody, Executed
      <3> QED
        BY <2>1, <2>2, <2>8, <3>1 DEF ScanIInv, KeepsCode
    <2>10. Covered /\ function' \in Scanning => InStep'
      BY <2>1, <2>2, <2>4, <2>8 DEF ScanIInv, InStep, Follows, Here
    <2> QED
      BY <2>2, <2>5, <2>6, <2>7, <2>9, <2>10, <2>11 DEF ScanIInv
  <1> QED
    BY <1>1, <1>3, <1>4, <1>5 DEF SqlNext

(* The always-critical patterns (policy.go:149) are looked for in all that  *)
(* the server would execute, in its order, and in nothing else, whatever    *)
(* the text and its length.  Excepted are the texts with what the dialect   *)
(* reads in another way (ReadsAlike), and those of MySQL and SQLite with    *)
(* two dollar tags, of which the first is in the code.                      *)
THEOREM PolicySeesAllCode == SqlSpec => []PolicySeesCode
  <1>1. ScanIInv => PolicySeesCode
    <2>1. SUFFICES ASSUME ScanIInv, function = "matched", WellFormed, ReadsAlike, ~TagsAreWords
                   PROVE  /\ {kept[k] : k \in {k \in DOMAIN kept : text[kept[k]] # "nl"}} = Executed
                          /\ \A k \in 1..(Len(kept) - 1) : kept[k] < kept[k + 1]
      BY DEF PolicySeesCode
    <2>2. /\ at = Len(text) + 1 /\ Len(text) \in Nat
          /\ kept \in Seq(Nat) /\ DOMAIN kept = 1..Len(kept)
          /\ \A k \in 1..Len(kept) : kept[k] \in 1..Len(text)
          /\ \A k \in 1..Len(kept), l \in 1..Len(kept) : k < l => kept[k] < kept[l]
      <3>1. at = Len(text) + 1 /\ Len(text) \in Nat
        BY <2>1 DEF ScanIInv, ScanOK, LexerOK, Scanning
      <3>2. Sorted(kept, at)
        BY <2>1 DEF ScanIInv
      <3> QED
        BY <3>1, <3>2 DEF Sorted
    <2>3. \A p \in 1..Len(text) : text[p] # "nl" => (Has(kept, p) <=> p \in Executed)
      BY <2>1, <2>2 DEF ScanIInv, KeepsCode, Matching, Covered
    <2>4. \A p \in Executed : p \in 1..Len(text) /\ text[p] # "nl"
      BY DEF Executed
    <2>5. ASSUME NEW k \in 1..Len(kept), text[kept[k]] # "nl"  PROVE kept[k] \in Executed
      BY <2>2, <2>3, <2>5 DEF Has
    <2>6. ASSUME NEW p \in Executed
          PROVE  \E k \in 1..Len(kept) : text[kept[k]] # "nl" /\ kept[k] = p
      BY <2>3, <2>4, <2>6 DEF Has
    <2>7. {kept[k] : k \in {k \in DOMAIN kept : text[kept[k]] # "nl"}} = Executed
      BY <2>2, <2>5, <2>6
    <2>8. \A k \in 1..(Len(kept) - 1) : kept[k] < kept[k + 1]
      BY <2>2
    <2> QED
      BY <2>7, <2>8
  <1> QED
    BY <1>1, ScanInit, ScanNext, PTL DEF SqlSpec

-----------------------------------------------------------------------------
(* Splitting.  What is not kept is comments, which quotes neither begin nor *)
(* end in.                                                                  *)
Calm(p) == lexer[p].outer.mode \notin Quotes

LEMMA CommentCalm ==
  ASSUME LexerOK, NEW p \in 1..Len(text), RoleAt(p) = "comment"
  PROVE  Calm(p) /\ Calm(p + 1)
  <1> DEFINE s == lexer[p].outer
             token == text[p]
             t == Read(engine, s, token)
  <1>1. s \in LexState /\ lexer[p + 1].outer = t
    <2> DEFINE P == [outer : LexState, inner : LexState]
    <2>1. lexer \in Seq(P) /\ Len(lexer) = Len(text) + 1 /\ Len(text) \in Nat
      BY DEF LexerOK
    <2> HIDE DEF P
    <2>2. lexer[p] \in P
      BY <2>1
    <2>3. s \in LexState
      BY <2>2 DEF P
    <2>4. lexer[p + 1] = ReadOn(engine, lexer[p], text[p])
      BY DEF LexerOK
    <2> QED
      BY <2>3, <2>4 DEF ReadOn
  <1>2. Role(engine, s, token) = "comment" /\ t.mode = Mode(engine, s, token)
    BY DEF RoleAt, Read
  <1> HIDE DEF s, token, t
  <1>3. s.mode \in {"line", "block"} \/ (s.mode = "code" /\ token \notin Quotes)
    BY <1>1, <1>2 DEF Role, LexState, Quotes
  <1>4. s.mode \notin Quotes /\ Mode(engine, s, token) \notin Quotes
    BY <1>3 DEF Mode, Enter, Quotes
  <1> QED
    BY <1>1, <1>2, <1>4 DEF Calm, s

(* From a place to the next one that is kept there are comments only.       *)
LEMMA Comments ==
  ASSUME ScanIInv, Covered, function \in Stripped, at = Len(text) + 1,
         NEW from \in 1..(Len(text) + 1), NEW next \in from..(Len(text) + 1),
         \A p \in from..(next - 1) : ~Has(kept, p)
  PROVE  /\ \A p \in from..(next - 1) : RoleAt(p) = "comment"
         /\ next # from => Calm(from) /\ Calm(next)
         /\ Part(next) = Part(from) /\ EndsBefore(next) = EndsBefore(from)
  <1>1. at = Len(text) + 1 /\ Len(text) \in Nat /\ LexerOK
    BY DEF ScanIInv, LexerOK
  <1>2. \A p \in from..(next - 1) : RoleAt(p) = "comment" /\ p \in 1..Len(text)
    BY <1>1 DEF ScanIInv, KeepsCode
  <1>3. ASSUME next # from  PROVE Calm(from) /\ Calm(next)
    <2>1. from \in from..(next - 1) /\ next - 1 \in from..(next - 1) /\ next = (next - 1) + 1
      BY <1>1, <1>3
    <2> QED
      BY <1>1, <1>2, <2>1, CommentCalm
  <1>4. EndsBefore(next) = EndsBefore(from)
    BY <1>1, <1>2 DEF EndsBefore
  <1>5. ASSUME NEW p  PROVE p \in Part(next) <=> p \in Part(from)
    <2>1. ASSUME p \in Part(next)  PROVE p \in Part(from)
      BY <1>1, <1>2, <2>1 DEF Part
    <2>2. ASSUME p \in Part(from)  PROVE p \in Part(next)
      <3>1. /\ p \in 1..(from - 1) /\ text[p] # "nl" /\ RoleAt(p) \notin {"comment", "end"}
            /\ \A q \in (p + 1)..(from - 1) : RoleAt(q) # "end"
        BY <2>2 DEF Part
      <3>2. \A q \in (p + 1)..(next - 1) : q \in (p + 1)..(from - 1) \/ q \in from..(next - 1)
        BY <1>1, <3>1
      <3> QED
        BY <1>1, <1>2, <3>1, <3>2 DEF Part
    <2> QED
      BY <2>1, <2>2
  <1> QED
    BY <1>2, <1>3, <1>4, <1>5

(* The statement that a place belongs to.                                   *)
LEMMA PartEnds ==
  ASSUME Len(text) \in Nat, NEW p \in 1..Len(text)
  PROVE  /\ RoleAt(p) = "end" =>
              Part(p + 1) = {} /\ EndsBefore(p + 1) = EndsBefore(p) \cup {p}
         /\ RoleAt(p) # "end" =>
              /\ Part(p + 1) = Part(p) \cup {q \in {p} : text[q] # "nl" /\ RoleAt(q) # "comment"}
              /\ EndsBefore(p + 1) = EndsBefore(p)
  <1>1. ASSUME RoleAt(p) = "end"
        PROVE  Part(p + 1) = {} /\ EndsBefore(p + 1) = EndsBefore(p) \cup {p}
    <2>1. ASSUME NEW q \in Part(p + 1)  PROVE FALSE
      <3>1. /\ q \in 1..p /\ RoleAt(q) # "end"
            /\ \A r \in (q + 1)..p : RoleAt(r) # "end"
        BY <2>1 DEF Part
      <3>2. q = p \/ p \in (q + 1)..p
        BY <3>1
      <3> QED
        BY <1>1, <3>1, <3>2
    <2> QED
      BY <1>1, <2>1 DEF EndsBefore
  <1>2. ASSUME RoleAt(p) # "end"
        PROVE  /\ Part(p + 1) = Part(p) \cup {q \in {p} : text[q] # "nl" /\ RoleAt(q) # "comment"}
               /\ EndsBefore(p + 1) = EndsBefore(p)
    <2>1. EndsBefore(p + 1) = EndsBefore(p)
      BY <1>2 DEF EndsBefore
    <2>2. ASSUME NEW q
          PROVE  q \in Part(p + 1) <=>
                   q \in Part(p) \/ (q = p /\ text[q] # "nl" /\ RoleAt(q) # "comment")
      <3>1. CASE q = p
        BY <1>2, <3>1 DEF Part
      <3>2. CASE q \in 1..(p - 1)
        <4>1. \A r \in (q + 1)..(p + 1 - 1) : r = p \/ r \in (q + 1)..(p - 1)
          BY <3>2
        <4>2. \A r \in (q + 1)..(p - 1) : r \in (q + 1)..(p + 1 - 1)
          BY <3>2
        <4>3. q \in 1..(p + 1 - 1) /\ q # p
          BY <3>2
        <4> QED
          BY <1>2, <3>2, <4>1, <4>2, <4>3 DEF Part
      <3>3. CASE q \notin 1..p
        BY <3>3 DEF Part
      <3> QED
        BY <3>1, <3>2, <3>3
    <2> QED
      BY <2>1, <2>2
  <1> QED
    BY <1>1, <1>2

(* The places that are kept, in the text.                                   *)
LEMMA Places ==
  ASSUME ScanIInv, at = Len(text) + 1
  PROVE  /\ Len(text) \in Nat /\ Len(kept) \in Nat
         /\ \A k \in 1..Len(kept) : kept[k] \in 1..Len(text) /\ Place(k) = kept[k]
         /\ Place(Len(kept) + 1) = Len(text) + 1
         /\ \A k \in 1..Len(kept) : Place(k + 1) \in (kept[k] + 1)..(Len(text) + 1)
         /\ Place(1) \in 1..(Len(text) + 1)
         /\ \A k \in 1..Len(kept) : \A p \in (kept[k] + 1)..(Place(k + 1) - 1) : ~Has(kept, p)
         /\ \A p \in 1..(Place(1) - 1) : ~Has(kept, p)
  <1>1. at = Len(text) + 1 /\ Len(text) \in Nat
    BY DEF ScanIInv, LexerOK
  <1>2. /\ kept \in Seq(Nat)
        /\ \A k \in 1..Len(kept) : kept[k] \in 1..(at - 1)
        /\ \A k \in 1..Len(kept), l \in 1..Len(kept) : k < l => kept[k] < kept[l]
    BY DEF ScanIInv, Sorted
  <1>3. Len(kept) \in Nat
    BY <1>2
  <1>4. \A k \in 1..Len(kept) : kept[k] \in 1..Len(text) /\ Place(k) = kept[k]
    BY <1>1, <1>2, <1>3 DEF Place
  <1>5. Place(Len(kept) + 1) = Len(text) + 1
    BY <1>3 DEF Place
  <1>6. ASSUME NEW k \in 1..Len(kept)
        PROVE  /\ Place(k + 1) \in (kept[k] + 1)..(Len(text) + 1)
               /\ \A p \in (kept[k] + 1)..(Place(k + 1) - 1) : ~Has(kept, p)
    <2>1. CASE k = Len(kept)
      <3>1. Place(k + 1) = Len(text) + 1 /\ kept[k] \in 1..Len(text)
        BY <1>4, <1>5, <2>1
      <3>2. ASSUME NEW p \in (kept[k] + 1)..(Place(k + 1) - 1), NEW l \in 1..Len(kept), kept[l] = p
            PROVE  FALSE
        <4>1. l = k \/ l < k
          BY <1>3, <2>1
        <4> QED
          BY <1>2, <3>1, <3>2, <4>1
      <3> QED
        BY <1>1, <3>1, <3>2 DEF Has
    <2>2. CASE k # Len(kept)
      <3>1. k + 1 \in 1..Len(kept) /\ k < k + 1
        BY <1>3, <2>2
      <3>2. Place(k + 1) = kept[k + 1] /\ kept[k] < kept[k + 1]
        BY <1>2, <1>4, <3>1
      <3>3. ASSUME NEW p \in (kept[k] + 1)..(Place(k + 1) - 1), NEW l \in 1..Len(kept), kept[l] = p
            PROVE  FALSE
        <4>1. l = k \/ l = k + 1 \/ l < k \/ k + 1 < l
          BY <1>3
        <4>2. kept[k] < kept[l] /\ kept[l] < kept[k + 1]
          BY <1>4, <3>1, <3>2, <3>3
        <4>3. kept[k] \in Int /\ kept[l] \in Int /\ kept[k + 1] \in Int
          BY <1>1, <1>4, <3>1
        <4>4. l < k => kept[l] < kept[k]
          BY <1>2
        <4>5. k + 1 < l => kept[k + 1] < kept[l]
          BY <1>2, <3>1
        <4> QED
          BY <4>1, <4>2, <4>3, <4>4, <4>5
      <3>4. kept[k] \in 1..Len(text) /\ kept[k + 1] \in 1..Len(text)
        BY <1>4, <3>1
      <3> QED
        BY <1>1, <3>2, <3>3, <3>4 DEF Has
    <2> QED
      BY <2>1, <2>2
  <1>7. Place(1) \in 1..(Len(text) + 1) /\ \A p \in 1..(Place(1) - 1) : ~Has(kept, p)
    <2>1. CASE Len(kept) = 0
      BY <1>1, <1>5, <2>1 DEF Has
    <2>2. CASE Len(kept) # 0
      <3>1. 1 \in 1..Len(kept)
        BY <1>3, <2>2
      <3>2. Place(1) = kept[1] /\ kept[1] \in 1..Len(text)
        BY <1>4, <3>1
      <3>3. ASSUME NEW p \in 1..(Place(1) - 1), NEW l \in 1..Len(kept), kept[l] = p  PROVE FALSE
        <4>1. l = 1 \/ 1 < l
          BY <1>3
        <4> QED
          BY <1>2, <1>4, <3>1, <3>2, <3>3, <4>1
      <3> QED
        BY <1>1, <3>2, <3>3 DEF Has
    <2> QED
      BY <2>1, <2>2
  <1> QED
    BY <1>1, <1>3, <1>4, <1>5, <1>6, <1>7

(* The lexer and the statement at the next place that is kept.              *)
Continues(p, n, t) ==
  /\ p \in 1..Len(text) /\ n \in 1..(Len(text) + 1)
  /\ text[p] # "nl" => RoleAt(p) # "comment"
  /\ t.mode \in Quotes => lexer[n].outer = t
  /\ t.mode \notin Quotes => lexer[n].outer.mode \notin Quotes /\ ~lexer[n].outer.escaped
  /\ RoleAt(p) = "end" => Part(n) = {} /\ EndsBefore(n) = EndsBefore(p) \cup {p}
  /\ RoleAt(p) # "end" =>
       /\ Part(n) = Part(p) \cup {q \in {p} : text[q] # "nl"}
       /\ EndsBefore(n) = EndsBefore(p)

LEMMA NextPlace ==
  ASSUME ScanIInv, Covered, function = "SplitStatements"
  PROVE  \A k \in 1..Len(kept) :
           Continues(kept[k], Place(k + 1), Read(engine, lexer[kept[k]].outer, text[kept[k]]))
  <1> SUFFICES ASSUME NEW k \in 1..Len(kept), NEW p, p = kept[k], NEW n, n = Place(k + 1)
               PROVE  Continues(p, n, Read(engine, lexer[p].outer, text[p]))
    OBVIOUS
  <1> DEFINE t == Read(engine, lexer[p].outer, text[p])
  <1>0. at = Len(text) + 1 /\ function \in Stripped
    BY DEF ScanIInv, ScanOK, Scanning, Stripped
  <1>1. /\ Len(text) \in Nat /\ p \in 1..Len(text) /\ n \in (p + 1)..(Len(text) + 1)
        /\ \A q \in (p + 1)..(n - 1) : ~Has(kept, q)
    BY <1>0, Places
  <1>2. p + 1 \in 1..(Len(text) + 1) /\ n \in 1..(Len(text) + 1)
    BY <1>1
  <1>3. text[p] # "nl" => RoleAt(p) # "comment"
    <2>1. Has(kept, p) /\ at = Len(text) + 1
      BY DEF Has, ScanIInv, ScanOK, Scanning
    <2> QED
      BY <1>1, <2>1 DEF ScanIInv, KeepsCode, Stripped
  <1>4. lexer[p + 1].outer = t
    <2>1. lexer[p + 1] = ReadOn(engine, lexer[p], text[p])
      BY <1>1 DEF ScanIInv, LexerOK
    <2> QED
      BY <2>1 DEF ReadOn
  <1>5. /\ n # p + 1 => Calm(p + 1) /\ Calm(n)
        /\ Part(n) = Part(p + 1) /\ EndsBefore(n) = EndsBefore(p + 1)
    BY <1>0, <1>1, <1>2, Comments
  <1>6. lexer[n].outer.escaped => lexer[n].outer.mode \in Quotes
    BY <1>2 DEF ScanIInv, LexerOK, Quotes
  <1> HIDE DEF t
  <1>7. /\ t.mode \in Quotes => lexer[n].outer = t
        /\ t.mode \notin Quotes => lexer[n].outer.mode \notin Quotes /\ ~lexer[n].outer.escaped
    BY <1>4, <1>5, <1>6 DEF Calm
  <1>8. RoleAt(p) = "end" => Part(n) = {} /\ EndsBefore(n) = EndsBefore(p) \cup {p}
    BY <1>1, <1>5, PartEnds
  <1>9. RoleAt(p) # "end" =>
          /\ Part(n) = Part(p) \cup {q \in {p} : text[q] # "nl"}
          /\ EndsBefore(n) = EndsBefore(p)
    <2>1. {q \in {p} : text[q] # "nl" /\ RoleAt(q) # "comment"} = {q \in {p} : text[q] # "nl"}
      BY <1>3
    <2> QED
      BY <1>1, <1>5, <2>1, PartEnds
  <1> QED
    BY <1>1, <1>2, <1>3, <1>7, <1>8, <1>9 DEF Continues, t

(* What splitting makes of the token it is at.                              *)
RuneReads(p, n, s, u) ==
  /\ p \in 1..Len(text) /\ n \in 1..(Len(text) + 1)
  /\ s.mode \in Quotes =>
       /\ RoleAt(p) = "quoted"
       /\ text[p] = s.mode /\ ~s.escaped => u.mode \notin Quotes /\ ~u.escaped
       /\ ~(text[p] = s.mode /\ ~s.escaped) =>
            /\ u.mode = s.mode
            /\ u.escaped <=> s.mode = "'" /\ text[p] = "\\" /\ ~s.escaped
  /\ s.mode \notin Quotes =>
       /\ RoleAt(p) = "end" <=> text[p] = ";"
       /\ text[p] \in Quotes => u.mode = text[p] /\ ~u.escaped
       /\ text[p] \notin Quotes => u.mode \notin Quotes /\ ~u.escaped
  /\ RoleAt(p) = "end" => Part(n) = {} /\ EndsBefore(n) = EndsBefore(p) \cup {p}
  /\ RoleAt(p) # "end" =>
       /\ Part(n) = Part(p) \cup {q \in {p} : text[q] # "nl"}
       /\ EndsBefore(n) = EndsBefore(p)

LEMMA RuneRead ==
  ASSUME ScanIInv, Covered, ~DollarOpens, function = "SplitStatements"
  PROVE  \A k \in 1..Len(kept) :
           RuneReads(kept[k], Place(k + 1), lexer[kept[k]].outer, lexer[Place(k + 1)].outer)
  <1> SUFFICES ASSUME NEW k \in 1..Len(kept), NEW p, p = kept[k], NEW n, n = Place(k + 1),
                      NEW s, s = lexer[p].outer, NEW u, u = lexer[n].outer
               PROVE  RuneReads(p, n, s, u)
    OBVIOUS
  <1> DEFINE token == text[p]
             t == Read(engine, s, token)
  <1>1. /\ p \in 1..Len(text) /\ n \in 1..(Len(text) + 1)
        /\ token # "nl" => RoleAt(p) # "comment"
        /\ t.mode \in Quotes => u = t
        /\ t.mode \notin Quotes => u.mode \notin Quotes /\ ~u.escaped
        /\ RoleAt(p) = "end" => Part(n) = {} /\ EndsBefore(n) = EndsBefore(p) \cup {p}
        /\ RoleAt(p) # "end" =>
             /\ Part(n) = Part(p) \cup {q \in {p} : text[q] # "nl"}
             /\ EndsBefore(n) = EndsBefore(p)
    <2>1. Continues(p, n, t) /\ u = lexer[n].outer
      BY NextPlace
    <2> HIDE DEF t
    <2> QED
      BY <2>1 DEF Continues
  <1>2. s.mode \in {"code", "line", "block"} \cup Quotes
    <2>1. Len(text) \in Nat
      BY DEF ScanIInv, LexerOK
    <2>2. s.mode # "dollar"
      <3>1. ASSUME s.mode = "dollar"  PROVE DollarOpens
        <4>1. InDollar(p) /\ p \in 1..(Len(text) + 1)
          BY <1>1, <2>1, <3>1 DEF InDollar
        <4>2. Opened(p)
          BY <4>1 DEF ScanIInv, Bodies
        <4>3. PICK q \in 1..(p - 1) :
                engine = "postgres" /\ text[q] = "$$" /\ lexer[q].outer.mode = "code"
          BY <4>2 DEF Opened
        <4>4. q \in 1..Len(text)
          BY <1>1, <2>1
        <4> QED
          BY <4>3, <4>4 DEF DollarOpens
      <3> QED
        BY <3>1
    <2>3. lexer[p].outer \in LexState
      <3> DEFINE P == [outer : LexState, inner : LexState]
      <3>1. lexer \in Seq(P) /\ Len(lexer) = Len(text) + 1
        BY DEF ScanIInv, LexerOK
      <3> HIDE DEF P
      <3>2. lexer[p] \in P
        BY <1>1, <2>1, <3>1
      <3> QED
        BY <3>2 DEF P
    <2> QED
      BY <1>1, <2>2, <2>3 DEF LexState
  <1>3. RoleAt(p) = Role(engine, s, token)
    BY DEF RoleAt
  <1>4. CASE s.mode \in Quotes
    <2>1. /\ RoleAt(p) = "quoted"
          /\ t.mode = IF token = s.mode /\ ~s.escaped THEN "code" ELSE s.mode
          /\ t.escaped <=> s.mode = "'" /\ token = "\\" /\ ~s.escaped
      <3>1. token = "\\" => s.mode # IF engine = "mysql" THEN "dq" ELSE "'"
        BY <1>1 DEF Covered, ReadsAlike, Differs
      <3> QED
        BY <1>3, <1>4, <3>1, ReadInQuotes DEF Quotes
    <2> HIDE DEF t
    <2> QED
      BY <1>1, <1>4, <2>1 DEF Quotes, RuneReads
  <1>5. CASE s.mode \in {"line", "block"}
    <2>1. RoleAt(p) = "comment" /\ token = "nl"
      BY <1>1, <1>3, <1>5, ReadInComment
    <2>2. t.mode \notin Quotes
      BY <1>5, <2>1 DEF Read, Mode, Quotes
    <2> HIDE DEF t
    <2> QED
      BY <1>1, <1>5, <2>1, <2>2 DEF Quotes, RuneReads
  <1>6. CASE s.mode = "code"
    <2>1. RoleAt(p) = "end" <=> token = ";"
      BY <1>2, <1>3, <1>6 DEF Role, Quotes
    <2>2. /\ ~t.escaped /\ (token \in Quotes => t.mode = token)
          /\ token \notin Quotes => t.mode \notin Quotes
      BY <1>2, <1>6 DEF Read, Mode, Enter, Quotes
    <2> HIDE DEF t
    <2> QED
      BY <1>1, <1>6, <2>1, <2>2 DEF Quotes, RuneReads
  <1> QED
    BY <1>2, <1>4, <1>5, <1>6

(* A statement is found: it is after the ones found before it.              *)
LEMMA FoundNext ==
  ASSUME Len(text) \in Nat, NEW n \in 1..(Len(text) + 1), NEW found \in Seq(SUBSET Nat),
         Finds(found, EndsBefore(n)), InOrder(found),
         NEW more, more = IF Part(n) = {} THEN found ELSE Append(found, Part(n))
  PROVE  /\ more \in Seq(SUBSET Nat)
         /\ Finds(more, EndsBefore(n) \cup {n}) /\ InOrder(more)
  <1> DEFINE S == EndsBefore(n)
             F == {found[k] : k \in 1..Len(found)}
  <1>1. {Part(end) : end \in S \cup {n}} \ {{}}
          = ({Part(end) : end \in S} \ {{}}) \cup ({Part(n)} \ {{}})
    OBVIOUS
  <1>2. CASE Part(n) = {}
    <2>1. more = found
      BY <1>2
    <2>2. Finds(more, S \cup {n})
      BY <1>1, <1>2, <2>1 DEF Finds
    <2> QED
      BY <2>1, <2>2
  <1>3. CASE Part(n) # {}
    <2>1. more = Append(found, Part(n)) /\ Part(n) \in SUBSET Nat
      BY <1>3 DEF Part
    <2> HIDE DEF S
    <2>2. /\ more \in Seq(SUBSET Nat) /\ Len(found) \in Nat /\ Len(more) = Len(found) + 1
          /\ \A k \in 1..Len(found) : more[k] = found[k]
          /\ more[Len(found) + 1] = Part(n)
      BY <2>1
    <2>3. {more[k] : k \in 1..Len(more)} = F \cup {Part(n)}
      <3>1. \A k \in 1..Len(more) : k \in 1..Len(found) \/ k = Len(found) + 1
        BY <2>2
      <3>2. /\ \A k \in 1..Len(found) : k \in 1..Len(more)
            /\ Len(found) + 1 \in 1..Len(more)
        BY <2>2
      <3> QED
        BY <2>2, <3>1, <3>2
    <2>4. F = {Part(end) : end \in S} \ {{}}
      BY DEF Finds, S
    <2>5. Finds(more, S \cup {n})
      BY <1>1, <1>3, <2>3, <2>4 DEF Finds
    <2>6. ASSUME NEW k \in 1..Len(found), NEW p \in found[k], NEW q \in Part(n)  PROVE p < q
      <3>1. PICK end \in S : found[k] = Part(end)
        BY <2>4
      <3>2. /\ end \in 1..Len(text) /\ end < n /\ RoleAt(end) = "end"
            /\ p \in 1..(end - 1) /\ q \in 1..(n - 1)
            /\ RoleAt(q) # "end" /\ \A r \in (q + 1)..(n - 1) : RoleAt(r) # "end"
        BY <2>6, <3>1 DEF S, EndsBefore, Part
      <3>3. end \notin (q + 1)..(n - 1) /\ end # q
        BY <3>2
      <3> QED
        BY <3>2, <3>3
    <2>7. InOrder(more)
      <3> SUFFICES ASSUME NEW k \in 1..Len(more), NEW l \in 1..Len(more), l < k,
                          NEW p \in more[l], NEW q \in more[k]
                   PROVE  p < q
        BY DEF InOrder
      <3>1. l \in 1..Len(found) /\ (k \in 1..Len(found) \/ k = Len(found) + 1)
        BY <2>2
      <3>2. CASE k \in 1..Len(found)
        BY <2>2, <3>1, <3>2 DEF InOrder
      <3>3. CASE k = Len(found) + 1
        BY <2>2, <2>6, <3>1, <3>3
      <3> QED
        BY <3>1, <3>2, <3>3
    <2> QED
      BY <2>2, <2>5, <2>7 DEF S
  <1> QED
    BY <1>2, <1>3

-----------------------------------------------------------------------------
(* The iterations of SplitStatements.                                       *)
LEMMA NextRune ==
  ASSUME UNCHANGED <<textVars, kept>>, ~dollar',
         NEW n, n = Place(rune'), Reaches(n, quote', current', statements')
  PROVE  AtRune'
  <1>1. text' = text /\ lexer' = lexer /\ engine' = engine /\ kept' = kept
    BY DEF textVars
  <1>2. Place(rune)' = n
    BY <1>1 DEF Place
  <1>3. \A e : Part(e)' = Part(e) /\ EndsBefore(e)' = EndsBefore(e)
    BY <1>1 DEF Part, EndsBefore, RoleAt
  <1>4. {Part(end)' : end \in EndsBefore(n)} = {Part(end) : end \in EndsBefore(n)}
    BY <1>3
  <1>5. InOrder(statements)'
    BY DEF Reaches, InOrder
  <1>6. /\ quote' = QuoteOf(lexer[n].outer) /\ ~lexer[n].outer.escaped
        /\ current' = Part(n)
        /\ {statements'[k] : k \in 1..Len(statements')} = {Part(end) : end \in EndsBefore(n)} \ {{}}
    BY DEF Reaches, Finds
  <1>7. Finds(statements, EndsBefore(Place(rune)))'
    BY <1>2, <1>3, <1>4, <1>6 DEF Finds
  <1>8. quote' = QuoteOf(lexer'[n].outer) /\ ~lexer'[n].outer.escaped /\ current' = Part(n)'
    BY <1>1, <1>3, <1>6
  <1> QED
    BY <1>2, <1>5, <1>7, <1>8 DEF AtRune, Reaches, QuoteOf

(* The tokens that are added to the statement.                              *)
LEMMA Added ==
  ASSUME SplitOK, kept \in Seq(Nat)
  PROVE  /\ Add(1) =>
              /\ current' = current \cup {q \in {kept[rune]} : text[q] # "nl"}
              /\ rune' = rune + 1
         /\ Add(2) =>
              /\ current' = (current \cup {q \in {kept[rune]} : text[q] # "nl"})
                              \cup {q \in {kept[rune + 1]} : text[q] # "nl"}
              /\ rune' = rune + 2
  <1>1. Len(kept) \in Nat /\ rune \in Nat
    BY DEF SplitOK
  <1>2. rune..(rune + 1 - 1) = {rune} /\ rune..(rune + 2 - 1) = {rune, rune + 1}
    BY <1>1
  <1>3. /\ {kept[k] : k \in {rune}} = {kept[rune]}
        /\ {kept[k] : k \in {rune, rune + 1}} = {kept[rune], kept[rune + 1]}
    OBVIOUS
  <1>4. ASSUME Add(1)
        PROVE  /\ current' = current \cup {q \in {kept[rune]} : text[q] # "nl"}
               /\ rune' = rune + 1
    BY <1>2, <1>3, <1>4 DEF Add
  <1>5. ASSUME Add(2)
        PROVE  /\ current' = (current \cup {q \in {kept[rune]} : text[q] # "nl"})
                               \cup {q \in {kept[rune + 1]} : text[q] # "nl"}
               /\ rune' = rune + 2
    <2>1. {q \in {kept[rune], kept[rune + 1]} : text[q] # "nl"}
            = {q \in {kept[rune]} : text[q] # "nl"} \cup {q \in {kept[rune + 1]} : text[q] # "nl"}
      OBVIOUS
    <2>2. current' = current \cup {q \in {kept[rune], kept[rune + 1]} : text[q] # "nl"}
      BY <1>2, <1>3, <1>5 DEF Add
    <2> QED
      BY <1>5, <2>1, <2>2 DEF Add
  <1> QED
    BY <1>4, <1>5

(* No body opens that the server would not take for one.                    *)
LEMMA NoBody ==
  ASSUME ScanIInv, SplitOK, Covered, ~DollarOpens, AtRune, OpenBody
  PROVE  FALSE
  <1> DEFINE p == kept[rune]
             s == lexer[p].outer
  <1>1. /\ function = "SplitStatements" /\ engine = "postgres" /\ quote = "none"
        /\ rune \in 1..Len(kept) /\ at = Len(text) + 1
        /\ \/ text[p] = "$$"
           \/ text[p] = "$" /\ \E k \in (rune + 1)..Len(kept) : text[kept[k]] \in {"$", "$$"}
    <2>1. kept \in Seq(Nat) /\ Len(kept) \in Nat /\ rune <= Len(kept) /\ rune \in 1..(Len(kept) + 1)
      BY DEF OpenBody, Splitting, ScanIInv, Sorted, SplitOK
    <2>2. rune \in 1..Len(kept)
      BY <2>1
    <2> QED
      BY <2>2 DEF OpenBody, Splitting, Rune, ScanIInv, ScanOK, Scanning
  <1>2. \A k \in 1..Len(kept) : kept[k] \in 1..Len(text) /\ Place(k) = kept[k]
    BY <1>1, Places
  <1>3. ASSUME NEW k \in 1..Len(kept), text[kept[k]] # "nl"  PROVE RoleAt(kept[k]) # "comment"
    <2>1. Has(kept, kept[k]) /\ kept[k] \in 1..(at - 1)
      <3>1. Len(text) \in Nat
        BY DEF ScanIInv, LexerOK
      <3> QED
        BY <1>1, <1>2, <3>1 DEF Has
    <2> QED
      BY <1>1, <1>3, <2>1 DEF ScanIInv, KeepsCode, Stripped
  <1>4. p \in 1..Len(text) /\ RoleAt(p) # "comment" /\ QuoteOf(s) = "none"
    <2>1. QuoteOf(s) = "none"
      BY <1>1, <1>2 DEF AtRune, Reaches
    <2> QED
      BY <1>1, <1>2, <1>3, <2>1
  <1>5. s.mode \notin {"line", "block"} \cup Quotes
    <2>1. s.mode \notin {"line", "block"}
      BY <1>4, ReadInComment DEF RoleAt
    <2>2. s.mode \notin Quotes
      BY <1>4 DEF QuoteOf, Quotes
    <2> QED
      BY <2>1, <2>2
  <1>6. s.mode # "dollar"
    <2>1. SUFFICES ASSUME InDollar(p)  PROVE FALSE
      BY DEF InDollar
    <2>2. Len(text) \in Nat
      BY DEF ScanIInv, LexerOK
    <2>3. Opened(p)
      BY <1>4, <2>1, <2>2 DEF ScanIInv, Bodies
    <2>4. PICK q \in 1..(p - 1) :
            engine = "postgres" /\ text[q] = "$$" /\ lexer[q].outer.mode = "code"
      BY <2>3 DEF Opened
    <2>5. q \in 1..Len(text)
      BY <1>4, <2>2
    <2> QED
      BY <2>4, <2>5 DEF DollarOpens
  <1>7. s.mode = "code"
    <2> DEFINE P == [outer : LexState, inner : LexState]
    <2>1. lexer \in Seq(P) /\ Len(lexer) = Len(text) + 1 /\ Len(text) \in Nat
      BY DEF ScanIInv, LexerOK
    <2> HIDE DEF P
    <2>2. lexer[p] \in P
      BY <1>4, <2>1
    <2>3. s \in LexState
      BY <2>2 DEF P
    <2> QED
      BY <1>5, <1>6, <2>3 DEF LexState
  <1>8. text[p] # "$$"
    BY <1>1, <1>4, <1>7 DEF DollarOpens
  <1>9. PICK k \in (rune + 1)..Len(kept) : text[kept[k]] \in {"$", "$$"}
    BY <1>1, <1>8
  <1>10. k \in 1..Len(kept) /\ rune < k
    <2>1. Len(kept) \in Nat
      BY DEF ScanIInv, Sorted
    <2> QED
      BY <1>1, <2>1
  <1>11. kept[k] \in (p + 1)..Len(text)
    <2>1. p < kept[k]
      BY <1>1, <1>10 DEF ScanIInv, Sorted
    <2>2. kept[k] \in 1..Len(text) /\ p \in 1..Len(text) /\ Len(text) \in Nat
      BY <1>2, <1>4, <1>10 DEF ScanIInv, LexerOK
    <2> QED
      BY <2>1, <2>2
  <1>12. RoleAt(kept[k]) # "comment"
    BY <1>3, <1>9, <1>10
  <1> QED
    BY <1>1, <1>4, <1>7, <1>8, <1>9, <1>11, <1>12 DEF DollarOpens

LEMMA SplitStep ==
  ASSUME ScanIInv, SplitOK, Covered, ~DollarOpens, AtRune,
         UNCHANGED <<textVars, function, scanVars>>,
         OpenBody \/ InBody \/ Escape \/ ToggleQuote \/ Semicolon \/ WriteRune
  PROVE  AtRune'
  <1> DEFINE p == kept[rune]
             n == Place(rune + 1)
             s == lexer[p].outer
             u == lexer[n].outer
             add == {q \in {p} : text[q] # "nl"}
  <1>1. /\ function = "SplitStatements" /\ rune \in 1..Len(kept) /\ Place(rune) = p
        /\ Len(text) \in Nat /\ Len(kept) \in Nat /\ rune \in Nat /\ kept \in Seq(Nat)
    <2>1. /\ function = "SplitStatements" /\ rune <= Len(kept)
      BY DEF OpenBody, InBody, Escape, ToggleQuote, Semicolon, WriteRune, Splitting
    <2>2. kept \in Seq(Nat) /\ Len(text) \in Nat
      BY DEF ScanIInv, Sorted, LexerOK
    <2>3. Len(kept) \in Nat /\ rune \in 1..Len(kept)
      BY <2>1, <2>2 DEF SplitOK
    <2> QED
      BY <2>1, <2>2, <2>3 DEF Place
  <1>2. /\ quote = QuoteOf(s) /\ ~s.escaped /\ ~dollar
        /\ current = Part(p) /\ Finds(statements, EndsBefore(p)) /\ InOrder(statements)
    BY <1>1 DEF AtRune, Reaches
  <1>3. RuneReads(p, n, s, u)
    BY <1>1, RuneRead
  <1>4. UNCHANGED <<textVars, kept>>
    BY DEF scanVars
  <1>5. Add(1) => current' = current \cup add /\ rune' = rune + 1
    BY <1>1, Added
  <1> HIDE DEF add, u, n, s
  <1>6. CASE OpenBody
    BY <1>6, NoBody
  <1>7. CASE InBody
    BY <1>2, <1>7 DEF InBody
  <1>8. CASE Escape
    <2> DEFINE p2 == kept[rune + 1]
               n2 == Place(rune + 2)
               v == lexer[n2].outer
               add2 == {q \in {p2} : text[q] # "nl"}
    <2>1. /\ text[p] = "\\" /\ quote = "'" /\ rune < Len(kept) /\ Add(2)
          /\ quote' = quote /\ ~dollar' /\ statements' = statements
      BY <1>2, <1>8 DEF Escape, Rune
    <2>2. s.mode = "'"
      BY <1>2, <2>1 DEF QuoteOf
    <2>3. /\ RoleAt(p) = "quoted" /\ u.mode = "'" /\ u.escaped
      BY <1>2, <1>3, <2>1, <2>2 DEF Quotes, RuneReads
    <2>4. rune + 1 \in 1..Len(kept) /\ n = p2 /\ Place((rune + 1) + 1) = n2
      BY <1>1, <2>1 DEF Place, n
    <2>5. RuneReads(p2, n2, u, v)
      <3>1. RuneReads(p2, Place((rune + 1) + 1), lexer[p2].outer, lexer[Place((rune + 1) + 1)].outer)
        BY <1>1, <2>4, RuneRead
      <3> QED
        BY <2>4, <3>1 DEF u
    <2>6. current' = (current \cup add) \cup add2 /\ rune' = rune + 2
      BY <1>1, <2>1, Added DEF add
    <2> HIDE DEF v, add2, n2, p2
    <2>7. RoleAt(p2) = "quoted" /\ v.mode = "'" /\ ~v.escaped
      BY <2>3, <2>5 DEF Quotes, RuneReads
    <2>8. /\ Part(n2) = (Part(p) \cup add) \cup add2
          /\ EndsBefore(n2) = EndsBefore(p)
      BY <1>3, <2>3, <2>4, <2>5, <2>7 DEF RuneReads, add, add2
    <2>9. Reaches(n2, quote', current', statements')
      BY <1>2, <2>1, <2>6, <2>7, <2>8 DEF Reaches, QuoteOf, Quotes, v
    <2> QED
      BY <1>4, <2>1, <2>6, <2>9, NextRune DEF n2
  <1>9. ASSUME Add(1), RoleAt(p) # "end", ~dollar', statements' = statements,
               quote' = QuoteOf(u), ~u.escaped
        PROVE  AtRune'
    <2>1. Reaches(n, quote', current', statements')
      BY <1>2, <1>3, <1>5, <1>9 DEF Reaches, u, add, RuneReads
    <2> QED
      BY <1>4, <1>5, <1>9, <2>1, NextRune DEF n
  <1>10. CASE ToggleQuote
    <2>1. /\ text[p] \in Quotes /\ quote \in {"none", text[p]} /\ Add(1)
          /\ quote' = IF quote = "none" THEN text[p] ELSE "none"
          /\ ~dollar' /\ statements' = statements
      BY <1>2, <1>10 DEF ToggleQuote, Rune
    <2>2. RoleAt(p) # "end" /\ quote' = QuoteOf(u) /\ ~u.escaped
      BY <1>2, <1>3, <2>1 DEF QuoteOf, Quotes, RuneReads
    <2> QED
      BY <1>9, <2>1, <2>2
  <1>11. CASE Semicolon
    <2>1. /\ text[p] = ";" /\ quote = "none" /\ Found
          /\ current' = {} /\ rune' = rune + 1 /\ quote' = quote /\ ~dollar'
      BY <1>2, <1>11 DEF Semicolon, Rune
    <2>2. s.mode \notin Quotes
      BY <1>2, <2>1 DEF QuoteOf, Quotes
    <2>3. RoleAt(p) = "end" /\ u.mode \notin Quotes /\ ~u.escaped
      BY <1>3, <2>1, <2>2 DEF Quotes, RuneReads
    <2>4. statements' = IF Part(p) = {} THEN statements ELSE Append(statements, Part(p))
      BY <1>2, <2>1 DEF Found
    <2>5. p \in 1..(Len(text) + 1) /\ statements \in Seq(SUBSET Nat)
      <3>1. p \in 1..Len(text)
        BY <1>3 DEF RuneReads
      <3> QED
        BY <1>1, <3>1 DEF SplitOK
    <2>6. Finds(statements', EndsBefore(p) \cup {p}) /\ InOrder(statements')
      BY <1>1, <1>2, <2>4, <2>5, FoundNext
    <2>7. Reaches(n, quote', current', statements')
      BY <1>3, <2>1, <2>3, <2>6 DEF Reaches, QuoteOf, u, RuneReads
    <2> QED
      BY <1>4, <2>1, <2>7, NextRune DEF n
  <1>12. CASE WriteRune
    <2>1. /\ ~(text[p] = "\\" /\ quote = "'" /\ rune < Len(kept))
          /\ ~(text[p] \in Quotes /\ quote \in {"none", text[p]})
          /\ ~(text[p] = ";" /\ quote = "none")
          /\ Add(1) /\ quote' = quote /\ ~dollar' /\ statements' = statements
      BY <1>2, <1>12 DEF WriteRune, Rune
    <2>2. CASE s.mode \notin Quotes
      <3>1. quote = "none"
        BY <1>2, <2>2 DEF QuoteOf
      <3>2. RoleAt(p) # "end" /\ u.mode \notin Quotes /\ ~u.escaped
        BY <1>3, <2>1, <2>2, <3>1 DEF RuneReads
      <3> QED
        BY <1>9, <2>1, <3>1, <3>2 DEF QuoteOf
    <2>3. CASE s.mode \in Quotes
      <3>1. quote = s.mode
        BY <1>2, <2>3 DEF QuoteOf
      <3>2. /\ RoleAt(p) # "end" /\ u.mode = s.mode
            /\ u.escaped <=> s.mode = "'" /\ text[p] = "\\"
        BY <1>2, <1>3, <2>1, <2>3, <3>1 DEF RuneReads
      <3>3. ~u.escaped
        <4>1. SUFFICES ASSUME u.escaped  PROVE FALSE
          OBVIOUS
        <4>2. rune = Len(kept)
          <5>1. ~(rune < Len(kept))
            BY <2>1, <3>1, <3>2, <4>1
          <5> QED
            BY <1>1, <5>1
        <4>3. n = Len(text) + 1
          BY <1>1, <4>2 DEF Place, n
        <4>4. u.mode \in {"code", "line"}
          BY <4>3 DEF Covered, WellFormed, Ends, u
        <4> QED
          BY <2>3, <3>2, <4>4 DEF Quotes
      <3>4. quote' = QuoteOf(u)
        BY <2>1, <2>3, <3>1, <3>2 DEF QuoteOf
      <3> QED
        BY <1>9, <2>1, <3>2, <3>3, <3>4
    <2> QED
      BY <2>2, <2>3
  <1> QED
    BY <1>6, <1>7, <1>8, <1>10, <1>11, <1>12

(* The invariant of all of it.                                              *)
SplitIInv ==
  /\ ScanIInv /\ SplitOK
  /\ Covered /\ ~DollarOpens /\ function = "SplitStatements" => AtRune
  /\ SplitsAtCode

LEMMA SplitInit ==
  ASSUME SqlInit
  PROVE  SplitIInv
  <1>1. ScanIInv
    BY ScanInit
  <1>2. function = "none"
    BY DEF SqlInit
  <1>3. SplitOK
    BY DEF SqlInit, SplitOK
  <1> QED
    BY <1>1, <1>2, <1>3 DEF SplitIInv, SplitsAtCode

(* Splitting starts before the first token, in code.                        *)
LEMMA SplitBegins ==
  ASSUME ScanIInv, SplitOK, Covered, function = "StripComments", Scanned
  PROVE  AtRune'
  <1>1. /\ UNCHANGED <<textVars, kept>> /\ function' = "SplitStatements"
        /\ rune' = 1 /\ quote' = "none" /\ ~dollar' /\ current' = {} /\ statements' = <<>>
    BY DEF Scanned, SplitOK, splitVars, scanVars
  <1>2. text' = text /\ lexer' = lexer /\ engine' = engine /\ kept' = kept
    BY <1>1 DEF textVars
  <1>3. at = Len(text) + 1 /\ Len(text) \in Nat /\ function \in Stripped
    BY DEF Scanned, Limit, In, ScanIInv, ScanOK, LexerOK, Stripped
  <1>4. /\ Place(1) \in 1..(Len(text) + 1) /\ \A p \in 1..(Place(1) - 1) : ~Has(kept, p)
    BY <1>3, Places
  <1>5. /\ Place(1) # 1 => Calm(1) /\ Calm(Place(1))
        /\ Part(Place(1)) = Part(1) /\ EndsBefore(Place(1)) = EndsBefore(1)
    BY <1>3, <1>4, Comments
  <1>6. Part(1) = {} /\ EndsBefore(1) = {}
    BY <1>3 DEF Part, EndsBefore
  <1>7. /\ lexer[1].outer.mode = "code" /\ ~lexer[1].outer.escaped
        /\ lexer[Place(1)].outer.escaped => lexer[Place(1)].outer.mode \in Quotes
    BY <1>4 DEF ScanIInv, LexerOK, AtCode
  <1> DEFINE n == Place(1)
             v == lexer[n].outer
  <1>8. v.mode \notin Quotes /\ ~v.escaped
    BY <1>5, <1>7 DEF Calm, Quotes
  <1>9. Part(n) = {} /\ EndsBefore(n) = {}
    BY <1>5, <1>6
  <1> HIDE DEF n
  <1>10. Finds(<<>>, EndsBefore(n)) /\ InOrder(<<>>)
    BY <1>9 DEF Finds, InOrder
  <1>11. Reaches(n, quote', current', statements')
    BY <1>1, <1>8, <1>9, <1>10 DEF Reaches, QuoteOf
  <1> QED
    BY <1>1, <1>11, NextRune DEF n

LEMMA SplitTypes ==
  ASSUME ScanIInv, ScanIInv', SplitOK, SqlNext
  PROVE  SplitOK'
  <1>1. kept \in Seq(Nat) /\ Len(kept) \in Nat
    BY DEF ScanIInv, Sorted
  <1>2. kept' \in Seq(Nat) /\ Len(kept') \in Nat
    BY DEF ScanIInv, Sorted
  <1>3. Found => statements' \in Seq(SUBSET Nat)
    <2> DEFINE T == SUBSET Nat
    <2>1. current \in T /\ statements \in Seq(T)
      BY DEF SplitOK
    <2> HIDE DEF T
    <2>2. Append(statements, current) \in Seq(T)
      BY <2>1
    <2>3. Found => statements' \in Seq(T)
      BY <2>1, <2>2 DEF Found
    <2> QED
      BY <2>3 DEF T
  <1>4. ASSUME UNCHANGED splitVars, function \notin {"SplitStatements", "split"}
        PROVE  SplitOK'
    BY <1>2, <1>4 DEF SplitOK, splitVars
  <1>5. CASE Scan
    <2>1. function \in Scanning
      BY <1>5 DEF Scan, LineComment, LineRune, BlockComment, BlockRune, ExecutableComment,
                  DollarBody, BodyEnds, OpenQuote, QuoteRune, Unclosed, Token, At, In, Scanning
    <2> QED
      BY <1>4, <1>5, <2>1 DEF Scan, Scanning
  <1>6. CASE (\E token \in Tokens(engine) : Write(token)) \/ Call \/ Scanned
    BY <1>4, <1>6 DEF Write, Call, Scanned, In
  <1>7. CASE Split
    <2>1. /\ function = "SplitStatements" /\ function' = function /\ kept' = kept
          /\ rune <= Len(kept)
      BY <1>7 DEF Split, OpenBody, InBody, Escape, ToggleQuote, Semicolon, WriteRune, Splitting,
                  scanVars
    <2>2. rune \in 1..Len(kept) /\ rune \in Nat
      BY <1>1, <2>1 DEF SplitOK
    <2>3. current \in SUBSET Nat /\ statements \in Seq(SUBSET Nat)
      BY DEF SplitOK
    <2>4. ASSUME NEW n \in {1, 2}, rune + n <= Len(kept) + 1, Add(n)
          PROVE  current' \in SUBSET Nat /\ rune' \in 1..(Len(kept) + 1)
      <3>1. \A k \in rune..(rune + n - 1) : kept[k] \in Nat
        BY <1>1, <2>2, <2>4
      <3>2. {p \in {kept[k] : k \in rune..(rune + n - 1)} : text[p] # "nl"} \in SUBSET Nat
        BY <3>1
      <3>3. rune + n \in 1..(Len(kept) + 1)
        BY <1>1, <2>2, <2>4
      <3> QED
        BY <2>3, <2>4, <3>2, <3>3 DEF Add
    <2>5. CASE Add(1) /\ statements' = statements
      BY <1>1, <2>1, <2>2, <2>3, <2>4, <2>5 DEF SplitOK
    <2>6. CASE Escape
      <3>1. rune + 2 <= Len(kept) + 1 /\ Add(2) /\ statements' = statements
        BY <1>1, <2>2, <2>6 DEF Escape
      <3> QED
        BY <2>1, <2>3, <2>4, <3>1 DEF SplitOK
    <2>7. CASE Semicolon
      <3>1. Found /\ current' = {} /\ rune' = rune + 1
        BY <2>7 DEF Semicolon
      <3>2. rune' \in 1..(Len(kept) + 1)
        BY <1>1, <2>2, <3>1
      <3> QED
        BY <1>3, <2>1, <3>1, <3>2 DEF SplitOK
    <2> QED
      BY <1>7, <2>5, <2>6, <2>7 DEF Split, OpenBody, InBody, ToggleQuote, WriteRune
  <1>8. CASE Splits
    <2>1. Found /\ UNCHANGED <<kept, rune, current>> /\ function' = "split"
      BY <1>8 DEF Splits, scanVars
    <2> QED
      BY <1>3, <2>1 DEF SplitOK
  <1> QED
    BY <1>5, <1>6, <1>7, <1>8 DEF SqlNext

LEMMA SplitNext ==
  ASSUME SplitIInv, [SqlNext]_sqlVars
  PROVE  SplitIInv'
  <1>1. ScanIInv' /\ ScanIInv /\ SplitOK /\ SplitsAtCode
    BY ScanNext DEF SplitIInv
  <1>2. CASE UNCHANGED sqlVars
    <2>1. /\ UNCHANGED <<textVars, function, scanVars, splitVars>>
          /\ UNCHANGED <<engine, text, lexer, kept, rune, quote, dollar, current, statements>>
      BY <1>2 DEF sqlVars, textVars, scanVars, splitVars
    <2>2. /\ WellFormed' = WellFormed /\ ReadsAlike' = ReadsAlike /\ DollarOpens' = DollarOpens
          /\ DialectStatements' = DialectStatements /\ Covered' = Covered
      BY <2>1, SameText
    <2>6. AtRune' = AtRune
      BY <2>1 DEF AtRune, Reaches, QuoteOf, Place, Part, EndsBefore, RoleAt, Finds, InOrder
    <2>3. SplitOK'
      BY <1>1, <2>1 DEF SplitOK
    <2>5. SplitsAtCode'
      BY <1>1, <2>1, <2>2 DEF SplitsAtCode
    <2> QED
      BY <1>1, <2>1, <2>2, <2>3, <2>5, <2>6 DEF SplitIInv
  <1>3. CASE SqlNext
    <2>1. SplitOK'
      BY <1>1, <1>3, SplitTypes
    <2>2. ASSUME function' \notin {"SplitStatements", "split"}
          PROVE  SplitIInv'
      BY <1>1, <2>1, <2>2 DEF SplitIInv, SplitsAtCode
    <2>3. CASE Scanned
      <3>1. UNCHANGED textVars /\ function' # "split"
        BY <2>3 DEF Scanned
      <3>3. function' = "SplitStatements" => function = "StripComments"
        BY <2>3 DEF Scanned
      <3>2. function' = "SplitStatements" => (Covered' = Covered)
        BY <3>1, <3>3, SameText DEF Matching
      <3> QED
        BY <1>1, <2>1, <2>3, <3>1, <3>2, <3>3, SplitBegins DEF SplitIInv, SplitsAtCode
    <2>4. CASE Split
      <3>1. /\ UNCHANGED <<textVars, function, scanVars>> /\ function = "SplitStatements"
            /\ OpenBody \/ InBody \/ Escape \/ ToggleQuote \/ Semicolon \/ WriteRune
        BY <2>4 DEF Split, OpenBody, InBody, Escape, ToggleQuote, Semicolon, WriteRune, Splitting
      <3>2. Covered' = Covered /\ DollarOpens' = DollarOpens
        BY <3>1, SameText
      <3>3. Covered /\ ~DollarOpens => AtRune'
        BY <1>1, <3>1, SplitStep DEF SplitIInv
      <3> QED
        BY <1>1, <2>1, <3>1, <3>2, <3>3 DEF SplitIInv, SplitsAtCode
    <2>5. CASE Splits
      <3>1. /\ function = "SplitStatements" /\ function' = "split" /\ rune = Len(kept) + 1
            /\ Found /\ UNCHANGED textVars
        BY <1>1, <2>5 DEF Splits, ScanIInv, Sorted, SplitOK
      <3>2. /\ WellFormed' = WellFormed /\ ReadsAlike' = ReadsAlike /\ DollarOpens' = DollarOpens
            /\ DialectStatements' = DialectStatements
        BY <3>1, SameText
      <3>3. ASSUME Covered, ~DollarOpens
            PROVE  /\ {statements'[k] : k \in 1..Len(statements')} = DialectStatements
                   /\ InOrder(statements')
        <4> DEFINE n == Len(text) + 1
        <4>1. at = n /\ Len(text) \in Nat /\ Place(rune) = n
          BY <1>1, <3>1, Places DEF ScanIInv, ScanOK, Scanning
        <4>2. /\ current = Part(n) /\ Finds(statements, EndsBefore(n)) /\ InOrder(statements)
          BY <3>1, <3>3, <4>1 DEF SplitIInv, AtRune, Reaches
        <4>3. /\ statements \in Seq(SUBSET Nat) /\ n \in 1..(Len(text) + 1)
              /\ statements' = IF Part(n) = {} THEN statements ELSE Append(statements, Part(n))
          BY <1>1, <3>1, <4>1, <4>2 DEF SplitOK, Found
        <4>4. Finds(statements', EndsBefore(n) \cup {n}) /\ InOrder(statements')
          BY <4>1, <4>2, <4>3, FoundNext
        <4>5. EndsBefore(n) = {p \in 1..Len(text) : RoleAt(p) = "end"}
          BY <4>1 DEF EndsBefore
        <4> QED
          BY <4>4, <4>5 DEF Finds, DialectStatements
      <3>4. statements' \in Seq(SUBSET Nat) /\ Len(statements') \in Nat
        BY <2>1 DEF SplitOK
      <3>5. SplitsAtCode'
        <4> SUFFICES ASSUME Covered, ~DollarOpens  PROVE
              /\ {statements'[k] : k \in DOMAIN statements'} = DialectStatements'
              /\ \A k \in 1..Len(statements') : \A l \in 1..(k - 1) :
                   \A p \in statements'[l], q \in statements'[k] : p < q
          BY <3>1, <3>2 DEF SplitsAtCode, Covered, Matching
        <4>1. DOMAIN statements' = 1..Len(statements')
          BY <3>4
        <4>2. \A k \in 1..Len(statements') : \A l \in 1..(k - 1) : l \in 1..Len(statements') /\ l < k
          BY <3>4
        <4>3. InOrder(statements')
          BY <3>3
        <4> QED
          BY <3>2, <3>3, <4>1, <4>2, <4>3 DEF InOrder
      <3> QED
        BY <1>1, <2>1, <3>1, <3>5 DEF SplitIInv
    <2>6. CASE (\E token \in Tokens(engine) : Write(token)) \/ Call \/ Scan
      <3>1. function' \notin {"SplitStatements", "split"}
        BY <2>6 DEF Write, Call, Scan, LineComment, LineRune, BlockComment, BlockRune,
                    ExecutableComment, DollarBody, BodyEnds, OpenQuote, QuoteRune, Unclosed, Token,
                    At, In
      <3> QED
        BY <2>2, <3>1
    <2> QED
      BY <1>3, <2>3, <2>4, <2>5, <2>6 DEF SqlNext
  <1> QED
    BY <1>2, <1>3

(* SplitStatementsForEngine (parser.go:172), of a text of any length, makes *)
(* the statements the server would execute, in their order: what is in a    *)
(* comment, a string or a quoted name neither begins nor ends one, and      *)
(* every token that is executed is in one of them.  Excepted are the texts  *)
(* with what the dialect reads in another way (ReadsAlike), and those of    *)
(* PostgreSQL with dollars in the code that open a body (DollarOpens).      *)
THEOREM SplitsAllAtCode == SqlSpec => []SplitsAtCode
  <1>1. SqlInit => SplitIInv
    BY SplitInit
  <1>2. SplitIInv /\ [SqlNext]_sqlVars => SplitIInv'
    BY SplitNext
  <1>3. SplitIInv => SplitsAtCode
    BY DEF SplitIInv
  <1> QED
    BY <1>1, <1>2, <1>3, PTL DEF SqlSpec
=============================================================================
