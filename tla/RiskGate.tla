----------------------------- MODULE RiskGate -----------------------------
(***************************************************************************)
(* internal/risk and its callers in cmd/branchbase: the gate that looks at  *)
(* the pending SQL migrations before the hook prewarms a branch, and when a *)
(* user or a CI job runs "risk check" or "risk analyze".                    *)
(*                                                                          *)
(* Each call is a process of its own: it loads the policy and the cache,    *)
(* assesses the migrations one by one, rewrites the whole cache file after  *)
(* each result it adds, and decides.  Calls share the repository, so that   *)
(* they overlap (a hook in the background, a check in the terminal) and     *)
(* meet each other's results; the policy file, the schema and the branch    *)
(* may be others for every call.                                            *)
(*                                                                          *)
(* A statement is reduced to the patterns of the parser it matches and the  *)
(* words the heuristics look for.                                           *)
(***************************************************************************)
EXTENDS Integers, Sequences, FiniteSets, FiniteSetsExt, TLC

CONSTANTS
  Run,          \* calls of the gate
  File,         \* migration files, numbered in the order of their names
  Pending,      \* the sets of SQL files a branch may have changed in the directories
                \* that are looked at (risk.go:179); --branch (312) makes no difference
  Sql,          \* texts of migrations
  Text,         \* the text of each file
  Statements,   \* the statements of each text, in their order
  Blank,        \* texts of nothing but comments (BEGIN and COMMIT are no statements)
  Table, Column, NoTable, NoColumn,
  Rule,         \* always_critical patterns
  DefaultRules, \* those of the default policy
  PolicyFiles,  \* what a policy file may set
  Metas,        \* what the catalog may tell of a table
  Absent,       \* a table whose introspection fails
  JevAnswers,   \* level and confidence the remote classifier may answer
  Engine        \* config driver

Unknown == 0   Low == 1   Medium == 2   High == 3   Critical == 4
Level == Unknown..Critical          \* by their Order
Actions == {"allow", "warn", "confirm", "block"}

Patterns == <<"DROP_TABLE", "TRUNCATE", "DROP_FOREIGN_KEY", "DROP_CONSTRAINT", "DROP_COLUMN",
              "ALTER_COLUMN_TYPE", "MODIFY_COLUMN", "CHANGE_COLUMN", "RENAME_COLUMN",
              "RENAME_TABLE", "DROP_INDEX", "CREATE_INDEX", "ADD_CONSTRAINT", "ADD_COLUMN",
              "CREATE_TABLE">>

Statement ==
  [matches : SUBSET {Patterns[i] : i \in DOMAIN Patterns},
   table : Table \cup {NoTable}, column : Column \cup {NoColumn},
   dml : BOOLEAN,      \* begins with UPDATE or DELETE
   safe : BOOLEAN,     \* CONCURRENTLY, NOT VALID, WHERE, nullable or DEFAULT
   cascade : BOOLEAN,
   rules : SUBSET Rule]

(* columns: whether the catalog lists any; fks: those referenced by others. *)
TableMetadata == [columns : BOOLEAN, fks : SUBSET Column]

Policy == [onRisk : [Low..Critical -> Actions], threshold : 0..100,
           jev : Actions, always : SUBSET Rule, excluded : SUBSET File]

(* critical: the flag "always_critical rule"; cached: whether Source is the  *)
(* cache; schema: the signature it was computed for.                        *)
Schemas == UNION {[T -> TableMetadata] : T \in SUBSET Table}
Risk == [level : Level, confidence : 0..100, critical : BOOLEAN,
         cached : BOOLEAN, schema : Schemas]
Key  == [sql : Sql, schema : Schemas]

-----------------------------------------------------------------------------
(* The policy.                                                              *)

DefaultPolicy ==
  [onRisk |-> <<"allow", "warn", "confirm", "block">>,
   threshold |-> 75, jev |-> "warn", always |-> DefaultRules, excluded |-> {}]

(* What the file leaves out has its default, on_risk level by level.        *)
LoadPolicy(file) ==
  [x \in DOMAIN DefaultPolicy |->
     IF x \notin DOMAIN file THEN DefaultPolicy[x]
     ELSE IF x = "onRisk" THEN [l \in Low..Critical |-> IF l \in DOMAIN file.onRisk
                                    THEN file.onRisk[l] ELSE DefaultPolicy.onRisk[l]]
     ELSE file[x]]

ASSUME TextAssumption ==
  /\ File \subseteq Nat /\ Pending \subseteq SUBSET File
  /\ Text \in [File -> Sql]
  /\ Statements \in [Sql -> Seq(Statement)]
  /\ Blank \subseteq {sql \in Sql : Statements[sql] = <<>>}
  /\ NoTable \notin Table /\ NoColumn \notin Column
  /\ Absent \notin TableMetadata /\ Metas \subseteq TableMetadata
ASSUME PolicyAssumption ==
  /\ DefaultRules \subseteq Rule
  /\ \A file \in PolicyFiles : LoadPolicy(file) \in Policy
ASSUME JevAssumption ==
  JevAnswers \subseteq [level : Level, confidence : 1..100]

Escalate(level) == IF level \in Low..High THEN level + 1 ELSE Critical

(* Step 1 of Evaluate: too little confidence is one level more.             *)
EffectiveLevel(p, risk) ==
  IF risk.confidence > 0 /\ risk.confidence < p.threshold
  THEN Escalate(risk.level) ELSE risk.level

Evaluate(p, risk) ==
  LET level == EffectiveLevel(p, risk) IN
  IF level = Unknown THEN "warn" ELSE p.onRisk[level]

MatchesAlwaysCritical(p, sql) ==
  \E i \in DOMAIN Statements[sql] : Statements[sql][i].rules \cap p.always # {}

-----------------------------------------------------------------------------
(* The parser: the first pattern that matches.                              *)

OpType(pattern) ==
  CASE pattern = "DROP_FOREIGN_KEY" -> "DROP_CONSTRAINT"
    [] pattern \in {"ALTER_COLUMN_TYPE", "MODIFY_COLUMN", "CHANGE_COLUMN"} -> "ALTER_TYPE"
    [] pattern = "CREATE_INDEX" -> "ADD_INDEX"
    [] OTHER -> pattern

classifyStatement(s) ==
  IF s.matches = {} THEN "GENERIC_DDL"
  ELSE LET first == CHOOSE i \in DOMAIN Patterns :
                      Patterns[i] \in s.matches /\ \A j \in 1..(i - 1) : Patterns[j] \notin s.matches
       IN  OpType(Patterns[first])

Unclassified(s) == classifyStatement(s) = "GENERIC_DDL" /\ ~s.dml
DropsColumn(s)  == classifyStatement(s) = "DROP_COLUMN"

SomeStatement(sql, P(_)) == \E i \in DOMAIN Statements[sql] : P(Statements[sql][i])

-----------------------------------------------------------------------------
(* The catalog.  A statement outside the parser names no table.             *)

TablesOf(sql) ==
  {Statements[sql][i].table : i \in {i \in DOMAIN Statements[sql] :
       classifyStatement(Statements[sql][i]) # "GENERIC_DDL"}} \ {NoTable}

IntrospectTables(sql) == [TablesOf(sql) -> Metas \cup {Absent}]

FormatSchemaSignature(metas) ==
  [t \in {t \in DOMAIN metas : metas[t] # Absent} |-> metas[t]]

ComputeCacheKey(sql, schema) == [sql |-> sql, schema |-> schema]

(* No metadata, or of a table the catalog does not list.                    *)
NoColumnsKnown(s, schema) == s.table \notin DOMAIN schema \/ ~schema[s.table].columns

-----------------------------------------------------------------------------
(* The heuristics.  Where the table's metadata is missing, that of the first *)
(* table that has some is looked at instead.                                 *)

FirstMeta(sql, schema) ==
  LET known == {i \in DOMAIN Statements[sql] : Statements[sql][i].table \in DOMAIN schema} IN
  IF known = {} THEN [columns |-> FALSE, fks |-> {}] ELSE schema[Statements[sql][Min(known)].table]

Referenced(s, sql, schema) ==
  s.column \in (IF s.table \in DOMAIN schema THEN schema[s.table] ELSE FirstMeta(sql, schema)).fks

OperationLevel(s, sql, schema) ==
  LET type == classifyStatement(s) IN
  CASE type \in {"DROP_TABLE", "TRUNCATE"} -> Critical
    [] type = "DROP_COLUMN" -> IF Referenced(s, sql, schema) THEN Critical ELSE High
    [] type \in {"ALTER_TYPE", "DROP_CONSTRAINT"} -> High
    [] type \in {"DROP_INDEX", "RENAME_COLUMN", "RENAME_TABLE"} -> Medium
    [] type \in {"ADD_CONSTRAINT", "ADD_INDEX"} ->
         IF Engine = "postgres" /\ ~s.safe THEN Medium ELSE Low
    [] type = "ADD_COLUMN" -> IF s.safe THEN Low ELSE High
    [] type = "GENERIC_DDL" -> IF s.dml /\ s.safe THEN Medium ELSE High
    [] OTHER -> Low

HeuristicClassify(sql, schema) ==
  LET levels == {OperationLevel(Statements[sql][i], sql, schema) : i \in DOMAIN Statements[sql]}
                \cup (IF SomeStatement(sql, LAMBDA s : s.cascade) THEN {High} ELSE {})
  IN  [level |-> Max(levels \cup {Low}),
       confidence |-> IF sql \in Blank THEN 100 ELSE 95]

(* The remote answer, its level parsed, says nothing of the schema.         *)
JevClassify == JevAnswers

-----------------------------------------------------------------------------
(* What AnalyzeSQL adds to the classifier's answer, whoever gave it.        *)

AtLeast(level, condition) == IF condition THEN Max({level, High}) ELSE level

FinalLevel(p, sql, schema, level) ==
  LET verified == AtLeast(level, SomeStatement(sql, LAMBDA s : DropsColumn(s) /\ NoColumnsKnown(s, schema)))
      reviewed == AtLeast(verified, SomeStatement(sql, Unclassified))
  IN  IF MatchesAlwaysCritical(p, sql) THEN Critical ELSE reviewed

Assessment(p, sql, schema, result) ==
  [level |-> FinalLevel(p, sql, schema, result.level), confidence |-> result.confidence,
   critical |-> MatchesAlwaysCritical(p, sql), cached |-> FALSE, schema |-> schema]

Nothing == [x \in {} |-> x]

ExcludedRisk == [level |-> Low, confidence |-> 100, critical |-> FALSE,
                 cached |-> FALSE, schema |-> Nothing]
JevUnavailableRisk == [level |-> Critical, confidence |-> 0, critical |-> FALSE,
                       cached |-> FALSE, schema |-> Nothing]

(* Mutant of Blocked: the action of the highest level decides.              *)
BlockedOverall(p, risks) ==
  \E f \in DOMAIN risks :
    /\ Evaluate(p, risks[f]) = "block"
    /\ \A g \in DOMAIN risks : EffectiveLevel(p, risks[g]) <= EffectiveLevel(p, risks[f])

(* EvaluateReport: each migration counts for itself.                        *)
Blocked(p, risks) == \E f \in DOMAIN risks : Evaluate(p, risks[f]) = "block"
RequiresConfirm(p, risks) == \E f \in DOMAIN risks : Evaluate(p, risks[f]) = "confirm"

-----------------------------------------------------------------------------
VARIABLES
  run,     \* the calls, by where they are and what they have in memory
  final,   \* risk_cache.json
  tmp,     \* risk_cache.json.tmp
  shared   \* history: calls that had the temporary file while another had it

vars == <<run, final, tmp, shared>>

(* A cache file: missing, truncated, mixed up, or the entries of some call. *)
NoFile == [state |-> "none",  entries |-> Nothing]
Empty  == [state |-> "empty", entries |-> Nothing]
Torn   == [state |-> "torn",  entries |-> Nothing]
Whole(entries) == [state |-> "whole", entries |-> entries]
Unreadable == {Empty, Torn}

IsEntries(e) == DOMAIN e \subseteq Key /\ e \in [DOMAIN e -> Risk]
IsCacheFile(file) == file \in {NoFile, Empty, Torn} \/ (IsEntries(file.entries) /\ file = Whole(file.entries))

Persisting == {"write", "rename", "remove"}
Ended == {"passed", "confirmed", "forced", "stopped"}

(* fd: the file a call's descriptor is on by now: its own, renamed or gone. *)
Gone(outcome) ==
  [pc |-> outcome, kind |-> "hook", remote |-> FALSE, policy |-> DefaultPolicy,
   entries |-> Nothing, files |-> {}, todo |-> {}, risks |-> Nothing, fd |-> "none"]

IsRun(c) ==
  /\ DOMAIN c = {"pc", "kind", "remote", "policy", "entries", "files", "todo", "risks", "fd"}
  /\ c.pc \in Ended \cup Persisting \cup {"new", "collect", "assess", "open"}
  /\ c.kind \in {"hook", "check", "analyze"}
  /\ c.remote \in BOOLEAN /\ (c.kind = "hook" => ~c.remote)
  /\ c.policy = DefaultPolicy \/ c.policy \in Policy
  /\ IsEntries(c.entries)
  /\ c.files \subseteq File /\ c.todo \subseteq c.files
  /\ c.risks \in [c.files \ c.todo -> Risk]
  /\ c.fd \in {"none", "tmp", "final", "lost"}

TypeOK ==
  /\ DOMAIN run = Run /\ \A r \in Run : IsRun(run[r])
  /\ IsCacheFile(final) /\ IsCacheFile(tmp)
  /\ shared \subseteq Run

Init ==
  /\ run = [r \in Run |-> Gone("new")]
  /\ final = NoFile /\ tmp = NoFile
  /\ shared = {}

Goto(r, pc) == run' = [run EXCEPT ![r].pc = pc]
End(r, outcome) == run' = [run EXCEPT ![r] = Gone(outcome)]
FilesUnchanged == UNCHANGED <<final, tmp, shared>>

-----------------------------------------------------------------------------
(* runHookTrigger, runRiskCheck, runRiskAnalyze.  A hook has no remote      *)
(* classifier.                                                              *)

(* NewRiskAnalyzer: the policy, and the cache, an unreadable one as empty.  *)
NewRiskAnalyzer(r, file) ==
  [Gone("collect") EXCEPT !.policy = LoadPolicy(file), !.entries = final.entries]

(* An error before there is anything to assess: the hook prewarms the       *)
(* branch all the same, the commands fail.                                  *)
Skip(r, kind) == End(r, IF kind = "hook" THEN "passed" ELSE "stopped")

Start(r, kind, remote) ==
  /\ run[r].pc = "new"
  /\ kind = "hook" => ~remote
  /\ \/ \E file \in PolicyFiles :
          run' = [run EXCEPT ![r] = [NewRiskAnalyzer(r, file) EXCEPT !.kind = kind, !.remote = remote]]
     \/ Skip(r, kind)
  /\ FilesUnchanged

(* changedMigrationFiles; analyze takes the file it is given.               *)
Collect(r) ==
  /\ run[r].pc = "collect"
  /\ \/ \E files \in IF run[r].kind = "analyze" THEN {{f} : f \in File} ELSE Pending :
          run' = [run EXCEPT ![r].files = files, ![r].todo = files, ![r].pc = "assess"]
     \/ Skip(r, run[r].kind)
  /\ FilesUnchanged

Adding(f, x, value) == [y \in DOMAIN f \cup {x} |-> IF y = x THEN value ELSE f[y]]

(* A result, in the report and, where it is new, in the cache.              *)
Take(r, f, risk, entries, pc) ==
  run' = [run EXCEPT ![r].risks = Adding(@, f, risk), ![r].todo = @ \ {f},
                     ![r].entries = entries, ![r].pc = pc]

Assessing(r, f) ==
  run[r].pc = "assess" /\ f \in run[r].todo /\ \A g \in run[r].todo : f <= g
Excluded(r, f)  == f \in run[r].policy.excluded

ExcludePath(r, f) ==
  /\ Assessing(r, f) /\ Excluded(r, f)
  /\ Take(r, f, ExcludedRisk, run[r].entries, "assess")
  /\ FilesUnchanged

(* The cache is asked before the policy's patterns are looked at.           *)
HitCache(r, f) ==
  /\ Assessing(r, f) /\ ~Excluded(r, f)
  /\ \E metas \in IntrospectTables(Text[f]) :
       LET key == ComputeCacheKey(Text[f], FormatSchemaSignature(metas))
           entries == run[r].entries IN
       /\ key \in DOMAIN entries
       /\ Take(r, f, [entries[key] EXCEPT !.cached = TRUE], entries, "assess")
  /\ FilesUnchanged

(* The classifier's answer; the heuristics' where the remote one fails and  *)
(* the policy does not block then.                                          *)
Answers(r, sql, schema) ==
  IF run[r].remote
  THEN JevClassify \cup (IF run[r].policy.jev = "block" THEN {} ELSE {HeuristicClassify(sql, schema)})
  ELSE {HeuristicClassify(sql, schema)}

AnalyzeSQL(r, f) ==
  /\ Assessing(r, f) /\ ~Excluded(r, f)
  /\ \E metas \in IntrospectTables(Text[f]) :
       LET schema == FormatSchemaSignature(metas)
           key == ComputeCacheKey(Text[f], schema)
           entries == run[r].entries IN
       /\ key \notin DOMAIN entries
       /\ \E result \in Answers(r, Text[f], schema) :
            LET risk == Assessment(run[r].policy, Text[f], schema, result) IN
            Take(r, f, risk, Adding(entries, key, risk), "open")
  /\ FilesUnchanged

JevUnavailable(r, f) ==
  /\ Assessing(r, f) /\ ~Excluded(r, f)
  /\ run[r].remote /\ run[r].policy.jev = "block"
  /\ \E metas \in IntrospectTables(Text[f]) :
       ComputeCacheKey(Text[f], FormatSchemaSignature(metas)) \notin DOMAIN run[r].entries
  /\ Take(r, f, JevUnavailableRisk, run[r].entries, "assess")
  /\ FilesUnchanged

(* Mutant of ReadFails: a migration that cannot be read is passed over.     *)
ReadPassedOver(r) ==
  /\ run[r].pc = "assess"
  /\ \E f \in run[r].todo : Assessing(r, f) /\ run' = [run EXCEPT ![r].todo = @ \ {f}]
  /\ FilesUnchanged

(* A migration that cannot be read stops every kind of call.                *)
ReadFails(r) ==
  /\ run[r].pc = "assess" /\ run[r].todo # {}
  /\ End(r, "stopped")
  /\ FilesUnchanged

-----------------------------------------------------------------------------
(* persist: the whole cache goes to the temporary file, which takes the     *)
(* cache file's place.  Its errors are ignored.                             *)

HasFile(r) == {other \in Run \ {r} : run[other].pc \in Persisting}

(* Mutant of OpenTmp: the cache file is written in place.                   *)
OpenFinal(r) ==
  /\ run[r].pc = "open"
  /\ run' = [run EXCEPT ![r].pc = "write", ![r].fd = "final"]
  /\ final' = Empty
  /\ shared' = IF HasFile(r) = {} THEN shared \ {r} ELSE shared \cup HasFile(r) \cup {r}
  /\ UNCHANGED tmp

(* os.WriteFile opens with O_TRUNC, whoever else is at it ...               *)
OpenTmp(r) ==
  /\ run[r].pc = "open"
  /\ \/ /\ run' = [run EXCEPT ![r].pc = "write", ![r].fd = "tmp"]
        /\ tmp' = Empty
        /\ shared' = IF HasFile(r) = {} THEN shared \ {r} ELSE shared \cup HasFile(r) \cup {r}
     \/ Goto(r, "assess") /\ UNCHANGED <<tmp, shared>>
  /\ UNCHANGED final

(* ... and writes from the start of a file that may hold data by now.       *)
Written(old, entries) == IF old.state = "empty" THEN {Whole(entries)} ELSE {Whole(entries), Torn}

WriteData(r) ==
  /\ run[r].pc = "write"
  /\ \E failed \in BOOLEAN :
       /\ run' = [run EXCEPT ![r].pc = IF failed THEN "assess" ELSE "rename", ![r].fd = "none"]
       /\ \/ /\ run[r].fd = "tmp" /\ UNCHANGED final
             /\ tmp' \in IF failed THEN {Torn} ELSE Written(tmp, run[r].entries)
          \/ /\ run[r].fd = "final" /\ UNCHANGED tmp
             /\ final' \in IF failed THEN {Torn} ELSE Written(final, run[r].entries)
          \/ run[r].fd = "lost" /\ UNCHANGED <<final, tmp>>
  /\ UNCHANGED shared

(* The descriptors of the others follow the file, or hold one without name. *)
Descriptors(moved) ==
  [r \in Run |-> [run[r] EXCEPT !.fd = IF @ \in DOMAIN moved THEN moved[@] ELSE @]]

Rename(r) ==
  /\ run[r].pc = "rename"
  /\ \/ /\ tmp # NoFile
        /\ final' = tmp /\ tmp' = NoFile
        /\ run' = [Descriptors([tmp |-> "final", final |-> "lost"]) EXCEPT ![r].pc = "assess"]
     \/ Goto(r, "remove") /\ UNCHANGED <<final, tmp>>
  /\ UNCHANGED shared

(* After a rename that failed: the temporary file, whoever's it is by now.  *)
RemoveTmp(r) ==
  /\ run[r].pc = "remove"
  /\ tmp' = NoFile
  /\ run' = [Descriptors([tmp |-> "lost"]) EXCEPT ![r].pc = "assess"]
  /\ UNCHANGED <<final, shared>>

-----------------------------------------------------------------------------
(* The decision.  A hook stops at what is blocked or to be confirmed; a     *)
(* check passes that with --force, and what is to be confirmed with a yes   *)
(* at a terminal.                                                           *)
Decide(r) ==
  LET c == run[r]
      blocked == Blocked(c.policy, c.risks)
      confirm == RequiresConfirm(c.policy, c.risks) IN
  /\ c.pc = "assess" /\ c.todo = {}
  /\ \/ c.kind # "analyze" /\ ~blocked /\ ~confirm /\ End(r, "passed")
     \/ c.kind = "check" /\ (blocked \/ confirm) /\ End(r, "forced")
     \/ c.kind = "check" /\ ~blocked /\ confirm /\ End(r, "confirmed")
     \/ (c.kind = "analyze" \/ blocked \/ confirm) /\ End(r, "stopped")
  /\ FilesUnchanged

(* The process is killed, or the hook's shell goes away.                    *)
Die(r) ==
  /\ run[r].pc \notin Ended \cup {"new"}
  /\ End(r, "stopped")
  /\ FilesUnchanged

Step(r) ==
  \/ \E kind \in {"hook", "check", "analyze"}, remote \in BOOLEAN : Start(r, kind, remote)
  \/ Collect(r)
  \/ \E f \in File : ExcludePath(r, f) \/ HitCache(r, f) \/ AnalyzeSQL(r, f) \/ JevUnavailable(r, f)
  \/ ReadFails(r)
  \/ OpenTmp(r) \/ WriteData(r) \/ Rename(r) \/ RemoveTmp(r)
  \/ Decide(r) \/ Die(r)

Next == \E r \in Run : Step(r)

Spec == Init /\ [][Next]_vars

-----------------------------------------------------------------------------
(* The least level a migration is worth, whatever a classifier says.        *)
Floor(sql, risk) ==
  IF risk.critical THEN Critical
  ELSE IF SomeStatement(sql, LAMBDA s :
            Unclassified(s) \/ (DropsColumn(s) /\ NoColumnsKnown(s, risk.schema)))
  THEN High ELSE Unknown

(* A call that lets a branch be prewarmed (main.go:897) or a job go on      *)
(* (risk.go:337) without --force has assessed every migration it collected  *)
(* that its policy does not exclude.  Each has at least the level that      *)
(* unclassified statements, columns dropped without metadata and the        *)
(* always-critical patterns demand - of its own policy, unless the result   *)
(* was cached under an earlier one - whoever classified it, in whichever    *)
(* call; and its own policy blocks none, nor has any confirmed that the     *)
(* user has not.  Excepted is the hook whose policy or list of migrations   *)
(* cannot be had.                                                           *)
PassedWasAssessed ==
  [][\A r \in Run : LET c == run[r] IN
       c.pc \notin Ended /\ run'[r].pc \in {"passed", "confirmed"} =>
         \/ c.kind = "hook" /\ c.pc \in {"new", "collect"}
         \/ \A f \in c.files \ c.policy.excluded :
              /\ f \in DOMAIN c.risks
              /\ LET risk == c.risks[f] IN
                 /\ risk.level >= Floor(Text[f], risk)
                 /\ MatchesAlwaysCritical(c.policy, Text[f]) => risk.level = Critical \/ risk.cached
                 /\ Evaluate(c.policy, risk) # "block"
                 /\ Evaluate(c.policy, risk) = "confirm" => run'[r].pc = "confirmed"]_vars

(* The cache file (cache.go:105) becomes unreadable, and the next call      *)
(* begins without results, only by a step of a call that was at the         *)
(* temporary file while another was: not by a crash, a full disk or a       *)
(* rename that fails, at any moment.                                        *)
TornOnlyByOverlap ==
  [][final' # final /\ final' \in Unreadable =>
       \E r \in shared : run[r].pc \in Persisting /\ run'[r] # run[r]]_vars
=============================================================================
