CONSTANTS
  Run = {r1, r2}
  File = {1, 2, 3}
  Pending <- MCPending
  Sql <- MCSql
  Text <- MCText
  Statements <- MCStatements
  Blank = {}
  Table = {"users"}
  Column = {"email"}
  NoTable = "none"
  NoColumn = "none"
  Rule = {"REFRESH"}
  DefaultRules = {}
  PolicyFiles <- MCPolicyFiles
  Metas <- MCMetas
  Absent = absent
  JevAnswers <- MCJevAnswers
  Engine = "postgres"
SPECIFICATION Spec
INVARIANT TypeOK
PROPERTIES PassedWasAssessed TornOnlyByOverlap
SYMMETRY Symmetry
CHECK_DEADLOCK FALSE
