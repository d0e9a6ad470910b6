---------------------------- MODULE MCRiskGate ----------------------------
(* An instance of RiskGate for TLC: a dropped column, which the catalog may  *)
(* show to be referenced, a statement outside the parser and a safe one in a *)
(* directory that one policy excludes.                                       *)
EXTENDS RiskGate

MCSql  == {"drop_email", "refresh"}
MCText == [f \in 1..3 |-> IF f = 1 THEN "drop_email" ELSE "refresh"]
MCPending == {{1, 2}, {3}}

Plain == [matches |-> {}, table |-> "none", column |-> "none", dml |-> FALSE,
          safe |-> TRUE, cascade |-> FALSE, rules |-> {}]
MCStatements == [s \in MCSql |->
  CASE s = "drop_email" -> <<[Plain EXCEPT !.matches = {"DROP_COLUMN"}, !.table = "users", !.column = "email"]>>
    [] OTHER -> <<[Plain EXCEPT !.rules = {"REFRESH"}]>>]

(* An empty one; one that blocks what is high, has what is critical confirmed, *)
(* asks for the remote classifier, and excludes a file.                        *)
MCPolicyFiles == {[x \in {} |-> {}],
  [onRisk |-> (3 :> "block" @@ 4 :> "confirm"), jev |-> "block", always |-> {"REFRESH"},
   excluded |-> {3}]}
MCMetas == {[columns |-> FALSE, fks |-> {}], [columns |-> TRUE, fks |-> {"email"}]}
MCJevAnswers == {[level |-> Low, confidence |-> 50]}
Symmetry == Permutations(Run)
=============================================================================
