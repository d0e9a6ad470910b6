--------------------------- MODULE MCSqliteDriver ---------------------------
(* Instances of SqliteDriver for TLC: two goroutines of one process and one  *)
(* of another.                                                               *)
EXTENDS SqliteDriver

MCProcessOf == [t \in {"t1", "t2", "t3"} |-> IF t = "t3" THEN "cli" ELSE "proxy"]
=============================================================================
