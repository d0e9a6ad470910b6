---------------------------- MODULE StoreState ----------------------------
(***************************************************************************)
(* The databases of the server, and the statements it still runs for        *)
(* callers that have given up: what the contract of the driver interface    *)
(* (BranchStore), a driver that keeps it (PostgresDriver) and a command     *)
(* that relies on it (Prune) have in common.                                *)
(***************************************************************************)
CONSTANTS
  Proc,   \* callers: proxy handlers, hook, switch, TUI, prune
  Name,   \* sanitized branch names, which identify the databases
  Base    \* the default branch: its database is the base database

VARIABLES
  databases,  \* the branches that have a database
  late        \* CREATE and DROP statements whose caller has given up
=============================================================================
