---------------------------- MODULE ConfigImport ----------------------------
(* The import of an old configuration's routes into the database when the
   server starts (core/src/store/migrate.rs): a copy of the file is made, the
   valid routes are inserted in one transaction, and the file is rewritten
   without them.  The steps are separate, each may fail and the process may
   end between them. *)
EXTENDS FiniteSets

CONSTANTS
  Legacy,   \* routes of the old configuration file
  Valid,    \* those that pass validate_name and validate_host
  NewRoute  \* a route that is created later through the API

ASSUME LegacyAssumption == Valid \subseteq Legacy /\ NewRoute \notin Legacy

VARIABLES
  cfg,      \* the key "routes" of the configuration file
  bak,      \* config.json.bak
  table,    \* table routes
  import,   \* how far the start has come
  parsed,   \* the routes of the file as the start has read them
  deleted   \* history: routes removed through the API

importStore == <<cfg, bak, table, deleted>>
importVars == <<importStore, import, parsed>>

ImportTypeOK ==
  /\ cfg \subseteq Legacy
  /\ bak \in {"none", "whole", "torn"}
  /\ table \subseteq Legacy \cup {NewRoute}
  /\ import \in {"no", "backup", "insert", "rewrite", "done", "error"}
  /\ parsed \subseteq Legacy

ImportInit ==
  /\ cfg = Legacy
  /\ bak = "none"
  /\ table = {}
  /\ import = "no"
  /\ parsed = {}
  /\ deleted = {}

(* migrate_config_if_needed: a table with rows has been imported before. *)
migrate_config_if_needed ==
  /\ import = "no"
  /\ parsed' = cfg
  /\ import' = IF table # {} \/ cfg = {} THEN "done" ELSE "backup"
  /\ UNCHANGED importStore

(* Seeded fault: the file is rewritten before the transaction. *)
backup_and_rewrite ==
  /\ import = "backup"
  /\ bak' = IF bak = "none" THEN "whole" ELSE bak
  /\ cfg' = {}
  /\ import' = "insert"
  /\ UNCHANGED <<table, deleted, parsed>>

(* backup_config never overwrites; a write may be cut short by the end of
   the process or an error (torn). *)
backup_config ==
  /\ import = "backup"
  /\ bak' = IF bak = "none" THEN "whole" ELSE bak
  /\ import' = "insert"
  /\ UNCHANGED <<cfg, table, deleted, parsed>>

BackupTorn ==
  /\ import = "backup"
  /\ bak = "none"
  /\ bak' = "torn"
  /\ import' = "error"
  /\ UNCHANGED <<cfg, table, deleted, parsed>>

(* import_routes: one transaction; rows that are not valid are skipped. *)
import_routes ==
  /\ import = "insert"
  /\ table' = table \cup (parsed \cap Valid)
  /\ import' = "rewrite"
  /\ UNCHANGED <<cfg, bak, deleted, parsed>>

(* rewrite_config: a temporary file, then rename. *)
rewrite_config ==
  /\ import = "rewrite"
  /\ cfg' = {}
  /\ import' = "done"
  /\ UNCHANGED <<bak, table, deleted, parsed>>

(* Any step may fail; the error ends the start. *)
ImportFails ==
  /\ import \in {"insert", "rewrite"}
  /\ import' = "error"
  /\ UNCHANGED <<importStore, parsed>>

ImportNext ==
  \/ migrate_config_if_needed \/ backup_config \/ import_routes
  \/ rewrite_config

(* Routes are deleted and created through the API of a running server. *)
RouteDeleted ==
  /\ \E r \in table : /\ table' = table \ {r}
                      /\ deleted' = deleted \cup {r}
  /\ UNCHANGED <<cfg, bak, import, parsed>>

RouteCreated ==
  /\ NewRoute \notin table
  /\ table' = table \cup {NewRoute}
  /\ UNCHANGED <<cfg, bak, deleted, import, parsed>>

-----------------------------------------------------------------------------
(* No start, wherever it is cut short or fails, loses a valid route of the
   old configuration: it is in the file, in the table, or somebody deleted
   it. *)
LegacyNeverLost == Valid \subseteq cfg \cup table \cup deleted
=============================================================================
