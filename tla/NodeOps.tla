------------------------------ MODULE NodeOps ------------------------------
(* The life of a node: its processes (NodeProcess) with the import at their
   start (ConfigImport) and the monitor they run (QuotaMonitor), upgraded
   (BinaryUpgrade), stopped, killed and started again.  The administrator gives
   one command at a time; processes run on meanwhile.  A node may be set up
   from the phrases of another one before its first command (SyncPhrase). *)
EXTENDS NodeProcess, QuotaMonitor, SyncPhrase

CONSTANTS
  MaxLoad,    \* bound: commands (two each), polls and imports of phrases (one each,
              \* and two more for the first import)
  MaxTrouble  \* bound: faults and crashes

ASSUME BoundAssumption == MaxLoad \in Nat /\ MaxTrouble \in Nat

VARIABLES
  watched,  \* the process whose monitor is modelled
  load,
  trouble

boundVars == <<load, trouble>>
vars == <<procVars, filesVars, importVars, monitorVars, watched, syncVars, boundVars>>

TypeOK ==
  /\ ProcTypeOK /\ FilesTypeOK /\ ImportTypeOK /\ MonitorTypeOK /\ SyncTypeOK
  /\ watched \in Pids \cup {NoPid}
  /\ load \in 0 .. MaxLoad /\ trouble \in 0 .. MaxTrouble

Init ==
  /\ ProcInit /\ FilesInit /\ ImportInit /\ MonitorInit /\ SyncInit
  /\ watched = NoPid
  /\ load = 0 /\ trouble = 0

Load(n) == load + n <= MaxLoad /\ load' = load + n /\ UNCHANGED trouble
Command == Load(2)
Fault == trouble < MaxTrouble /\ trouble' = trouble + 1 /\ UNCHANGED load
Free == UNCHANGED boundVars

Watching == watched # NoPid /\ proc[watched] \in Alive
Up == \E p \in Pids : proc[p] = "up"

(* pproxy-server: the import runs while its process is at it; the end of the
   process cuts it short. *)
Importing == main # NoPid /\ proc[main] = "import"
CutImport == import' = "no" /\ UNCHANGED <<importStore, parsed>>
ImportKept == IF main' = main THEN UNCHANGED importVars ELSE CutImport

(* Nothing but processes changes. *)
ProcOnly(A) == A /\ ImportKept /\ UNCHANGED <<filesVars, monitorVars, watched>>

(* A process reaches its services: it spawns a monitor of its own.  Of two
   that have come so far, the second ends at the admin port. *)
Monitored(p) ==
  IF Watching THEN UNCHANGED <<monitorVars, watched>>
  ELSE watched' = p /\ MonitorFresh /\ UNCHANGED monitorStore

Commands ==
  /\ Command
  /\ cmd = "no" /\ upgrade.at = "no" /\ ~Unchecked
  /\ \/ ProcOnly(serve) \/ ProcOnly(start) \/ ProcOnly(stop) \/ ProcOnly(join)
     \/ /\ UpgradeBegin
        /\ UNCHANGED <<procVars, importVars, monitorVars, watched>>

Api ==
  /\ Up /\ Command
  /\ UNCHANGED <<procVars, filesVars, watched>>
  /\ \/ (RouteDeleted \/ RouteCreated) /\ UNCHANGED monitorVars
     \/ (\E id \in 1 .. Len(alerts) : mark_alert_read(id)) /\ UNCHANGED importVars

Serve ==
  \E p \in Pids :
    \/ ProcOnly(ServeLock(p) \/ ServeAdmin(p) \/ ServeProbe(p) \/ ServeSpawn(p)
                \/ ServeBind(p) \/ ForwarderBind(p) \/ Dies(p))
    \/ ServeStart(p) /\ Monitored(p) /\ UNCHANGED <<filesVars, importVars>>

Server ==
  \/ \E p \in Pids :
       \/ /\ ServerBind(p) /\ CutImport
          /\ Monitored(p) /\ UNCHANGED filesVars
       \/ ProcOnly(ServerAdmin(p) \/ ServerFails(p))
  \/ /\ Importing /\ ImportNext
     /\ UNCHANGED <<procVars, filesVars, monitorVars, watched>>
  \/ ProcOnly(UnitRespawn)

Stop == ProcOnly(StopKill \/ StopRemove \/ StopUnit \/ StopList \/ StopOrphans)

Upgrade ==
  \/ /\ FetchFails \/ UpToDate \/ Fetched \/ Backup \/ WriteTmp \/ Rename
        \/ RenameFails \/ RestoreOpens \/ Restore
     /\ UNCHANGED <<procVars, importVars, monitorVars, watched>>
  \/ /\ RestartUnit \/ RestartDaemonKill \/ RestartDaemonSpawn
        \/ RestartDaemonGivesUp \/ NotRestarted \/ Refused
     /\ ImportKept /\ UNCHANGED <<monitorVars, watched>>

Monitor ==
  /\ Watching
  /\ UNCHANGED <<procVars, filesVars, importVars, watched>>
  /\ \/ Free /\ (Collect \/ CollectFails \/ Persist \/ InsertAlert
                 \/ CollectVercel \/ PersistVercel \/ Prune \/ Post)
     \/ Load(1) /\ TickBegin
     \/ Fault /\ (PersistFails \/ InsertAlertFails)

Faults ==
  /\ Fault
  /\ \/ \E p \in Pids : ProcOnly(ServeSpawnFails(p) \/ Crash(p))
     \/ ProcOnly(StopUnitFails)
     \/ /\ Importing /\ (BackupTorn \/ ImportFails)
        /\ UNCHANGED <<procVars, filesVars, monitorVars, watched>>
     \/ /\ BackupCutShort \/ WriteTmpFails \/ RestoreFails
        /\ UNCHANGED <<procVars, importVars, monitorVars, watched>>
     \/ /\ UpgradeKilled
        /\ cmd' = IF cmd \in Stopping THEN cmd ELSE "no"
        /\ UNCHANGED <<proc, bound, lockVars, pidFiles, exec, unitVars, foreign,
                       listed, victims, fwdLost, importVars, monitorVars, watched>>

(* No node command has been given. *)
Untouched == cmd = "no" /\ upgrade.at = "no" /\ \A p \in Pids : proc[p] = "unused"

(* Imports of phrases end what they have begun next to anything else. *)
Sync ==
  /\ UNCHANGED <<procVars, filesVars, monitorVars, watched>>
  /\ \/ /\ UNCHANGED importVars
        /\ \/ /\ Load(IF Exported = {} THEN 3 ELSE 1) /\ Untouched
              /\ \E i \in Importers, p \in Phrases : SyncBegin(i, p)
           \/ Free /\ \/ Time
                      \/ \E i \in Importers : \/ SyncRefused(i) \/ SyncOpen(i)
                                              \/ check_and_record_nonce(i)
                                              \/ SyncSave(i)
           \/ Fault /\ \E i \in Importers : NoncesUnread(i) \/ RecordFails(i) \/ SyncFails(i)
     \/ Free /\ \E i \in Importers : SyncRoutes(i)

Node ==
  \/ Commands \/ Api \/ Monitor \/ Faults
  \/ Free /\ (Serve \/ Server \/ Stop \/ Upgrade)

Next == Sync \/ (Node /\ UNCHANGED syncVars)

Spec == Init /\ [][Next]_vars
=============================================================================
