---------------------------- MODULE NodeProcess ----------------------------
(* The processes of a node and the commands that start, stop and restart
   them.  `pproxy-server` (server/src/main.rs) is run by systemd; `pproxy
   serve` (cli/src/cmd/serve.rs) by hand or, as scripts/install.sh sets it up,
   by a unit too: it locks a file and, if the node has peers, leaves the public
   port to a forwarder, a process of its own.  `pproxy stop`
   (cli/src/cmd/service.rs) finds processes by the lock file, by the unit and
   by name; `pproxy cluster upgrade` (cli/src/cmd/cluster.rs) restarts the
   unit or the process whose identifier is in a file.

   A process never gets the identifier of an earlier one.  SIGTERM ends a
   process at once: serve only handles SIGINT.  When the unit's process ends,
   systemd ends what it has spawned and, after a while, starts it again. *)
EXTENDS BinaryUpgrade, ConfigImport, FiniteSetsExt

CONSTANTS
  MaxPid,    \* bound: processes in a behaviour
  HasPeers,  \* whether the node knows other nodes
  Units,     \* what the node's unit may run: "server", "serve", or "absent"
  NoPid

VARIABLES
  proc,     \* process -> stage
  bound,    \* process -> the data port its engine listens on
  inode,    \* process -> the lock file it has opened
  lock,     \* the lock file: its inode and the process written in it
  inodes,   \* inodes of lock files so far
  pidFile,  \* pproxy-serve.pid
  fwdFile,  \* ha-forwarder.pid
  exec,     \* what the unit runs, "absent" if there is none
  unit,     \* the state of the unit
  main,     \* the unit's process
  cgroup,   \* the unit's process and the forwarder it has spawned
  cmd,      \* step of the command `pproxy stop` or of a restart
  foreign,  \* what belongs to another user than the one who runs stop
  listed,   \* the processes pgrep has named
  victims,  \* history: what ran when the last stop began and it may signal
  fwdLost   \* history: an engine may be without its forwarder

lockVars == <<inode, lock, inodes>>
pidFiles == <<pidFile, fwdFile>>
unitVars == <<unit, main, cgroup>>
stopVars == <<cmd, foreign, listed, victims>>
procVars == <<proc, bound, lockVars, pidFiles, exec, unitVars, stopVars, fwdLost>>

Pids == 1 .. MaxPid

ASSUME ProcAssumption ==
  /\ MaxPid \in Nat /\ NoPid \notin Pids
  /\ HasPeers \in BOOLEAN /\ Units \subseteq {"absent", "server", "serve"}

Forwarders == {"fwdnew", "fwd"}
Engines == {"open", "locked", "started", "admin", "spawn", "bind", "import", "data", "up", "dying"}
Alive == Engines \cup Forwarders
Holding == Engines \ {"open", "import", "data"}
Stopping == {"kill", "remove", "unit", "list", "orphans"}

ProcTypeOK ==
  /\ proc \in [Pids -> {"unused", "gone"} \cup Alive]
  /\ bound \in [Pids -> {"none", "public", "inner"}]
  /\ inode \in [Pids -> Nat] /\ inodes \in Nat
  /\ lock \in [ino : Nat, pid : Pids \cup {NoPid}]
  /\ {pidFile, fwdFile, main} \subseteq Pids \cup {NoPid}
  /\ exec \in Units /\ unit \in {"absent", "off", "on", "wait"}
  /\ cmd \in {"no", "wait", "respawn"} \cup Stopping
  /\ foreign \in {"none", "unit", "hand"}
  /\ cgroup \subseteq Pids /\ listed \subseteq Pids /\ victims \subseteq Pids
  /\ fwdLost \in BOOLEAN

ProcInit ==
  /\ proc = [p \in Pids |-> "unused"]
  /\ bound = [p \in Pids |-> "none"]
  /\ inode = [p \in Pids |-> 0]
  /\ lock = [ino |-> 0, pid |-> NoPid]
  /\ inodes = 0
  /\ pidFile = NoPid /\ fwdFile = NoPid
  /\ exec \in Units
  /\ unit = IF exec = "absent" THEN "absent" ELSE "off"
  /\ main = NoPid /\ cgroup = {}
  /\ cmd = "no" /\ foreign = "none"
  /\ listed = {} /\ victims = {}
  /\ fwdLost = FALSE

-----------------------------------------------------------------------------
(* Ports.  The forwarder listens on the public port; an engine on the public
   one or, behind a forwarder, on the inner one. *)
EngineOn(port, but) == \E q \in Pids \ {but} : proc[q] \in Alive /\ bound[q] = port
PublicTaken(but) ==
  EngineOn("public", but) \/ \E q \in Pids \ {but} : proc[q] = "fwd"
InnerTaken(but) == EngineOn("inner", but)
AdminTaken(but) ==
  \E q \in Pids \ {but} : proc[q] \in {"admin", "spawn", "bind", "up", "dying"}

Unused == {p \in Pids : proc[p] = "unused"}
Fresh == Min(Unused)

(* A process goes on. *)
Step(p, stage) == proc' = [proc EXCEPT ![p] = stage] /\ UNCHANGED unitVars

(* Processes end, by a signal or by themselves.  With the unit's process goes
   what it has spawned, and the unit waits for its restart. *)
Group(ps) == IF main \in ps THEN ps \cup cgroup ELSE ps

Ends(ps) ==
  /\ proc' = [p \in Pids |-> IF p \in Group(ps) THEN "gone" ELSE proc[p]]
  /\ bound' = [p \in Pids |-> IF p \in Group(ps) THEN "none" ELSE bound[p]]
  /\ unit' = IF main \in ps THEN "wait" ELSE unit
  /\ main' = IF main \in ps THEN NoPid ELSE main
  /\ cgroup' = cgroup \ Group(ps)

-----------------------------------------------------------------------------
(* `pproxy serve`: the lock file is opened, which empties it, before the lock
   is tried. *)
Opens(p) ==
  LET n == IF lock.ino = 0 THEN inodes + 1 ELSE lock.ino IN
  /\ inode' = [inode EXCEPT ![p] = n]
  /\ inodes' = IF lock.ino = 0 THEN n ELSE inodes
  /\ lock' = [ino |-> n, pid |-> NoPid]

serve ==
  /\ Unused # {}
  /\ Step(Fresh, "open") /\ Opens(Fresh)
  /\ UNCHANGED <<bound, pidFiles, exec, stopVars, fwdLost>>

(* `pproxy cluster join` starts it as a daemon and writes its identifier. *)
join ==
  /\ Unused # {}
  /\ Step(Fresh, "open") /\ Opens(Fresh)
  /\ pidFile' = Fresh
  /\ UNCHANGED <<bound, fwdFile, exec, stopVars, fwdLost>>

(* try_lock_exclusive, and the identifier is written into the file that was
   opened, whether or not it is still the one under that name. *)
ServeLock(p) ==
  /\ proc[p] = "open"
  /\ IF \E q \in Pids \ {p} : proc[q] \in Holding /\ inode[q] = inode[p]
     THEN Ends({p}) /\ lock' = lock
     ELSE /\ Step(p, "locked") /\ bound' = bound
          /\ lock' = IF lock.ino = inode[p] THEN [lock EXCEPT !.pid = p] ELSE lock
  /\ UNCHANGED <<inode, inodes, pidFiles, exec, stopVars, fwdLost>>

(* The store, the configuration with its admin token, the services and the
   monitor; then the admin port, without which it ends. *)
ServeStart(p) ==
  /\ proc[p] = "locked"
  /\ Step(p, "started")
  /\ UNCHANGED <<bound, lockVars, pidFiles, exec, stopVars, fwdLost>>

ServeAdmin(p) ==
  /\ proc[p] = "started"
  /\ IF AdminTaken(p) THEN Ends({p}) ELSE Step(p, "admin") /\ bound' = bound
  /\ UNCHANGED <<lockVars, pidFiles, exec, stopVars, fwdLost>>

(* The public port is probed; a forwarder left by an earlier serve is found
   by its file and its command line and killed. *)
ServeProbe(p) ==
  LET left == {q \in Pids \ {p} : HasPeers /\ PublicTaken(p) /\ q = fwdFile
                                    /\ proc[q] \in Forwarders} IN
  /\ proc[p] = "admin"
  /\ proc' = [q \in Pids |-> CASE q = p -> IF HasPeers THEN "spawn" ELSE "bind"
                               [] q \in left -> "gone"
                               [] OTHER -> proc[q]]
  /\ cgroup' = cgroup \ left
  /\ UNCHANGED <<bound, lockVars, pidFiles, exec, unit, main, stopVars, fwdLost>>

(* Probed again: if it is free a forwarder is spawned and its identifier
   written, and the engine takes the inner port; if it is not, or the
   forwarder cannot be spawned, the engine takes the address it was given. *)
ServeSpawn(p) ==
  /\ proc[p] = "spawn"
  /\ Unused # {}
  /\ IF PublicTaken(p)
     THEN Step(p, "bind") /\ UNCHANGED <<bound, fwdFile>>
     ELSE /\ proc' = [proc EXCEPT ![p] = "bind", ![Fresh] = "fwdnew"]
          /\ bound' = [bound EXCEPT ![p] = "inner"]
          /\ fwdFile' = Fresh
          /\ cgroup' = IF p \in cgroup THEN cgroup \cup {Fresh} ELSE cgroup
          /\ UNCHANGED <<unit, main>>
  /\ UNCHANGED <<lockVars, pidFile, exec, stopVars, fwdLost>>

(* Seeded fault: the engine takes the inner port whatever became of the
   forwarder. *)
ServeSpawnFailsInner(p) ==
  /\ proc[p] = "spawn"
  /\ Step(p, "bind")
  /\ bound' = [bound EXCEPT ![p] = "inner"]
  /\ UNCHANGED <<lockVars, pidFiles, exec, stopVars, fwdLost>>

ServeSpawnFails(p) ==
  /\ proc[p] = "spawn"
  /\ Step(p, "bind")
  /\ UNCHANGED <<bound, lockVars, pidFiles, exec, stopVars, fwdLost>>

(* run_engine binds its port or ends with an error. *)
ServeBind(p) ==
  LET port == IF bound[p] = "inner" THEN "inner" ELSE "public" IN
  /\ proc[p] = "bind"
  /\ IF (IF port = "inner" THEN InnerTaken(p) ELSE PublicTaken(p))
     THEN Ends({p})
     ELSE Step(p, "up") /\ bound' = [bound EXCEPT ![p] = port]
  /\ UNCHANGED <<lockVars, pidFiles, exec, stopVars, fwdLost>>

(* A forwarder that finds the port taken ends, and nobody notices: an engine
   that was started beside its own may have been faster. *)
ForwarderBind(p) ==
  /\ proc[p] = "fwdnew"
  /\ IF PublicTaken(p) THEN Ends({p}) ELSE Step(p, "fwd") /\ bound' = bound
  /\ fwdLost' = (fwdLost \/ EngineOn("public", p))
  /\ UNCHANGED <<lockVars, pidFiles, exec, stopVars>>

-----------------------------------------------------------------------------
(* The unit: systemctl start, and the restart of a process that ended. *)
UnitRuns ==
  /\ Unused # {}
  /\ proc' = [q \in Pids |-> CASE q = Fresh -> IF exec = "serve" THEN "open" ELSE "import"
                               [] q \in cgroup -> "gone"
                               [] OTHER -> proc[q]]
  /\ bound' = [q \in Pids |-> IF q \in cgroup THEN "none" ELSE bound[q]]
  /\ IF exec = "serve" THEN Opens(Fresh) ELSE UNCHANGED lockVars
  /\ unit' = "on" /\ main' = Fresh /\ cgroup' = {Fresh}
  /\ UNCHANGED <<pidFiles, exec, stopVars, fwdLost>>

start == unit = "off" /\ UnitRuns
UnitRespawn == unit = "wait" /\ UnitRuns

(* pproxy-server, once the configuration is imported: services, data port,
   admin port; an error of a bind ends it. *)
ServerBind(p) ==
  /\ proc[p] = "import" /\ import = "done"
  /\ IF PublicTaken(p)
     THEN Ends({p})
     ELSE Step(p, "data") /\ bound' = [bound EXCEPT ![p] = "public"]
  /\ UNCHANGED <<lockVars, pidFiles, exec, stopVars, fwdLost>>

ServerAdmin(p) ==
  /\ proc[p] = "data"
  /\ IF AdminTaken(p) THEN Ends({p}) ELSE Step(p, "up") /\ bound' = bound
  /\ UNCHANGED <<lockVars, pidFiles, exec, stopVars, fwdLost>>

(* An error of the import ends the start; the unit tries again. *)
ServerFails(p) ==
  /\ proc[p] = "import" /\ import = "error"
  /\ Ends({p})
  /\ UNCHANGED <<lockVars, pidFiles, exec, stopVars, fwdLost>>

-----------------------------------------------------------------------------
(* A process ends by itself. *)
Crash(p) ==
  /\ proc[p] \in Alive
  /\ Ends({p})
  /\ fwdLost' = (fwdLost \/ proc[p] \in Forwarders)
  /\ UNCHANGED <<lockVars, pidFiles, exec, stopVars>>

(* A process that was sent SIGTERM and has not been waited for. *)
Dies(p) ==
  /\ proc[p] = "dying"
  /\ Ends({p})
  /\ UNCHANGED <<lockVars, pidFiles, exec, stopVars, fwdLost>>

-----------------------------------------------------------------------------
(* `pproxy stop`: the process in the lock file is killed and waited for, the
   file removed; then the unit if it is active; then everything pgrep names.
   Another user's processes cannot be signalled, not even asked whether they
   are alive, nor can another user's unit be seen. *)
Of(f) == CASE f = "none" -> {} [] f = "unit" -> cgroup [] f = "hand" -> Pids \ cgroup
Barred == Of(foreign)

stop ==
  /\ cmd' = "kill"
  /\ \E f \in {"none", "unit", "hand"} :
       /\ foreign' = f
       /\ victims' = {p \in Pids : proc[p] \in Alive} \ Of(f)
  /\ UNCHANGED <<proc, bound, lockVars, pidFiles, exec, unitVars, listed, fwdLost>>

StopKill ==
  /\ cmd = "kill"
  /\ Ends({p \in {lock.pid} \ Barred : p # NoPid /\ proc[p] \in Alive})
  /\ cmd' = "remove"
  /\ UNCHANGED <<lockVars, pidFiles, exec, foreign, listed, victims, fwdLost>>

StopRemove ==
  /\ cmd = "remove"
  /\ lock' = [ino |-> 0, pid |-> NoPid]
  /\ cmd' = "unit"
  /\ UNCHANGED <<proc, bound, inode, inodes, pidFiles, exec, unitVars, foreign,
                 listed, victims, fwdLost>>

(* is-active says "activating" of a unit that waits to be restarted, and
   nothing of another user's. *)
StopUnit ==
  /\ cmd = "unit"
  /\ cmd' = "list"
  /\ IF unit = "on" /\ foreign # "unit"
     THEN /\ proc' = [p \in Pids |-> IF p \in cgroup THEN "gone" ELSE proc[p]]
          /\ bound' = [p \in Pids |-> IF p \in cgroup THEN "none" ELSE bound[p]]
          /\ unit' = "off" /\ main' = NoPid /\ cgroup' = {}
     ELSE UNCHANGED <<proc, bound, unitVars>>
  /\ UNCHANGED <<lockVars, pidFiles, exec, foreign, listed, victims, fwdLost>>

(* systemctl fails, or knows the unit in the other scope only: stop goes on. *)
StopUnitFails ==
  /\ cmd = "unit" /\ unit = "on"
  /\ cmd' = "list"
  /\ UNCHANGED <<proc, bound, lockVars, pidFiles, exec, unitVars, foreign,
                 listed, victims, fwdLost>>

StopList ==
  /\ cmd = "list"
  /\ listed' = {p \in Pids : proc[p] \in Alive}
  /\ cmd' = "orphans"
  /\ UNCHANGED <<proc, bound, lockVars, pidFiles, exec, unitVars, foreign,
                 victims, fwdLost>>

(* An engine that was started after pgrep, or is another user's, may lose
   the forwarder it has found. *)
StopEnds(ps) ==
  /\ cmd = "orphans"
  /\ Ends(ps)
  /\ fwdLost' = (fwdLost \/ /\ \E f \in ps : proc[f] \in Forwarders
                            /\ \E p \in Pids \ Group(ps) : proc[p] \in Engines)
  /\ listed' = {} /\ foreign' = "none" /\ cmd' = "no"
  /\ UNCHANGED <<lockVars, pidFiles, exec, victims>>

(* Seeded fault: the forwarder is not among the processes looked for. *)
StopServersOnly == StopEnds({p \in listed \ Barred : proc[p] \in Engines})

StopOrphans == StopEnds({p \in listed \ Barred : proc[p] \in Alive})

-----------------------------------------------------------------------------
(* restart_service after the replacement: the unit, with a stop and a start in
   one, or the process of pproxy-serve.pid, or nothing. *)
Answer == upgrade' = NoUpgrade /\ UNCHANGED <<target, old, before, torn>>

RestartUnit ==
  /\ upgrade.at = "replaced" /\ upgrade.kind = "cluster"
  /\ cmd = "no" /\ unit # "absent"
  /\ UnitRuns
  /\ Answer

(* Where there is no unit, or systemctl cannot restart it. *)
RestartDaemonKill ==
  /\ upgrade.at = "replaced" /\ upgrade.kind = "cluster"
  /\ cmd = "no"
  /\ pidFile # NoPid
  /\ cmd' = IF proc[pidFile] \in Alive THEN "wait" ELSE "respawn"
  /\ CASE proc[pidFile] = "up" -> Step(pidFile, "dying") /\ bound' = bound
       [] proc[pidFile] \in Engines \ {"up", "dying"} -> Ends({pidFile})
       [] OTHER -> UNCHANGED <<proc, bound, unitVars>>
  /\ UNCHANGED <<lockVars, pidFiles, exec, foreign, listed, victims, fwdLost, filesVars>>

(* wait_port_down looks at the inner port only, and only after a signal.  The
   new process is started from the path of the running executable, which no
   longer exists if that is what was replaced: then there is none. *)
RestartDaemonSpawn ==
  /\ upgrade.at = "replaced"
  /\ cmd = "respawn" \/ (cmd = "wait" /\ ~InnerTaken(0))
  /\ Unused # {}
  /\ IF upgrade.own
     THEN UNCHANGED <<proc, unitVars, lockVars, pidFile>>
     ELSE Step(Fresh, "open") /\ Opens(Fresh) /\ pidFile' = Fresh
  /\ cmd' = "no"
  /\ Answer
  /\ UNCHANGED <<bound, fwdFile, exec, foreign, listed, victims, fwdLost>>

(* The port is still open after 15 s: nothing is started. *)
RestartDaemonGivesUp ==
  /\ cmd = "wait" /\ upgrade.at = "replaced"
  /\ InnerTaken(0)
  /\ cmd' = "no"
  /\ Answer
  /\ UNCHANGED <<proc, bound, lockVars, pidFiles, exec, unitVars, foreign,
                 listed, victims, fwdLost>>

(* Not restarted: --no-restart, `pproxy upgrade`, or nothing to restart. *)
NotRestarted ==
  /\ upgrade.at = "replaced"
  /\ cmd = "no"
  /\ Answer
  /\ UNCHANGED procVars

Refused ==
  /\ upgrade.at = "failed"
  /\ Answer
  /\ UNCHANGED procVars

-----------------------------------------------------------------------------
(* A node whose engine is up can be reached on its public port: by the engine
   itself or through a forwarder, whatever an earlier serve left behind, and
   unless a forwarder is lost, which nothing repairs: it has died on its own,
   an engine run beside it took the port first, or a stop that could not end
   the engine has ended it. *)
UpMeansReachable ==
  \A p \in Pids : proc[p] = "up" /\ ~fwdLost =>
    \/ bound[p] = "public"
    \/ \E f \in Pids : proc[f] \in Forwarders

(* When stop has answered, nothing that ran when it began is left, engine or
   forwarder, by hand or under systemd, in whatever stage it was and went on
   to meanwhile; but for another user's.  What systemd has started since is
   not in it. *)
StopStops ==
  cmd \notin Stopping => \A p \in victims : proc[p] \notin Alive
=============================================================================
