----------------------------- MODULE DesktopProxy -----------------------------
(***************************************************************************)
(* The desktop application as a process (desktop/src-tauri/src/lib.rs,     *)
(* proxy/sysproxy.rs): starting and stopping the system proxy over the     *)
(* user's own settings, leaving and dying, the listener for the local      *)
(* network, a connection (DesktopConn), and the traffic totals.            *)
(*                                                                         *)
(* Registry values, the snapshot file and the statics of lib.rs are        *)
(* written one after another and the process may die between any two.      *)
(* The tray, the mode and whitelist commands and leaving run on the main   *)
(* thread "ui"; the window's enable and disable and the automatic start on *)
(* "bg"; the periodic flush on "tick"; the listener is switched on "lan"   *)
(* and put back at the start on "boot".                                    *)
(***************************************************************************)
EXTENDS DesktopConn

CONSTANTS Hosts,       \* hosts to route
          Requests,    \* whitelists the user may ask for
          Own,         \* settings a user may have
          MaxCommands, \* bound on commands and periodic flushes, over all runs
          MaxTrouble,  \* bound on crashes and failing operations
          MaxBytes     \* bound on the engine's counter in one run

(* Proxy settings: a script, and whether a proxy is enabled. *)
Settings == [pac : {None, "own", "ours"}, enable : BOOLEAN]

ASSUME ProxyAssumption ==
  /\ Hosts \subseteq Seq(STRING)
  /\ Own \subseteq [pac : {None, "own"}, enable : BOOLEAN]
  /\ None # "ours" /\ None \notin Settings /\ None \notin Nat
  /\ MaxCommands \in Nat /\ MaxTrouble \in Nat /\ MaxBytes \in Nat

VARIABLES
  user,      \* the user's own settings
  reg,       \* the registry
  file,      \* sysproxy_snapshot.json
  snap,      \* SNAPSHOT
  on,        \* ENGINE_ON
  phase,     \* of the process
  th,        \* the threads
  lanCfg, lanUp, lanHeld, \* allow_lan_clients; bound; LAN_RUNTIME
  cur, base, total, disk, \* engine counter; TRAFFIC_BASE; TRAFFIC_STATE; its file
  due,       \* history: the total if every byte since the first reading is in
  overtaken, \* history: a reading was merged after a later one
  unsaved,   \* history: the last write or removal of the file failed
  excused,   \* history: two commands on the settings overlapped, or one was cut
             \* off by leaving, or the registry refused to be restored, or the
             \* file had to be read and was unsaved, or could not be read
  commands, trouble

sysVars == <<user, reg, file, unsaved, snap, on, excused>>
lanVars == <<lanCfg, lanUp, lanHeld>>
netVars == <<lanVars, connVars>>
trafficVars == <<cur, base, total, disk, due, overtaken>>
counters == <<commands, trouble>>
vars == <<sysVars, phase, th, ruleVars, netVars, trafficVars, counters>>

Threads == {"ui", "bg", "tick", "lan", "boot"}
Main == {"ui", "bg"}
Idle == [pc |-> "idle", snap |-> None, reading |-> 0]
Down == "down" \* not started, or left
Dead == "dead" \* killed or crashed

Pcs == {"idle", "snapshot", "save", "pac", "enable", "keep", "on",
        "restore", "putEnable", "putPac", "sweep", "clear", "forget",
        "check", "stamp", "flush", "merge", "write",
        "stop", "stopOff", "bind", "store", "cfgOff"}
Whitelists == {{}} \cup {minimal(r) : r \in Requests}

TypeOK ==
  /\ {user, reg} \subseteq Settings
  /\ {file, snap} \subseteq Settings \cup {None}
  /\ on \in BOOLEAN /\ phase \in {Down, Dead, "setup", "up", "exit1", "exit2", "gone"}
  /\ th \in [Threads -> [pc : Pcs, snap : Settings \cup {None}, reading : Nat]]
  /\ ConnTypeOK(Whitelists)
  /\ {lanCfg, lanUp, lanHeld, overtaken, unsaved, excused} \subseteq BOOLEAN
  /\ cur \in 0 .. MaxBytes /\ base \in (0 .. MaxBytes) \cup {None}
  /\ {total, disk, due} \subseteq Nat

(* The user's settings are as they were before the first start. *)
Init ==
  /\ user \in Own
  /\ reg = user /\ file = None /\ snap = None /\ on = FALSE
  /\ unsaved = FALSE /\ excused = FALSE
  /\ phase = Down
  /\ th = [t \in Threads |-> Idle]
  /\ ConnInit
  /\ lanCfg = FALSE /\ lanUp = FALSE /\ lanHeld = FALSE
  /\ cur = 0 /\ base = None /\ total = 0 /\ disk = 0
  /\ due = 0 /\ overtaken = FALSE
  /\ commands = 0 /\ trouble = 0

At(t, p) == th[t].pc = p
Go(t, p) == th' = [th EXCEPT ![t].pc = p]
Done(t) == th' = [th EXCEPT ![t] = Idle]
Fault == trouble < MaxTrouble /\ trouble' = trouble + 1
Trouble == Fault /\ UNCHANGED commands
Ours == reg.pac = "ours"

(* A command begins; another one on the system settings may be running. *)
Busy(t) == \E u \in Main \ {t} : ~At(u, "idle")
Starts(t) ==
  /\ phase = "up" /\ At(t, "idle")
  /\ commands < MaxCommands /\ commands' = commands + 1
  /\ excused' = (excused \/ Busy(t))
Begin(t, pc) ==
  /\ Starts(t)
  /\ Go(t, pc)
  /\ UNCHANGED <<user, reg, file, unsaved, snap, on, phase, trafficVars, trouble>>

-----------------------------------------------------------------------------
(* proxy_enable_inner and sysproxy::enable. *)

OtherwiseSame == UNCHANGED <<user, phase, ruleVars, netVars, trafficVars>>
Unmoved == OtherwiseSame /\ UNCHANGED <<unsaved, excused>>

(* Nothing to do when on.  Else the watches are sent. *)
proxy_enable(t) ==
  /\ Begin(t, IF on THEN "idle" ELSE "snapshot")
  /\ IF on THEN UNCHANGED chained ELSE chained' \in BOOLEAN
  /\ UNCHANGED <<mode, whitelist, bypass, engine, netVars>>

(* No configuration; or the port is not there, as it cannot be when the task
   has ended: it is let go, and started by the next command. *)
EnableRefused(t) ==
  /\ At(t, "snapshot")
  /\ Done(t)
  /\ \/ Trouble /\ UNCHANGED engine
     \/ engine = "ended" /\ engine' = "no" /\ UNCHANGED counters
  /\ UNCHANGED <<sysVars, phase, mode, whitelist, bypass, chained, netVars,
                 trafficVars>>

(* The engine has been started, if it was not, and its port answers. *)
EngineUp ==
  /\ engine # "ended" /\ engine' = "up"
  /\ UNCHANGED <<user, phase, mode, whitelist, bypass, chained, netVars, trafficVars,
                 unsaved, excused>>

(* Seeded fault: the settings are written before they are kept. *)
EnableSnapshotLate(t) ==
  /\ At(t, "snapshot")
  /\ th' = [th EXCEPT ![t].snap = reg, ![t].pc = "enable"]
  /\ reg' = [reg EXCEPT !.pac = "ours"]
  /\ EngineUp /\ UNCHANGED <<file, snap, on, counters>>

EnableSnapshot(t) ==
  /\ At(t, "snapshot")
  /\ th' = [th EXCEPT ![t].snap = reg, ![t].pc = "save"]
  /\ EngineUp /\ UNCHANGED <<reg, file, snap, on, counters>>

(* save_snapshot: no error of it is looked at. *)
EnableSave(t) ==
  /\ At(t, "save")
  /\ \/ file' = th[t].snap /\ unsaved' = FALSE /\ UNCHANGED counters
     \/ Trouble /\ unsaved' = TRUE /\ UNCHANGED file
  /\ Go(t, "pac")
  /\ OtherwiseSame /\ UNCHANGED <<reg, snap, on, excused>>

EnablePac(t) ==
  /\ At(t, "pac")
  /\ \/ reg' = [reg EXCEPT !.pac = "ours"] /\ Go(t, "enable") /\ UNCHANGED counters
     \/ Trouble /\ Done(t) /\ UNCHANGED reg
  /\ Unmoved /\ UNCHANGED <<file, snap, on>>

(* ProxyEnable, and the value read back and written again if it is gone. *)
EnableRest(t) ==
  /\ At(t, "enable")
  /\ reg' = [pac |-> "ours", enable |-> FALSE]
  /\ Go(t, "keep")
  /\ Unmoved /\ UNCHANGED <<file, snap, on, counters>>

EnableKeep(t) ==
  /\ At(t, "keep")
  /\ snap' = th[t].snap
  /\ Go(t, "on")
  /\ Unmoved /\ UNCHANGED <<reg, file, on, counters>>

EnableOn(t) ==
  /\ At(t, "on")
  /\ on' = TRUE
  /\ Done(t)
  /\ Unmoved /\ UNCHANGED <<reg, file, snap, counters>>

-----------------------------------------------------------------------------
(* proxy_disable_inner, sysproxy::disable and cleanup_stale. *)

proxy_disable(t) == Begin(t, "restore") /\ UNCHANGED <<ruleVars, netVars>>

(* Which settings go back: the ones in memory, else the ones on disk, if they
   can be read; with neither, or at the start with a registry that is not ours,
   only a script of ours is taken out.  Excused is a file that failed and so
   gives the wrong settings, or none. *)
PutsBack(s) == s # None /\ (phase = "setup" => Ours)
Restore(t) ==
  LET held == snap # None /\ phase # "setup" IN
  /\ At(t, "restore")
  /\ \E s \in IF held THEN {snap} ELSE {file, None} :
       /\ th' = [th EXCEPT ![t].snap = s,
                            ![t].pc = IF PutsBack(s) THEN "putEnable" ELSE "sweep"]
       /\ IF held \/ s = file THEN UNCHANGED counters ELSE Trouble
       /\ excused' = \/ excused
                     \/ /\ ~held /\ (unsaved \/ s # file)
                        /\ IF PutsBack(s) THEN s # user ELSE Ours
  /\ OtherwiseSame /\ UNCHANGED <<reg, file, unsaved, snap, on>>

RestoreEnable(t) ==
  /\ At(t, "putEnable")
  /\ reg' = [reg EXCEPT !.enable = th[t].snap.enable]
  /\ Go(t, "putPac")
  /\ Unmoved /\ UNCHANGED <<file, snap, on, counters>>

(* The end of a command of the main thread, or of one call of it on leaving. *)
End(t) ==
  /\ Done(t)
  /\ phase' = IF t # "ui" \/ phase = "up" THEN phase
              ELSE [setup |-> "up", exit1 |-> "exit2", exit2 |-> "gone"][phase]

(* The registry refuses: with settings in memory the command gives up and may
   be repeated; otherwise the error is passed over. *)
RestoreRefused(t) ==
  /\ At(t, "putEnable")
  /\ Trouble
  /\ IF snap # None \/ phase = "setup" THEN End(t) ELSE Go(t, "forget") /\ UNCHANGED phase
  /\ excused' = (excused \/ snap = None \/ phase # "up")
  /\ UNCHANGED <<user, reg, file, unsaved, snap, on, ruleVars, netVars, trafficVars>>

RestorePac(t) ==
  /\ At(t, "putPac")
  /\ reg' = [reg EXCEPT !.pac = th[t].snap.pac]
  /\ Go(t, "clear")
  /\ Unmoved /\ UNCHANGED <<file, snap, on, counters>>

(* The start has no more to do; a disabling forgets. *)
After(t) == IF phase = "setup" THEN End(t) ELSE Go(t, "forget") /\ UNCHANGED phase

(* cleanup_stale without a usable snapshot.  With none and nothing of ours in
   the registry the file, which may only have been unreadable, is left. *)
Sweep(t) ==
  /\ At(t, "sweep")
  /\ reg' = IF Ours THEN [reg EXCEPT !.pac = None] ELSE reg
  /\ IF Ours \/ th[t].snap # None THEN Go(t, "clear") /\ UNCHANGED phase ELSE After(t)
  /\ UNCHANGED <<user, file, unsaved, snap, on, excused, ruleVars, netVars, trafficVars,
                 counters>>

(* clear_snapshot: nobody is told if the file stays. *)
Cleared ==
  \/ file' = None /\ unsaved' = FALSE /\ UNCHANGED trouble
  \/ file # None /\ Fault /\ unsaved' = TRUE /\ UNCHANGED file

ClearFile(t) ==
  /\ At(t, "clear")
  /\ Cleared
  /\ After(t)
  /\ UNCHANGED <<user, reg, snap, on, excused, ruleVars, netVars, trafficVars,
                 commands>>

Forget(t) ==
  /\ At(t, "forget")
  /\ snap' = None /\ on' = FALSE
  /\ Go(t, "flush")
  /\ Unmoved /\ UNCHANGED <<reg, file, counters>>

(* proxy_rescue: everything goes, the user's settings too. *)
proxy_rescue ==
  /\ Starts("ui")
  /\ reg' = [pac |-> None, enable |-> FALSE] /\ user' = reg'
  /\ Cleared /\ snap' = None /\ on' = FALSE
  /\ UNCHANGED <<th, phase, trafficVars, ruleVars, netVars>>

-----------------------------------------------------------------------------
(* proxy_mode_set and proxy_whitelist_set, with update_pac_timestamp: the
   script is read, and written anew if it is ours. *)

proxy_mode_set(m) ==
  /\ Begin("ui", IF on THEN "check" ELSE "idle")
  /\ mode' = m
  /\ UNCHANGED <<whitelist, bypass, chained, engine, netVars>>

proxy_whitelist_set(req) ==
  /\ Begin("ui", IF on THEN "check" ELSE "idle")
  /\ Accepts(req, whitelist, bypass)
  /\ whitelist' = minimal(req)
  /\ UNCHANGED <<mode, bypass, chained, engine, netVars>>

(* proxy_tunnel_set_url writes tunnel.json; the script is not written anew. *)
proxy_tunnel_set_url(g) ==
  /\ Begin("ui", "idle")
  /\ bypass' = FixedHosts \cup {g}
  /\ UNCHANGED <<mode, whitelist, chained, engine, netVars>>

StampCheck(t) ==
  /\ At(t, "check")
  /\ IF Ours THEN Go(t, "stamp") ELSE Done(t)
  /\ Unmoved /\ UNCHANGED <<reg, file, snap, on, counters>>

Stamp(t) ==
  /\ At(t, "stamp")
  /\ reg' = [reg EXCEPT !.pac = "ours"]
  /\ Done(t)
  /\ Unmoved /\ UNCHANGED <<file, snap, on, counters>>

-----------------------------------------------------------------------------
(* traffic_snapshot: the counters are read outside the lock. *)

Bytes ==
  /\ phase = "up" /\ cur < MaxBytes
  /\ cur' = cur + 1
  /\ due' = IF base = None THEN due ELSE due + 1
  /\ UNCHANGED <<sysVars, phase, th, ruleVars, netVars, base, total, disk,
                 overtaken, counters>>

Tick ==
  /\ phase = "up" /\ At("tick", "idle")
  /\ commands < MaxCommands /\ commands' = commands + 1
  /\ Go("tick", "flush")
  /\ UNCHANGED <<sysVars, phase, ruleVars, netVars, trafficVars, trouble>>

TrafficRead(t) ==
  /\ At(t, "flush")
  /\ th' = [th EXCEPT ![t].reading = cur, ![t].pc = "merge"]
  /\ UNCHANGED <<sysVars, phase, ruleVars, netVars, trafficVars, counters>>

(* Seeded fault: the base is set only when something was added. *)
TrafficMergeKeepsBase(t) ==
  LET r == th[t].reading IN
  /\ At(t, "merge")
  /\ total' = total + (IF base # None /\ r > base THEN r - base ELSE 0)
  /\ base' = IF base = None THEN r ELSE base
  /\ due' = IF base = None THEN total + cur - r ELSE due
  /\ overtaken' = (overtaken \/ (base # None /\ r < base))
  /\ th' = [th EXCEPT ![t].reading = total', ![t].pc = "write"]
  /\ UNCHANGED <<sysVars, phase, ruleVars, netVars, cur, disk, counters>>

(* Under the lock.  The first reading of a run only sets the base. *)
TrafficMerge(t) ==
  LET r == th[t].reading IN
  /\ At(t, "merge")
  /\ total' = total + (IF base # None /\ r > base THEN r - base ELSE 0)
  /\ base' = r
  /\ due' = IF base = None THEN total + cur - r ELSE due
  /\ overtaken' = (overtaken \/ (base # None /\ r < base))
  /\ th' = [th EXCEPT ![t].reading = total', ![t].pc = "write"]
  /\ UNCHANGED <<sysVars, phase, ruleVars, netVars, cur, disk, counters>>

(* traffic_flush: the copy taken under the lock goes to disk.  It is the end of
   proxy_disable_inner too. *)
TrafficWrite(t) ==
  /\ At(t, "write")
  /\ disk' = th[t].reading
  /\ End(t)
  /\ UNCHANGED <<sysVars, ruleVars, netVars, cur, base, total, due, overtaken,
                 counters>>

-----------------------------------------------------------------------------
(* proxy_lan_toggle and start_lan_listener.  Stopping takes the listener out
   of LAN_RUNTIME and cancels its sessions. *)

LanIdle == UNCHANGED <<sysVars, phase, ruleVars, trafficVars>>

proxy_lan_toggle(b) ==
  /\ phase = "up" /\ At("lan", "idle")
  /\ commands < MaxCommands /\ commands' = commands + 1
  /\ lanCfg' = (lanCfg \/ b)
  /\ Go("lan", IF b THEN "stop" ELSE "stopOff")
  /\ LanIdle /\ UNCHANGED <<lanUp, lanHeld, connVars, trouble>>

LanStop(t) ==
  /\ At(t, "stop") \/ At(t, "stopOff")
  /\ IF lanHeld THEN lanUp' = FALSE /\ lanHeld' = FALSE /\ conn' = LanCancelled
     ELSE UNCHANGED <<lanUp, lanHeld, conn>>
  /\ Go(t, IF At(t, "stop") THEN "bind" ELSE "cfgOff")
  /\ LanIdle /\ UNCHANGED <<lanCfg, script, counters>>

(* The port may be taken, by an earlier listener of ours too; the toggle then
   takes its switch back, the start of the application does not. *)
LanBind(t) ==
  /\ At(t, "bind")
  /\ \/ ~lanUp /\ lanUp' = TRUE /\ Go(t, "store") /\ UNCHANGED <<lanCfg, counters>>
     \/ /\ IF lanUp THEN UNCHANGED counters ELSE Trouble
        /\ lanCfg' = (lanCfg /\ t = "boot") /\ Done(t) /\ UNCHANGED lanUp
  /\ LanIdle /\ UNCHANGED <<lanHeld, connVars>>

LanStore(t) ==
  /\ At(t, "store")
  /\ lanHeld' = TRUE
  /\ Done(t)
  /\ LanIdle /\ UNCHANGED <<lanCfg, lanUp, connVars, counters>>

LanCfgOff(t) ==
  /\ At(t, "cfgOff")
  /\ lanCfg' = FALSE
  /\ Done(t)
  /\ LanIdle /\ UNCHANGED <<lanUp, lanHeld, connVars, counters>>

(* Ten failures of accept in a row end the loop; sessions go on. *)
LanAcceptFails ==
  /\ lanUp /\ lanHeld /\ lanUp' = FALSE /\ Trouble
  /\ LanIdle /\ UNCHANGED <<th, lanCfg, lanHeld, connVars>>

-----------------------------------------------------------------------------
(* The process. *)

(* run and setup: a lock whose process is gone is removed; cleanup_stale; then
   the automatic start (a command here) and the listener put back. *)
Launch ==
  /\ phase \in {Down, Dead} /\ commands < MaxCommands
  /\ phase' = "setup"
  /\ th' = [th EXCEPT !["ui"].pc = "restore"]
  /\ UNCHANGED <<sysVars, ruleVars, netVars, trafficVars, counters>>

LanRestore ==
  /\ phase = "up" /\ At("boot", "idle") /\ lanCfg /\ ~lanHeld
  /\ commands < MaxCommands /\ commands' = commands + 1
  /\ Go("boot", "stop")
  /\ LanIdle /\ UNCHANGED <<lanCfg, lanUp, lanHeld, connVars, trouble>>

(* ExitRequested, and before it quit and proxy_prepare_update_exit: the
   listener is aborted, then proxy_disable_inner; Exit does the same again. *)
Leave ==
  /\ \/ phase = "up" /\ phase' = "exit1"
     \/ phase = "exit2" /\ UNCHANGED phase
  /\ At("ui", "idle")
  /\ Go("ui", "restore")
  /\ lanUp' = (lanUp /\ ~lanHeld) /\ lanHeld' = FALSE
  /\ conn' = IF lanHeld THEN LanCancelled ELSE conn
  /\ excused' = (excused \/ Busy("ui"))
  /\ UNCHANGED <<user, reg, file, unsaved, snap, on, ruleVars, lanCfg, script,
                 trafficVars, counters>>

(* An error of accept ends run, and nobody is told. *)
EngineEnds ==
  /\ engine = "up" /\ engine' = "ended" /\ Trouble
  /\ UNCHANGED <<sysVars, phase, th, mode, whitelist, bypass, chained, netVars,
                 trafficVars>>

(* What a process that is gone leaves behind: the registry and the files. *)
Vanish ==
  /\ th' = [t \in Threads |-> Idle]
  /\ snap' = None /\ on' = FALSE
  /\ lanUp' = FALSE /\ lanHeld' = FALSE /\ conn' = NoConn
  /\ cur' = 0 /\ base' = None /\ total' = disk /\ due' = 0 /\ overtaken' = FALSE
  /\ engine' = "no" /\ chained' = FALSE
  /\ UNCHANGED <<user, reg, file, unsaved, mode, whitelist, bypass, lanCfg,
                 script, disk>>

Gone ==
  /\ phase = "gone"
  /\ phase' = Down
  /\ Vanish
  /\ excused' = (excused \/ Busy("ui"))
  /\ UNCHANGED counters

Crash ==
  /\ phase \notin {Down, Dead}
  /\ Trouble
  /\ phase' = Dead
  /\ Vanish
  /\ UNCHANGED excused

SysStep(t) ==
  \/ EnableRefused(t) \/ EnableSnapshot(t) \/ EnableSave(t) \/ EnablePac(t)
  \/ EnableRest(t) \/ EnableKeep(t) \/ EnableOn(t)
  \/ Restore(t) \/ RestoreEnable(t) \/ RestoreRefused(t) \/ RestorePac(t) \/ Sweep(t)
  \/ ClearFile(t) \/ Forget(t) \/ StampCheck(t) \/ Stamp(t)
  \/ TrafficRead(t) \/ TrafficMerge(t) \/ TrafficWrite(t)

(* Clients of the system fetch the script while the settings name it, and go
   on with it afterwards. *)
Client ==
  /\ phase \in {"up", "exit1", "exit2"}
  /\ UNCHANGED <<sysVars, phase, th, lanVars, trafficVars, trouble>>
  /\ \/ /\ (Ours /\ FetchPac) \/ ConnStep
        /\ UNCHANGED commands
     \/ /\ commands < MaxCommands /\ commands' = commands + 1
        /\ \E h \in Visited : Accept(h) \/ (lanUp /\ LanAccept(h))

LanStep(t) == LanStop(t) \/ LanBind(t) \/ LanStore(t) \/ LanCfgOff(t)

Next ==
  \/ \E t \in Main : proxy_enable(t) \/ proxy_disable(t)
  \/ proxy_rescue
  \/ \E m \in Modes : proxy_mode_set(m)
  \/ \E r \in Requests : proxy_whitelist_set(r)
  \/ \E g \in GateHosts : proxy_tunnel_set_url(g)
  \/ \E t \in Main \cup {"tick"} : SysStep(t)
  \/ Bytes \/ Tick
  \/ Client
  \/ \E b \in BOOLEAN : proxy_lan_toggle(b)
  \/ LanRestore \/ LanAcceptFails
  \/ \E t \in {"lan", "boot"} : LanStep(t)
  \/ EngineEnds \/ Launch \/ Leave \/ Gone \/ Crash

Spec == Init /\ [][Next]_vars

-----------------------------------------------------------------------------
(* Properties. *)

Quiet(T) == \A t \in T : At(t, "idle")

(* Whenever the proxy is off in a running application, or the application has
   been left, the system has the user's own settings: after any number of
   starts, stops and crashes between any two writes, a crash while the
   settings are being put back included, and whether or not the snapshot could
   be written, removed or read, but for a failing file that was needed. *)
UserSettingsBack ==
  phase \in {Down, "up"} /\ Quiet(Main) /\ ~on /\ ~excused => reg = user

(* The rules under which script and engine agree on every host. *)
Agreeing ==
  { rules \in Whitelists \X Modes \X Bypasses :
      \A h \in Hosts :
        LET p == generate_pac(h, rules[1], rules[2], rules[3])
            d == decide(h, rules[1], rules[2], rules[3])
        IN /\ p = "PROXY" => d = "tunnel"
           /\ d = "tunnel" => \/ p = "PROXY" \/ Len(h) = 1 \/ h \in PrivateIps
                              \/ \E b \in rules[3] : suffix_match(h, b) }

(* Under the rules the commands leave, the script sends to the engine only
   hosts the engine tunnels, and what the engine tunnels the script sends it,
   but for plain names, private addresses and hosts below a bypass host: "PROXY"
   never ends in a direct connection from this machine.  So does no connection a script sent, as long as it is
   the script of the rules the engine decided by: whatever upstream and tunnel
   answer, the engine does not fall back to dialling the host itself. *)
PacAgrees ==
  /\ Quiet(Threads) => Rules \in Agreeing
  /\ conn.via = "direct" /\ conn.from = "loop" => conn.stale

(* Every byte the engine counted after the first reading is in the total or
   still above the base, once: as long as no reading was merged after a later
   one. *)
TrafficOnce ==
  base # None /\ ~overtaken => total + cur - base = due
=============================================================================
