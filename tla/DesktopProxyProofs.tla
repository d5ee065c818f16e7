------------------------- MODULE DesktopProxyProofs -------------------------
(***************************************************************************)
(* Proofs about DesktopProxy, for every set of hosts, whitelists and the   *)
(* user's settings and every number of commands and faults: the settings   *)
(* come back, script and engine agree on every host, and traffic is        *)
(* counted once.  The invariant is shown in four parts that hardly meet:   *)
(* the connection, the totals, the settings and the types.                 *)
(***************************************************************************)
EXTENDS DesktopProxy, TLAPS

(* The proxy is off. *)
Clean == snap = None /\ ~on

(* The proxy is on, and the kept settings are the user's. *)
Held == on /\ snap = user /\ (file = user \/ unsaved) /\ Ours

(* Between two commands the proxy is in one of these two states. *)
Settled == Held \/ (Clean /\ reg = user)

(* What a thread of Main relies on where it is. *)
PcInv(r) ==
  /\ r.pc \in {"snapshot", "save", "pac"} => Clean /\ reg = user
  /\ r.pc \in {"save", "pac", "enable", "keep", "on", "putEnable", "putPac"} =>
       r.snap = user
  /\ r.pc \in {"pac", "enable", "keep", "on"} => file = user \/ unsaved
  /\ r.pc \in {"enable", "keep"} => Clean /\ Ours
  /\ r.pc = "on" => snap = user /\ Ours
  /\ r.pc \in {"check", "stamp"} => Held
  /\ r.pc \in {"restore", "putEnable"} => Settled \/ (phase = "setup" /\ Clean)
  /\ r.pc = "putPac" => reg.enable = user.enable
  /\ r.pc \in {"sweep", "clear", "forget", "flush", "merge", "write"} => reg = user
  /\ r.pc \in {"flush", "merge", "write"} => Clean

(* Where the threads may be in which phase. *)
Restoring == {"restore", "putEnable", "putPac", "sweep", "clear"}

(* What is going on in each phase of the process: nothing when it is down,
   the clean-up of stale settings at start-up, the restore and the last
   flush on the way out. *)
PhaseInv ==
  /\ phase \in {Down, Dead, "gone"} => At("ui", "idle")
  /\ phase = "setup" => th["ui"].pc \in Restoring
  /\ phase \in {"exit1", "exit2"} =>
       th["ui"].pc \in Restoring \cup {"idle", "forget", "flush", "merge", "write"}
  /\ phase \in {Down, Dead, "setup"} => Clean /\ At("bg", "idle")
  /\ th["tick"].pc \in {"idle", "flush", "merge", "write"}

(* What is on disk puts the user's settings back, whenever the process dies,
   unless the file is known to have failed. *)
Kept ==
  /\ unsaved \/ file \in {None, user}
  /\ snap \in {None, user}
  /\ reg = user \/ (Ours /\ (file = user \/ unsaved))

(* The user's settings are safe: excused are commands that overlap, a registry
   that refuses and a file that failed and was needed. *)
SettingsInv ==
  ~excused =>
    /\ Kept
    /\ At("ui", "idle") \/ At("bg", "idle")
    /\ phase # "up" => At("bg", "idle")
    /\ Quiet(Main) => Settled \/ (phase = Dead /\ Clean)
    /\ phase \in {"exit2", "gone", Down} /\ Quiet(Main) => ~on
    /\ \A t \in Main : PcInv(th[t])

(* What a flush is about to merge is not ahead of the engine's counter. *)
TrafficInv ==
  /\ \A t \in Threads : At(t, "merge") => th[t].reading <= cur
  /\ base # None => base <= cur
  /\ TrafficOnce

-----------------------------------------------------------------------------
(* The script and the engine, for every host and every set of entries. *)

(* A host matches the entry that is the host itself. *)
LEMMA SuffixOfItself ==
  ASSUME NEW h \in Seq(STRING)
  PROVE  suffix_match(h, h)
BY DEF suffix_match, IsSuffix, IsPrefix, Reverse

(* The engine's matching expands the entries first, as the script's list
   does (matches, expand_entries). *)
LEMMA MatchedIsExpanded ==
  ASSUME NEW h, NEW entries
  PROVE  matches(h, entries) <=>
           \E e \in expand_entries(entries) : suffix_match(h, e) \/ RegionOf(h, e)
BY DEF matches, alias_match, expand_entries, RegionOf

(* What the script sends to the proxy, the engine sends through the tunnel
   (generate_pac against decide), for every host and every whitelist. *)
LEMMA ScriptIsTunnelled ==
  ASSUME NEW h \in Seq(STRING), NEW entries, NEW m, NEW by,
         generate_pac(h, entries, m, by) = "PROXY"
  PROVE  decide(h, entries, m, by) = "tunnel"
BY SuffixOfItself, MatchedIsExpanded DEF generate_pac, decide

(* What the engine would tunnel, the script sends to it, but for plain
   names, private addresses and the bypass list, which the script answers
   first. *)
LEMMA TunnelledIsScript ==
  ASSUME NEW h \in Seq(STRING), NEW entries, NEW m, NEW by,
         decide(h, entries, m, by) = "tunnel"
  PROVE  \/ generate_pac(h, entries, m, by) = "PROXY" \/ Len(h) = 1 \/ h \in PrivateIps
         \/ \E b \in by : suffix_match(h, b)
BY MatchedIsExpanded DEF generate_pac, decide

(* The two agree under every whitelist, mode and endpoint. *)
LEMMA AllAgree == Agreeing = Whitelists \X Modes \X Bypasses
<1>1. ASSUME NEW rules \in Whitelists \X Modes \X Bypasses, NEW h \in Hosts
      PROVE  LET p == generate_pac(h, rules[1], rules[2], rules[3])
                 d == decide(h, rules[1], rules[2], rules[3])
             IN /\ p = "PROXY" => d = "tunnel"
                /\ d = "tunnel" => \/ p = "PROXY" \/ Len(h) = 1 \/ h \in PrivateIps
                                   \/ \E b \in rules[3] : suffix_match(h, b)
  BY ProxyAssumption, ScriptIsTunnelled, TunnelledIsScript
<1> QED BY <1>1 DEF Agreeing

-----------------------------------------------------------------------------
(* The threads, and their types. *)

(* The local state of a thread. *)
Thread == [pc : Pcs, snap : Settings \cup {None}, reading : Nat]

(* What the user may have set himself. *)
Users == [pac : {None, "own"}, enable : BOOLEAN]

(* Thread t takes the local state r, and nobody else moves. *)
Turn(t, r) == th' = [th EXCEPT ![t] = r]

(* The two writes that put the settings back. *)
Puts == {"putEnable", "putPac"}

(* Every step moves one thread, or none, or ends the process; a thread merges
   what it has just read, and puts back settings it has. *)
Moves ==
  \E t \in Threads : \E r \in Thread :
    /\ Turn(t, r) /\ (r.pc = "merge" => r.reading = cur)
    /\ r.pc \in Puts => \/ r.snap # None
                        \/ At(t, "putEnable") /\ r.snap = th[t].snap

(* A thread that goes on keeps what it holds. *)
LEMMA GoType ==
  ASSUME TypeOK, NEW t \in Threads, NEW p \in Pcs, Go(t, p)
  PROVE  \E r \in Thread : /\ Turn(t, r) /\ r.pc = p /\ r.snap = th[t].snap
                           /\ r.reading = th[t].reading
<1> DEFINE r == [th[t] EXCEPT !.pc = p]
<1>1. th[t] \in Thread /\ Turn(t, r)
  BY DEF Go, Turn, TypeOK, Thread
<1>2. r \in Thread /\ r.pc = p /\ r.snap = th[t].snap /\ r.reading = th[t].reading
  BY <1>1 DEF Thread
<1> QED BY <1>1, <1>2

(* A thread between two commands. *)
LEMMA IdleType == Idle \in Thread /\ Idle.pc = "idle" /\ Idle.reading = 0
BY DEF Idle, Thread, Pcs

(* A command that ends leaves its thread idle. *)
LEMMA DoneType ==
  ASSUME NEW t, Done(t)
  PROVE  Turn(t, Idle)
BY DEF Done, Turn

(* One thread's turn leaves the others as they were. *)
LEMMA TurnType ==
  ASSUME TypeOK, NEW t, NEW r \in Thread, Turn(t, r)
  PROVE  /\ th' \in [Threads -> Thread]
         /\ t \in Threads => th'[t] = r
         /\ \A u \in Threads \ {t} : th'[u] = th[u]
BY DEF TypeOK, Thread, Turn

(* proxy_enable holds the settings it found. *)
LEMMA SnapshotTurn ==
  ASSUME TypeOK, NEW t \in Threads, EnableSnapshot(t)
  PROVE  \E r \in Thread : Turn(t, r) /\ r.pc = "save" /\ r.snap = reg
<1> DEFINE r == [th[t] EXCEPT !.snap = reg, !.pc = "save"]
<1>1. th[t] \in Thread /\ Turn(t, r)
  BY DEF EnableSnapshot, Turn, TypeOK, Thread
<1>2. r \in Thread /\ r.pc = "save" /\ r.snap = reg
  BY <1>1 DEF Thread, TypeOK, Pcs
<1> QED BY <1>1, <1>2

(* The settings in memory are the ones that go back. *)
HeldSnap == snap # None /\ phase # "setup"

(* A restore takes the kept settings, from memory or, without any and at
   start-up, from the file. *)
LEMMA RestoreTurn ==
  ASSUME TypeOK, NEW t \in Threads, Restore(t)
  PROVE  \E r \in Thread :
           /\ Turn(t, r) /\ r.pc = IF PutsBack(r.snap) THEN "putEnable" ELSE "sweep"
           /\ r.snap \in IF HeldSnap THEN {snap} ELSE {file, None}
           /\ excused' <=> \/ excused
                          \/ /\ ~HeldSnap /\ (unsaved \/ r.snap # file)
                             /\ IF PutsBack(r.snap) THEN r.snap # user ELSE Ours
<1>2. PICK s \in IF HeldSnap THEN {snap} ELSE {file, None} :
        /\ th' = [th EXCEPT ![t].snap = s, ![t].pc = IF PutsBack(s) THEN "putEnable" ELSE "sweep"]
        /\ excused' = \/ excused
                      \/ /\ ~HeldSnap /\ (unsaved \/ s # file)
                         /\ IF PutsBack(s) THEN s # user ELSE Ours
  BY DEF Restore, HeldSnap
<1> DEFINE p == IF PutsBack(s) THEN "putEnable" ELSE "sweep"
           r == [th[t] EXCEPT !.snap = s, !.pc = p]
<1>1. s \in Settings \cup {None} /\ p \in Pcs
  BY DEF TypeOK, Pcs
<1>3. p = IF PutsBack(s) THEN "putEnable" ELSE "sweep"
  OBVIOUS
<1>4. th' = [th EXCEPT ![t].snap = s, ![t].pc = p]
  BY <1>2
<1> HIDE DEF p
<1>5. th[t] \in Thread /\ Turn(t, r)
  BY <1>4 DEF Turn, TypeOK, Thread
<1>6. r \in Thread /\ r.pc = p /\ r.snap = s
  BY <1>1, <1>5 DEF Thread
<1> HIDE DEF r
<1> QED BY <1>2, <1>3, <1>5, <1>6

(* A flush holds the counter it has just read. *)
LEMMA TrafficReadTurn ==
  ASSUME TypeOK, NEW t \in Threads, TrafficRead(t)
  PROVE  \E r \in Thread : Turn(t, r) /\ r.pc = "merge" /\ r.reading = cur
<1> DEFINE r == [th[t] EXCEPT !.reading = cur, !.pc = "merge"]
<1>1. th[t] \in Thread /\ Turn(t, r)
  BY DEF TrafficRead, Turn, TypeOK, Thread
<1>2. cur \in Nat
  BY ProxyAssumption DEF TypeOK
<1>3. r \in Thread /\ r.pc = "merge" /\ r.reading = cur
  BY <1>1, <1>2 DEF Thread, Pcs
<1> QED BY <1>1, <1>3

(* A merge leaves a total, and its thread about to write it. *)
LEMMA MergeTurn ==
  ASSUME TypeOK, NEW t \in Threads, TrafficMerge(t)
  PROVE  /\ total' \in Nat
         /\ \E r \in Thread : Turn(t, r) /\ r.pc = "write"
<1>0. th[t] \in Thread /\ th[t].reading \in Nat /\ total \in Nat /\ base \in Nat \cup {None}
  BY ProxyAssumption DEF TypeOK, Thread
<1>1. total' \in Nat
  BY <1>0 DEF TrafficMerge
<1> DEFINE r == [th[t] EXCEPT !.reading = total', !.pc = "write"]
<1>2. th' = [th EXCEPT ![t].reading = total', ![t].pc = "write"]
  BY DEF TrafficMerge
<1>3. Turn(t, r)
  BY <1>0, <1>2 DEF Turn, TypeOK, Thread
<1>4. r \in Thread /\ r.pc = "write"
  BY <1>0, <1>1 DEF Thread, Pcs
<1>5. PICK q \in Thread : q = r
  BY <1>4
<1> QED BY <1>1, <1>3, <1>4, <1>5

(* Every step of a command or of the ticker is a turn of its thread. *)
LEMMA SysMoves ==
  ASSUME TypeOK, NEW t \in Main \cup {"tick"}, SysStep(t)
  PROVE  Moves
<1>0. t \in Threads
  BY DEF Main, Threads
<1>1. ASSUME NEW p \in Pcs \ ({"merge"} \cup Puts), Go(t, p) PROVE Moves
  BY <1>0, <1>1, GoType DEF Moves, Puts
<1>2. CASE Done(t)
  BY <1>0, <1>2, DoneType, IdleType DEF Moves, Puts
<1>3. CASE EnableSnapshot(t)
  BY <1>0, <1>3, SnapshotTurn DEF Moves, Puts
<1>4. CASE Restore(t)
  <2>1. PICK r \in Thread :
          Turn(t, r) /\ r.pc = IF PutsBack(r.snap) THEN "putEnable" ELSE "sweep"
    BY <1>0, <1>4, RestoreTurn
  <2>2. r.pc # "merge" /\ (r.pc \in Puts => r.snap # None)
    BY <2>1 DEF Puts, PutsBack
  <2> QED BY <1>0, <2>1, <2>2 DEF Moves
<1>5. CASE TrafficRead(t)
  BY <1>0, <1>5, TrafficReadTurn DEF Moves, Puts
<1>6. CASE TrafficMerge(t)
  BY <1>0, <1>6, MergeTurn DEF Moves, Puts
<1>7. CASE EnableRefused(t) \/ EnableSave(t) \/ EnablePac(t) \/ EnableRest(t) \/ EnableKeep(t) \/ EnableOn(t)
  BY <1>1, <1>2, <1>7
     DEF EnableRefused, EnableSave, EnablePac, EnableRest, EnableKeep, EnableOn, Pcs, Puts
<1>10. CASE RestoreEnable(t)
  BY <1>0, <1>10, GoType DEF RestoreEnable, Moves, Pcs
<1>8. CASE RestoreRefused(t) \/ RestorePac(t) \/ Sweep(t) \/ ClearFile(t) \/ Forget(t)
  BY <1>1, <1>2, <1>8
     DEF RestoreRefused, RestorePac, Sweep, ClearFile, Forget, After, End, Pcs, Puts
<1>9. CASE StampCheck(t) \/ Stamp(t) \/ TrafficWrite(t)
  BY <1>1, <1>2, <1>9 DEF StampCheck, Stamp, TrafficWrite, End, Pcs, Puts
<1> QED BY <1>3, <1>4, <1>5, <1>6, <1>7, <1>8, <1>9, <1>10 DEF SysStep

(* So is every other step, unless the process ends. *)
LEMMA NextMoves ==
  ASSUME TypeOK, Next
  PROVE  Moves \/ UNCHANGED th \/ Vanish
<1>1. ASSUME NEW t \in Threads, NEW p \in Pcs \ ({"merge"} \cup Puts), Go(t, p) PROVE Moves
  BY <1>1, GoType DEF Moves, Puts
<1>2. ASSUME NEW t \in Threads, Done(t) PROVE Moves
  BY <1>2, DoneType, IdleType DEF Moves, Puts
<1>3. ASSUME NEW t \in Main, NEW p \in Pcs \ ({"merge"} \cup Puts), Begin(t, p) PROVE Moves
  BY <1>1, <1>3 DEF Begin, Main, Threads
<1>4. ASSUME NEW t \in Main, proxy_enable(t) \/ proxy_disable(t) PROVE Moves
  BY <1>3, <1>4 DEF proxy_enable, proxy_disable, Pcs, Puts
<1>5. ASSUME NEW m, proxy_mode_set(m) \/ proxy_whitelist_set(m) \/ proxy_tunnel_set_url(m) PROVE Moves
  BY <1>3, <1>5 DEF proxy_mode_set, proxy_whitelist_set, proxy_tunnel_set_url, Pcs, Main, Puts
<1>6. ASSUME NEW b \in BOOLEAN, proxy_lan_toggle(b) PROVE Moves
  BY <1>1, <1>6 DEF proxy_lan_toggle, Pcs, Threads, Puts
<1>7. CASE Tick \/ LanRestore \/ Leave
  BY <1>1, <1>7 DEF Tick, LanRestore, Leave, Pcs, Threads, Puts
<1>8. CASE Launch
  <2>1. Go("ui", "restore")
    BY <1>8 DEF Launch, Go
  <2> QED BY <1>1, <2>1 DEF Pcs, Threads, Puts
<1>9. ASSUME NEW t \in {"lan", "boot"}, LanStep(t) PROVE Moves
  BY <1>1, <1>2, <1>9 DEF LanStep, LanStop, LanBind, LanStore, LanCfgOff, Pcs, Threads, Puts
<1>10. CASE UNCHANGED th
  BY <1>10
<1> QED BY <1>4, <1>5, <1>6, <1>7, <1>8, <1>9, <1>10, SysMoves
        DEF Next, proxy_rescue, Bytes, Client, LanAcceptFails, EngineEnds, Gone, Crash

(* The local states keep their type. *)
LEMMA ThreadType ==
  ASSUME TypeOK, [Next]_vars
  PROVE  th' \in [Threads -> Thread]
<1>1. CASE Moves
  BY <1>1, TurnType DEF Moves
<1>2. CASE UNCHANGED th
  BY <1>2 DEF TypeOK, Thread
<1>3. CASE Vanish
  BY <1>3, IdleType DEF Vanish
<1> QED BY <1>1, <1>2, <1>3, NextMoves DEF vars

-----------------------------------------------------------------------------
(* The connection. *)

(* The one connection that is followed. *)
Conns ==
  [at : {"none", "head", "dial", "relay"}, from : {None, "loop", "lan"},
   host : Visited \cup {None}, via : {None, "direct", "upstream", "tunnel"},
   told : (Whitelists \X Modes \X Bypasses) \cup {None}, stale : BOOLEAN,
   tries : 0 .. Attempts]

(* The rules, the engine and the script the browser holds. *)
RuleType ==
  /\ mode \in Modes /\ whitelist \in Whitelists /\ bypass \in Bypasses /\ chained \in BOOLEAN
  /\ engine \in {"no", "up", "ended"} /\ script \in Whitelists \X Modes \X Bypasses

(* One connection, whoever opened it. *)
SafeConn(c) ==
  /\ c \in Conns
  /\ c.from = "loop" =>
       /\ c.at = "head" =>
            /\ c.host \in Visited /\ c.via = None
            /\ generate_pac(c.host, c.told[1], c.told[2], c.told[3]) = "PROXY"
       /\ c.via = "direct" => c.stale

(* No connection is a safe one. *)
LEMMA NoConnSafe == NoConn \in Conns /\ SafeConn(NoConn) /\ NoConn.from = None
<1>1. 0 \in 0 .. Attempts
  BY ConnAssumption
<1>2. NoConn \in Conns /\ NoConn.from = None
  BY <1>1 DEF NoConn, Conns
<1> QED BY <1>2, ConnAssumption DEF SafeConn

(* A connection is accepted: on the loopback because the browser's script
   said so. *)
LEMMA AcceptSafe ==
  ASSUME RuleType, NEW h \in Visited, Accept(h) \/ LanAccept(h)
  PROVE  SafeConn(conn')
<1>0. 0 \in 0 .. Attempts
  BY ConnAssumption
<1>1. CASE Accept(h)
  <2>1. conn' = [at |-> "head", from |-> "loop", host |-> h, via |-> None,
                 told |-> script, stale |-> FALSE, tries |-> 0]
    BY <1>1 DEF Accept, NoConn
  <2>2. conn' \in Conns
    BY <1>0, <2>1 DEF Conns, RuleType
  <2>3. conn'.host = h /\ conn'.told = script /\ conn'.via = None
    BY <2>1
  <2> QED BY <1>1, <2>2, <2>3, ConnAssumption DEF SafeConn, Accept
<1>2. CASE LanAccept(h)
  <2>1. conn' = [at |-> "head", from |-> "lan", host |-> h, via |-> None,
                 told |-> None, stale |-> FALSE, tries |-> 0]
    BY <1>2 DEF LanAccept, NoConn
  <2>2. conn' \in Conns
    BY <1>0, <2>1 DEF Conns
  <2> QED BY <2>1, <2>2 DEF SafeConn
<1> QED BY <1>1, <1>2

(* The engine decides (dispatch): a host the script sent is tunnelled,
   unless the rules changed since. *)
LEMMA DispatchSafe ==
  ASSUME RuleType, SafeConn(conn), dispatch
  PROVE  SafeConn(conn')
<1> DEFINE d == decide(conn.host, whitelist, mode, bypass)
           v == IF d = "tunnel" /\ chained THEN "upstream" ELSE d
           b == conn.told # Rules
<1>1. conn' = [conn EXCEPT !.at = "dial", !.told = None, !.stale = b, !.via = v]
  BY DEF dispatch
<1>2. d \in {"tunnel", "direct"} /\ b \in BOOLEAN
  BY DEF decide
<1>3. v \in {"direct", "upstream", "tunnel"} /\ (v = "direct" => d = "direct")
  BY <1>2
<1>4. ASSUME conn.from = "loop", ~b PROVE d = "tunnel"
  <2>1. /\ conn.host \in Seq(STRING) /\ conn.told = Rules
        /\ generate_pac(conn.host, conn.told[1], conn.told[2], conn.told[3]) = "PROXY"
    BY <1>4, ConnAssumption DEF SafeConn, dispatch
  <2>2. conn.told[1] = whitelist /\ conn.told[2] = mode /\ conn.told[3] = bypass
    BY <2>1 DEF Rules
  <2> QED BY <2>1, <2>2, ScriptIsTunnelled
<1> HIDE DEF d, v, b
<1>5. conn' \in Conns /\ conn'.at = "dial" /\ conn'.via = v /\ conn'.stale = b /\ conn'.from = conn.from
  BY <1>1, <1>2, <1>3 DEF SafeConn, Conns
<1> QED BY <1>3, <1>4, <1>5 DEF SafeConn

(* Dialling, retrying and relaying keep the decision. *)
LEMMA ConnStepSafe ==
  ASSUME RuleType, SafeConn(conn), ConnStep
  PROVE  SafeConn(conn') /\ UNCHANGED <<script, ruleVars>>
<1>1. CASE Ends
  BY <1>1, NoConnSafe DEF Ends
<1>2. CASE Goes("relay")
  <2>1. conn' = [conn EXCEPT !.at = "relay"]
    BY <1>2 DEF Goes
  <2>2. conn' \in Conns /\ conn'.at = "relay" /\ conn'.via = conn.via /\ conn'.stale = conn.stale /\ conn'.from = conn.from
    BY <2>1 DEF SafeConn, Conns
  <2> QED BY <1>2, <2>2 DEF SafeConn, Goes
<1>3. CASE dispatch
  BY <1>3, DispatchSafe DEF dispatch
<1>4. CASE UpstreamSilent
  <2>1. CASE conn.tries + 1 < Attempts /\ conn' = [conn EXCEPT !.tries = @ + 1] /\ UNCHANGED <<script, ruleVars>>
    <3>1. conn.tries + 1 \in 0 .. Attempts
      BY <2>1, ConnAssumption DEF SafeConn, Conns
    <3>2. /\ conn' \in Conns /\ conn'.at = conn.at /\ conn'.via = conn.via /\ conn'.stale = conn.stale
          /\ conn'.from = conn.from /\ conn'.host = conn.host /\ conn'.told = conn.told
      BY <2>1, <3>1 DEF SafeConn, Conns
    <3> QED BY <2>1, <3>2 DEF SafeConn
  <2> QED BY <1>1, <1>4, <2>1 DEF UpstreamSilent
<1> QED BY <1>1, <1>2, <1>3, <1>4
        DEF ConnStep, HeadRefused, LanUnauthorized, LanSubscription, direct_relay,
            Upstreamed, UpstreamRefuses, Tunnelled, RelayEnds

(* Every step keeps the connection safe; a change of the rules marks it. *)
LEMMA NextConn ==
  ASSUME RuleType, SafeConn(conn), [Next]_vars
  PROVE  RuleType' /\ SafeConn(conn)'
<1>1. CASE UNCHANGED <<ruleVars, connVars>>
  BY <1>1 DEF RuleType, ruleVars, connVars, SafeConn
<1>2. ASSUME NEW t \in Main, proxy_enable(t) PROVE RuleType' /\ SafeConn(conn)'
  BY <1>2 DEF proxy_enable, RuleType, netVars, connVars, SafeConn
<1>3. ASSUME NEW m \in Modes, proxy_mode_set(m) PROVE RuleType' /\ SafeConn(conn)'
  BY <1>3 DEF proxy_mode_set, RuleType, netVars, connVars, SafeConn
<1>4. ASSUME NEW q \in Requests, proxy_whitelist_set(q) PROVE RuleType' /\ SafeConn(conn)'
  <2>1. minimal(q) \in Whitelists
    BY DEF Whitelists
  <2> QED BY <1>4, <2>1 DEF proxy_whitelist_set, RuleType, netVars, connVars, SafeConn
<1>17. ASSUME NEW g \in GateHosts, proxy_tunnel_set_url(g) PROVE RuleType' /\ SafeConn(conn)'
  BY <1>17 DEF proxy_tunnel_set_url, RuleType, Bypasses, netVars, connVars, SafeConn
<1>5. ASSUME engine' \in {"no", "up", "ended"}, UNCHANGED <<mode, whitelist, bypass, chained, netVars>>
      PROVE RuleType' /\ SafeConn(conn)'
  BY <1>5 DEF RuleType, netVars, connVars, SafeConn
<1>6. ASSUME NEW t \in Main \cup {"tick"}, SysStep(t) PROVE RuleType' /\ SafeConn(conn)'
  <2>1. CASE EnableRefused(t) \/ EnableSnapshot(t)
    BY <1>5, <2>1 DEF EnableRefused, EnableSnapshot, EngineUp, RuleType
  <2>2. CASE UNCHANGED <<ruleVars, netVars>>
    BY <1>1, <2>2 DEF netVars
  <2> QED BY <1>6, <2>1, <2>2
          DEF SysStep, EnableSave, EnablePac, EnableRest, EnableKeep, EnableOn,
              Restore, RestoreEnable, RestoreRefused, RestorePac, Sweep, ClearFile,
              Forget, StampCheck, Stamp, TrafficRead, TrafficMerge, TrafficWrite,
              Unmoved, OtherwiseSame
<1>7. CASE Client
  <2>1. CASE FetchPac
    BY <2>1 DEF FetchPac, RuleType, Rules, ruleVars, SafeConn
  <2>2. CASE ConnStep
    <3>1. SafeConn(conn') /\ UNCHANGED <<script, ruleVars>>
      BY <2>2, ConnStepSafe
    <3>2. RuleType'
      BY <3>1 DEF RuleType, ruleVars
    <3> QED BY <3>1, <3>2 DEF SafeConn
  <2>3. ASSUME NEW h \in Visited, Accept(h) \/ LanAccept(h)
        PROVE  RuleType' /\ SafeConn(conn)'
    <3>1. SafeConn(conn') /\ UNCHANGED <<script, ruleVars>>
      BY <2>3, AcceptSafe DEF Accept, LanAccept
    <3>2. RuleType'
      BY <3>1 DEF RuleType, ruleVars
    <3> QED BY <3>1, <3>2 DEF SafeConn
  <2> QED BY <1>7, <2>1, <2>2, <2>3 DEF Client
<1>8. ASSUME conn' \in {conn, LanCancelled}, UNCHANGED <<ruleVars, script>>
      PROVE  RuleType' /\ SafeConn(conn)'
  <2>1. conn' \in {conn, NoConn}
    BY <1>8 DEF LanCancelled
  <2> QED BY <1>8, <2>1, NoConnSafe DEF RuleType, ruleVars, SafeConn
<1>9. ASSUME NEW t \in {"lan", "boot"}, LanStep(t) PROVE RuleType' /\ SafeConn(conn)'
  <2>1. CASE LanStop(t)
    BY <1>8, <2>1 DEF LanStop, LanIdle
  <2>2. CASE LanBind(t) \/ LanStore(t) \/ LanCfgOff(t)
    BY <1>1, <2>2 DEF LanBind, LanStore, LanCfgOff, LanIdle
  <2> QED BY <1>9, <2>1, <2>2 DEF LanStep
<1>10. CASE Leave
  BY <1>8, <1>10 DEF Leave
<1>11. CASE EngineEnds
  BY <1>5, <1>11 DEF EngineEnds
<1>12. CASE Gone \/ Crash
  <2>1. /\ conn' = NoConn /\ engine' = "no" /\ chained' = FALSE
        /\ UNCHANGED <<mode, whitelist, bypass, script>>
    BY <1>12 DEF Gone, Crash, Vanish
  <2> QED BY <2>1, NoConnSafe DEF RuleType, SafeConn
<1>13. ASSUME NEW t \in Main, proxy_disable(t) PROVE RuleType' /\ SafeConn(conn)'
  BY <1>1, <1>13 DEF proxy_disable, netVars
<1>14. ASSUME NEW b \in BOOLEAN, proxy_lan_toggle(b) PROVE RuleType' /\ SafeConn(conn)'
  BY <1>1, <1>14 DEF proxy_lan_toggle, LanIdle
<1>15. CASE proxy_rescue \/ Bytes \/ Tick \/ LanRestore \/ LanAcceptFails \/ Launch
  BY <1>1, <1>15 DEF proxy_rescue, Bytes, Tick, LanRestore, LanAcceptFails, Launch, LanIdle, netVars
<1>16. CASE UNCHANGED vars
  BY <1>1, <1>16 DEF vars, netVars
<1> QED BY <1>2, <1>3, <1>4, <1>6, <1>7, <1>9, <1>10, <1>11, <1>12, <1>13, <1>14, <1>15, <1>16, <1>17 DEF Next

-----------------------------------------------------------------------------
(* The traffic totals. *)

(* The totals are numbers, the counter is bounded by MaxBytes. *)
TrafficType ==
  /\ cur \in 0 .. MaxBytes /\ base \in (0 .. MaxBytes) \cup {None}
  /\ {total, disk, due} \subseteq Nat /\ overtaken \in BOOLEAN

(* No flush holds more than has been counted. *)
ReadingsOk == \A t \in Threads : At(t, "merge") => th[t].reading <= cur

(* The counter only grows while a flush holds its reading. *)
LEMMA ReadingsKeep ==
  ASSUME TypeOK, ReadingsOk, Moves \/ UNCHANGED th, cur' \in Nat, cur <= cur'
  PROVE  ReadingsOk'
<1>0. cur \in Nat /\ \A t \in Threads : th[t].reading \in Nat
  BY ProxyAssumption DEF TypeOK
<1>1. CASE UNCHANGED th
  BY <1>0, <1>1 DEF ReadingsOk, At
<1>2. CASE Moves
  <2>1. PICK t \in Threads, r \in Thread : Turn(t, r) /\ (r.pc = "merge" => r.reading = cur)
    BY <1>2 DEF Moves
  <2>2. th'[t] = r /\ \A u \in Threads \ {t} : th'[u] = th[u]
    BY <2>1, TurnType
  <2>3. ASSUME NEW u \in Threads, th'[u].pc = "merge" PROVE th'[u].reading <= cur'
    BY <1>0, <2>1, <2>2, <2>3 DEF ReadingsOk, At
  <2> QED BY <2>3 DEF ReadingsOk, At
<1> QED BY <1>1, <1>2

(* A reading is merged (traffic_snapshot): the total grows by what the
   counter gained since the base. *)
LEMMA MergeKeeps ==
  ASSUME TypeOK, TrafficInv, NEW t \in Threads, TrafficMerge(t)
  PROVE  TrafficType' /\ TrafficInv'
<1> DEFINE r == th[t].reading
<1>0. /\ cur \in Nat /\ cur <= MaxBytes /\ MaxBytes \in Nat /\ r \in Nat /\ r <= cur
      /\ total \in Nat /\ due \in Nat /\ disk \in Nat /\ base \in Nat \cup {None}
      /\ None \notin Nat
  BY ProxyAssumption DEF TypeOK, TrafficInv, TrafficMerge, At
<1>1. /\ total' = total + (IF base # None /\ r > base THEN r - base ELSE 0)
      /\ base' = r
      /\ due' = IF base = None THEN total + cur - r ELSE due
      /\ cur' = cur /\ disk' = disk
  BY DEF TrafficMerge
<1>2. overtaken' = (overtaken \/ (base # None /\ r < base))
  BY DEF TrafficMerge
<1> HIDE DEF r
<1>3. /\ cur' \in 0 .. MaxBytes /\ base' \in 0 .. MaxBytes
      /\ total' \in Nat /\ due' \in Nat /\ disk' \in Nat
  BY <1>0, <1>1
<1>4. overtaken' \in BOOLEAN
  BY <1>2, Zenon
<1>5. ReadingsOk'
  <2>1. Moves
    BY MergeTurn DEF Moves, Puts
  <2> QED BY <1>0, <1>1, <2>1, ReadingsKeep DEF TrafficInv, ReadingsOk
<1>6. base' <= cur'
  BY <1>0, <1>1
<1>7. TrafficOnce'
  <2>1. CASE base = None
    BY <1>0, <1>1, <2>1 DEF TrafficOnce
  <2>2. CASE base # None /\ r < base
    <3>1. overtaken'
      BY <1>2, <2>2
    <3> QED BY <3>1 DEF TrafficOnce
  <2>3. CASE base # None /\ ~(r < base)
    <3>1. overtaken' => overtaken
      BY <1>2, <2>3
    <3>2. overtaken => overtaken'
      BY <1>2
    <3>3. ASSUME ~overtaken' PROVE total' + cur' - base' = due'
      <4>1. total + cur - base = due
        BY <2>3, <3>2, <3>3 DEF TrafficInv, TrafficOnce
      <4> QED BY <1>0, <1>1, <2>3, <4>1
    <3> QED BY <3>3 DEF TrafficOnce
  <2> QED BY <2>1, <2>2, <2>3
<1> QED BY <1>3, <1>4, <1>5, <1>6, <1>7 DEF TrafficType, TrafficInv, ReadingsOk

(* The engine counts a byte while a flush is between read and write. *)
LEMMA BytesKeeps ==
  ASSUME TypeOK, TrafficInv, Bytes
  PROVE  TrafficType' /\ TrafficInv'
<1>0. /\ cur \in Nat /\ MaxBytes \in Nat /\ total \in Nat /\ due \in Nat
      /\ disk \in Nat /\ base \in Nat \cup {None} /\ None \notin Nat
      /\ cur < MaxBytes /\ cur' = cur + 1 /\ overtaken \in BOOLEAN
      /\ base \in (0 .. MaxBytes) \cup {None}
  BY ProxyAssumption DEF TypeOK, Bytes
<1>1. /\ due' = IF base = None THEN due ELSE due + 1
      /\ UNCHANGED <<base, total, disk, th, overtaken>>
  BY DEF Bytes
<1>2. ReadingsOk'
  BY <1>0, <1>1, ReadingsKeep DEF TrafficInv, ReadingsOk
<1>3. cur' \in 0 .. MaxBytes /\ due' \in Nat
  BY <1>0, <1>1
<1>4. TrafficType'
  BY <1>0, <1>1, <1>3 DEF TrafficType
<1>5. base' # None => base' <= cur'
  BY <1>0, <1>1 DEF TrafficInv
<1>6. TrafficOnce'
  BY <1>0, <1>1 DEF TrafficInv, TrafficOnce
<1> QED BY <1>2, <1>4, <1>5, <1>6 DEF TrafficInv, ReadingsOk

(* Every step keeps the totals. *)
LEMMA NextTraffic ==
  ASSUME TypeOK, TrafficInv, [Next]_vars
  PROVE  TrafficType' /\ TrafficInv'
<1>0. cur \in Nat /\ TrafficType /\ \A t \in Threads : th[t].reading \in Nat
  BY ProxyAssumption DEF TypeOK, TrafficType
<1>1. CASE UNCHANGED <<cur, base, total, due, overtaken>> /\ disk' \in Nat /\ ~Vanish
  <2>1. ReadingsOk'
    BY <1>0, <1>1, NextMoves, ReadingsKeep DEF vars, TrafficInv, ReadingsOk
  <2>2. TrafficType'
    BY <1>0, <1>1 DEF TrafficType
  <2> QED BY <1>1, <2>1, <2>2 DEF TrafficInv, TrafficOnce, ReadingsOk
<1>2. CASE Vanish
  <2>1. /\ cur' = 0 /\ base' = None /\ total' = disk /\ due' = 0 /\ overtaken' = FALSE
        /\ disk' = disk /\ \A t \in Threads : th'[t] = Idle
    BY <1>2 DEF Vanish
  <2>2. 0 \in 0 .. MaxBytes /\ 0 \in Nat /\ disk \in Nat
    BY <1>0, ProxyAssumption DEF TrafficType
  <2>3. /\ cur' \in 0 .. MaxBytes /\ base' \in (0 .. MaxBytes) \cup {None}
        /\ overtaken' \in BOOLEAN
    BY <2>1, <2>2, Zenon
  <2>4. total' \in Nat /\ disk' \in Nat /\ due' \in Nat
    BY <2>1, <2>2, Zenon
  <2>5. TrafficType'
    BY <2>3, <2>4 DEF TrafficType
  <2> QED BY <2>1, <2>5, IdleType DEF TrafficInv, TrafficOnce, At
<1>3. CASE Bytes
  BY <1>3, BytesKeeps
<1>4. ASSUME NEW t \in Main \cup {"tick"}, TrafficMerge(t) PROVE TrafficType' /\ TrafficInv'
  BY <1>4, MergeKeeps DEF Main, Threads
<1>5. CASE UNCHANGED trafficVars
  <2>1. UNCHANGED <<cur, base, total, due, overtaken>> /\ disk' \in Nat
    BY <1>0, <1>5 DEF trafficVars, TrafficType
  <2> QED BY <1>1, <1>2, <2>1
<1>6. ASSUME NEW t \in Main \cup {"tick"}, SysStep(t) PROVE TrafficType' /\ TrafficInv'
  <2>1. CASE TrafficWrite(t)
    <3>1. UNCHANGED <<cur, base, total, due, overtaken>> /\ disk' \in Nat
      BY <1>0, <2>1 DEF TrafficWrite, Main, Threads
    <3> QED BY <1>1, <1>2, <3>1
  <2> QED BY <1>4, <1>5, <1>6, <2>1
          DEF SysStep, EnableRefused, EnableSnapshot, EngineUp, EnableSave, EnablePac,
              EnableRest, EnableKeep, EnableOn, Restore, RestoreEnable,
              RestoreRefused, RestorePac, Sweep, ClearFile, Forget, StampCheck,
              Stamp, TrafficRead, Unmoved, OtherwiseSame
<1>7. ASSUME NEW t \in {"lan", "boot"}, LanStep(t) PROVE UNCHANGED trafficVars
  BY <1>7 DEF LanStep, LanStop, LanBind, LanStore, LanCfgOff, LanIdle
<1>8. ASSUME NEW t \in Main, proxy_enable(t) \/ proxy_disable(t) PROVE UNCHANGED trafficVars
  BY <1>8 DEF proxy_enable, proxy_disable, Begin
<1>9. ASSUME NEW m, \/ proxy_mode_set(m) \/ proxy_whitelist_set(m)
                    \/ proxy_tunnel_set_url(m) \/ proxy_lan_toggle(m)
      PROVE  UNCHANGED trafficVars
  BY <1>9 DEF proxy_mode_set, proxy_whitelist_set, proxy_tunnel_set_url, Begin, proxy_lan_toggle, LanIdle
<1> QED BY <1>2, <1>3, <1>5, <1>6, <1>7, <1>8, <1>9
        DEF Next, vars, proxy_rescue, Tick, Client, LanRestore, LanAcceptFails,
            LanIdle, EngineEnds, Launch, Leave, Gone, Crash

-----------------------------------------------------------------------------
(* The user's settings. *)

(* The phases of the process. *)
Phases == {Down, Dead, "setup", "up", "exit1", "exit2", "gone"}

(* The types of the settings. *)
SysType ==
  /\ user \in Users /\ reg \in Settings
  /\ file \in Settings \cup {None} /\ snap \in Settings \cup {None}
  /\ on \in BOOLEAN /\ phase \in Phases /\ unsaved \in BOOLEAN /\ excused \in BOOLEAN

(* A restore that writes has settings to write. *)
PutInv == \A t \in Main : th[t].pc \in Puts => th[t].snap # None

(* The inductive invariant of the system proxy. *)
SysInv == SysType /\ PhaseInv /\ PutInv /\ SettingsInv

(* Every step of Next keeps that. *)
LEMMA NextPut ==
  ASSUME TypeOK, PutInv, [Next]_vars
  PROVE  PutInv'
<1>1. CASE UNCHANGED th
  BY <1>1 DEF PutInv
<1>2. CASE Vanish
  BY <1>2 DEF PutInv, Vanish, Idle, Puts, Main, Threads
<1>3. CASE Moves
  <2>1. PICK t \in Threads, r \in Thread :
          /\ Turn(t, r)
          /\ r.pc \in Puts => \/ r.snap # None
                              \/ At(t, "putEnable") /\ r.snap = th[t].snap
    BY <1>3 DEF Moves
  <2>2. th'[t] = r /\ \A u \in Threads \ {t} : th'[u] = th[u]
    BY <2>1, TurnType
  <2>3. ASSUME NEW u \in Main, th'[u].pc \in Puts PROVE th'[u].snap # None
    BY <2>1, <2>2, <2>3 DEF PutInv, At, Puts, Main, Threads
  <2> QED BY <2>3 DEF PutInv
<1> QED BY <1>1, <1>2, <1>3, NextMoves DEF vars

(* Steps that leave the settings and the threads of Main alone. *)
Elsewhere ==
  /\ UNCHANGED <<sysVars, phase>>
  /\ th'["ui"] = th["ui"] /\ th'["bg"] = th["bg"]
  /\ th'["tick"].pc \in {"idle", "flush", "merge", "write"}

(* A step that touches neither the settings nor the two command threads
   keeps the invariant. *)
LEMMA ElsewhereKeeps ==
  ASSUME SysInv, Elsewhere
  PROVE  SysType' /\ PhaseInv' /\ SettingsInv'
<1>1. SysType'
  BY DEF SysInv, SysType, Elsewhere, sysVars
<1>2. PhaseInv'
  BY DEF SysInv, PhaseInv, Elsewhere, sysVars, At, Clean
<1>3. SettingsInv'
  <2>1. \A t \in Main : th'[t] = th[t]
    BY DEF Elsewhere, Main
  <2>2. ASSUME NEW t \in Main, PcInv(th[t]) PROVE PcInv(th[t])'
    BY <2>1, <2>2 DEF PcInv, Elsewhere, sysVars, Clean, Held, Settled, Ours
  <2> QED BY <2>1, <2>2 DEF SysInv, SettingsInv, Kept, Quiet, At, Clean, Held, Settled, Ours, Elsewhere, sysVars, Main
<1> QED BY <1>1, <1>2, <1>3

(* A turn of another thread is such a step. *)
LEMMA ElsewhereTurn ==
  ASSUME TypeOK, PhaseInv, UNCHANGED <<sysVars, phase>>, NEW t \in Threads \ Main,
         NEW r \in Thread, Turn(t, r),
         t = "tick" => r.pc \in {"idle", "flush", "merge", "write"}
  PROVE  Elsewhere
<1>1. th'[t] = r /\ \A u \in Threads \ {t} : th'[u] = th[u]
  BY TurnType
<1> QED BY <1>1 DEF Elsewhere, PhaseInv, Threads, Main

(* So is a flush of the ticker. *)
LEMMA TickStep ==
  ASSUME TypeOK, SysInv, SysStep("tick")
  PROVE  Elsewhere
<1>0. th["tick"].pc \in {"idle", "flush", "merge", "write"} /\ "tick" \in Threads \ Main
  BY DEF SysInv, PhaseInv, Threads, Main
<1>1. TrafficRead("tick") \/ TrafficMerge("tick") \/ TrafficWrite("tick")
  BY <1>0 DEF SysStep, At, EnableRefused, EnableSnapshot, EnableSave, EnablePac,
              EnableRest, EnableKeep, EnableOn, Restore, RestoreEnable,
              RestoreRefused, RestorePac, Sweep, ClearFile, Forget, StampCheck, Stamp
<1>2. UNCHANGED <<sysVars, phase>>
  BY <1>1 DEF TrafficRead, TrafficMerge, TrafficWrite, End
<1>3. PICK r \in Thread : Turn("tick", r) /\ r.pc \in {"idle", "merge", "write"}
  BY <1>0, <1>1, TrafficReadTurn, MergeTurn, DoneType, IdleType DEF TrafficWrite, End
<1> QED BY <1>0, <1>2, <1>3, ElsewhereTurn DEF SysInv

(* So are the connection's, the LAN listener's and the engine's own steps. *)
LEMMA OtherSteps ==
  ASSUME TypeOK, SysInv,
         \/ Tick \/ Bytes \/ Client \/ LanRestore \/ LanAcceptFails \/ EngineEnds
         \/ \E b \in BOOLEAN : proxy_lan_toggle(b)
         \/ \E t \in {"lan", "boot"} : LanStep(t)
         \/ UNCHANGED vars
  PROVE  Elsewhere
<1>1. UNCHANGED <<sysVars, phase>>
  BY DEF Tick, Bytes, Client, LanRestore, LanAcceptFails, EngineEnds, proxy_lan_toggle,
         LanStep, LanStop, LanBind, LanStore, LanCfgOff, LanIdle, vars
<1>2. CASE UNCHANGED th
  BY <1>1, <1>2 DEF Elsewhere, SysInv, PhaseInv
<1>3. ASSUME NEW t \in {"lan", "boot"}, Done(t) PROVE Elsewhere
  BY <1>1, <1>3, DoneType, IdleType, ElsewhereTurn DEF SysInv, Threads, Main
<1>4. ASSUME NEW t \in {"lan", "boot"}, NEW p \in Pcs, Go(t, p) PROVE Elsewhere
  <2>1. PICK r \in Thread : Turn(t, r)
    BY <1>4, GoType DEF Threads
  <2> QED BY <1>1, <2>1, ElsewhereTurn DEF SysInv, Threads, Main
<1>5. CASE Tick
  <2>1. PICK r \in Thread : Turn("tick", r) /\ r.pc = "flush"
    BY <1>5, GoType DEF Tick, Threads, Pcs
  <2> QED BY <1>1, <2>1, ElsewhereTurn DEF SysInv, Threads, Main
<1>6. ASSUME NEW t \in {"lan", "boot"}, LanStep(t) PROVE Elsewhere
  BY <1>3, <1>4, <1>6 DEF LanStep, LanStop, LanBind, LanStore, LanCfgOff, Pcs
<1>7. ASSUME NEW b \in BOOLEAN, proxy_lan_toggle(b) PROVE Elsewhere
  BY <1>4, <1>7 DEF proxy_lan_toggle, Pcs
<1>8. CASE LanRestore
  BY <1>4, <1>8 DEF LanRestore, Pcs
<1> QED BY <1>2, <1>5, <1>6, <1>7, <1>8 DEF Bytes, Client, LanAcceptFails, EngineEnds, vars

(* A thread of Main that is busy is alone, as long as nothing is excused. *)
LEMMA Alone ==
  ASSUME SysInv, ~excused, NEW t \in Main, ~At(t, "idle")
  PROVE  /\ \A u \in Main \ {t} : At(u, "idle")
         /\ t = "bg" => phase = "up"
         /\ PcInv(th[t]) /\ Kept
BY DEF SysInv, SettingsInv, Main

(* t goes on to r, within its command. *)
LEMMA GoesOn ==
  ASSUME TypeOK, SysInv, NEW t \in Main, ~At(t, "idle"), NEW r \in Thread,
         Turn(t, r), r.pc # "idle", UNCHANGED phase,
         phase = "setup" => Clean' /\ r.pc \in Restoring,
         phase \in {"exit1", "exit2"} =>
           r.pc \in Restoring \cup {"forget", "flush", "merge", "write"} \/ t # "ui",
         ~excused' => ~excused /\ Kept' /\ PcInv(r)'
  PROVE  PhaseInv' /\ SettingsInv'
<1>0. th'[t] = r /\ (\A u \in Threads \ {t} : th'[u] = th[u])
      /\ Main \subseteq Threads /\ "tick" \in Threads \ Main
  BY TurnType DEF Main, Threads
<1>1. PhaseInv'
  <2>1. th'["tick"] = th["tick"] /\ (t = "ui" \/ th'["ui"] = th["ui"]) /\ (t = "bg" \/ th'["bg"] = th["bg"])
    BY <1>0 DEF Main
  <2>2. CASE t = "ui"
    BY <1>0, <2>1, <2>2 DEF SysInv, PhaseInv, At
  <2>3. CASE t = "bg"
    BY <1>0, <2>1, <2>3 DEF SysInv, PhaseInv, At
  <2> QED BY <2>2, <2>3 DEF Main
<1>2. SettingsInv'
  <2> SUFFICES ASSUME ~excused' PROVE SettingsInv'
    BY DEF SettingsInv
  <2>1. /\ \A u \in Main \ {t} : At(u, "idle") /\ th'[u] = th[u]
        /\ t = "bg" => phase = "up"
    BY <1>0, Alone
  <2>2. \A u \in Main : PcInv(th[u])'
    <3> SUFFICES ASSUME NEW u \in Main PROVE PcInv(th[u])'
      OBVIOUS
    <3>1. CASE u = t
      BY <1>0, <3>1 DEF PcInv
    <3>2. CASE u # t
      BY <2>1, <3>2 DEF PcInv, At
    <3> QED BY <3>1, <3>2
  <2>3. ~Quiet(Main)'
    BY <1>0 DEF Quiet, At
  <2> QED BY <1>0, <2>1, <2>2, <2>3 DEF SettingsInv, At, Main
<1> QED BY <1>1, <1>2

(* t is done with its command. *)
LEMMA Finishes ==
  ASSUME TypeOK, SysInv, NEW t \in Main, ~At(t, "idle"), Done(t),
         t = "ui" => phase' \notin {Down, Dead, "setup"},
         t # "ui" => UNCHANGED phase /\ (phase = "setup" => UNCHANGED <<snap, on>>),
         ~excused' => /\ ~excused /\ Kept' /\ Settled'
                      /\ phase' \in {"exit2", "gone", Down} => ~on'
  PROVE  PhaseInv' /\ SettingsInv'
<1>0. /\ th'[t] = Idle /\ (\A u \in Threads \ {t} : th'[u] = th[u])
      /\ Main \subseteq Threads /\ "tick" \in Threads \ Main /\ Idle.pc = "idle"
  BY DoneType, IdleType, TurnType DEF Main, Threads
<1>1. PhaseInv'
  <2>1. th'["tick"] = th["tick"] /\ (t = "ui" \/ th'["ui"] = th["ui"]) /\ (t = "bg" \/ th'["bg"] = th["bg"])
    BY <1>0 DEF Main
  <2>2. CASE t = "ui"
    BY <1>0, <2>1, <2>2 DEF SysInv, PhaseInv, At
  <2>3. CASE t = "bg"
    BY <1>0, <2>1, <2>3 DEF SysInv, PhaseInv, At
  <2> QED BY <2>2, <2>3 DEF Main
<1>2. SettingsInv'
  <2> SUFFICES ASSUME ~excused' PROVE SettingsInv'
    BY DEF SettingsInv
  <2>1. \A u \in Main : th'[u].pc = "idle"
    BY <1>0, Alone DEF At
  <2>2. \A u \in Main : PcInv(th[u])'
    BY <2>1 DEF PcInv
  <2> QED BY <2>1, <2>2 DEF SettingsInv, At, Main
<1> QED BY <1>1, <1>2

(* The user's own settings never name the program's script. *)
LEMMA UserFacts ==
  ASSUME SysType
  PROVE  user \in Settings /\ user # None /\ user.pac # "ours"
BY ProxyAssumption DEF SysType, Users, Settings

(* Writing the script's address takes the settings over. *)
LEMMA PacOurs ==
  ASSUME reg \in Settings, reg' = [reg EXCEPT !.pac = "ours"]
  PROVE  reg' \in Settings /\ reg'.pac = "ours"
BY DEF Settings

(* A thread that enables is neither at the start nor leaving. *)
LEMMA InUp ==
  ASSUME SysInv, NEW t \in Main,
         th[t].pc \in {"snapshot", "save", "pac", "enable", "keep", "on", "check", "stamp"}
  PROVE  /\ ~At(t, "idle") /\ phase \notin {Down, Dead, "setup"}
         /\ t = "ui" => phase \notin {"exit1", "exit2", "gone"}
BY DEF SysInv, PhaseInv, At, Main, Restoring

(* proxy_enable, step by step: the file is written before the registry is
   touched. *)
LEMMA EnableKeepsInv ==
  ASSUME TypeOK, SysInv, NEW t \in Main,
         \/ EnableRefused(t) \/ EnableSnapshot(t) \/ EnableSave(t) \/ EnablePac(t)
         \/ EnableRest(t) \/ EnableKeep(t) \/ EnableOn(t)
  PROVE  SysType' /\ PhaseInv' /\ SettingsInv'
<1>0. /\ t \in Threads /\ th[t].pc \in {"snapshot", "save", "pac", "enable", "keep", "on"}
      /\ th[t].snap \in Settings \cup {None}
  BY DEF Main, Threads, EnableRefused, EnableSnapshot, EnableSave, EnablePac,
         EnableRest, EnableKeep, EnableOn, At, TypeOK
<1>1. /\ ~At(t, "idle") /\ phase \notin {Down, Dead, "setup"}
      /\ t = "ui" => phase \notin {"exit1", "exit2", "gone"}
  BY <1>0, InUp
<1>2. /\ UNCHANGED <<user, phase, excused>> /\ unsaved' \in BOOLEAN
      /\ th[t].pc = "save" \/ UNCHANGED unsaved
  BY DEF EnableRefused, EnableSnapshot, EnableSave, EnablePac, EnableRest, EnableKeep,
         EnableOn, EngineUp, Unmoved, OtherwiseSame, sysVars, SysInv, SysType, At
<1>3. ~excused => /\ PcInv(th[t]) /\ Kept /\ (t = "bg" => phase = "up")
  BY <1>1, Alone
<1>4. /\ user \in Settings /\ user # None /\ user.pac # "ours"
  BY UserFacts DEF SysInv
<1>5. ASSUME NEW r \in Thread, Turn(t, r), r.pc # "idle",
             ~excused => Kept' /\ PcInv(r)'
      PROVE  PhaseInv' /\ SettingsInv'
  BY <1>1, <1>2, <1>5, GoesOn
<1>6. ASSUME Done(t), ~excused => Kept' /\ Settled'
      PROVE  PhaseInv' /\ SettingsInv'
  <2>1. ~excused => phase \notin {"exit2", "gone", Down}
    BY <1>1, <1>3 DEF Main
  <2> QED BY <1>1, <1>2, <1>6, <2>1, Finishes
<1>7. CASE EnableRefused(t)
  <2>1. Done(t) /\ UNCHANGED sysVars /\ SysType'
    BY <1>2, <1>7 DEF EnableRefused, sysVars, SysInv, SysType
  <2>2. ~excused => Kept' /\ Settled'
    BY <1>3, <1>7, <2>1 DEF EnableRefused, At, PcInv, Kept, Settled, Clean, sysVars, Ours, Held
  <2> QED BY <1>6, <2>1, <2>2
<1>8. CASE EnableSnapshot(t)
  <2>1. PICK r \in Thread : Turn(t, r) /\ r.pc = "save" /\ r.snap = reg
    BY <1>0, <1>8, SnapshotTurn
  <2>2. UNCHANGED sysVars /\ SysType'
    BY <1>2, <1>8 DEF EnableSnapshot, EngineUp, sysVars, SysInv, SysType
  <2>3. ~excused => Kept' /\ PcInv(r)'
    BY <1>3, <1>8, <2>1, <2>2 DEF EnableSnapshot, At, PcInv, Kept, Clean, sysVars, Ours
  <2> QED BY <1>5, <2>1, <2>2, <2>3
<1>9. CASE EnableSave(t)
  <2>1. PICK r \in Thread : Turn(t, r) /\ r.pc = "pac" /\ r.snap = th[t].snap
    BY <1>0, <1>9, GoType DEF EnableSave, Pcs
  <2>2. /\ UNCHANGED <<reg, snap, on>> /\ SysType'
        /\ (file' = th[t].snap /\ unsaved' = FALSE) \/ unsaved' = TRUE
    BY <1>0, <1>2, <1>9 DEF EnableSave, SysInv, SysType
  <2>3. ~excused => Kept' /\ PcInv(r)'
    BY <1>2, <1>3, <1>9, <2>1, <2>2 DEF EnableSave, At, PcInv, Kept, Clean
  <2> QED BY <1>5, <2>1, <2>2, <2>3
<1>10. CASE EnablePac(t)
  <2>1. CASE Done(t) /\ UNCHANGED reg
    <3>1. UNCHANGED <<reg, file, snap, on>> /\ SysType'
      BY <1>2, <1>10, <2>1 DEF EnablePac, SysInv, SysType
    <3>2. ~excused => Kept' /\ Settled'
      BY <1>2, <1>3, <1>10, <3>1 DEF EnablePac, At, PcInv, Kept, Settled, Clean
    <3> QED BY <1>6, <2>1, <3>1, <3>2
  <2>2. CASE reg' = [reg EXCEPT !.pac = "ours"] /\ Go(t, "enable")
    <3>1. PICK r \in Thread : Turn(t, r) /\ r.pc = "enable" /\ r.snap = th[t].snap
      BY <1>0, <2>2, GoType DEF Pcs
    <3>2. UNCHANGED <<file, snap, on>> /\ reg' \in Settings /\ reg'.pac = "ours"
      BY <1>10, <2>2, PacOurs DEF EnablePac, SysInv, SysType
    <3>3. SysType'
      BY <1>2, <3>2 DEF SysInv, SysType
    <3>4. ~excused => Kept' /\ PcInv(r)'
      BY <1>2, <1>3, <1>10, <3>1, <3>2 DEF EnablePac, At, PcInv, Kept, Clean, Ours
    <3> QED BY <1>5, <3>1, <3>3, <3>4
  <2> QED BY <1>10, <2>1, <2>2 DEF EnablePac
<1>11. CASE EnableRest(t)
  <2>1. PICK r \in Thread : Turn(t, r) /\ r.pc = "keep" /\ r.snap = th[t].snap
    BY <1>0, <1>11, GoType DEF EnableRest, Pcs
  <2>2. UNCHANGED <<file, snap, on>> /\ reg' \in Settings /\ reg'.pac = "ours"
    BY <1>11 DEF EnableRest, Settings
  <2>3. SysType'
    BY <1>2, <2>2 DEF SysInv, SysType
  <2>4. ~excused => Kept' /\ PcInv(r)'
    BY <1>2, <1>3, <1>11, <2>1, <2>2 DEF EnableRest, At, PcInv, Kept, Clean, Ours
  <2> QED BY <1>5, <2>1, <2>3, <2>4
<1>12. CASE EnableKeep(t)
  <2>1. PICK r \in Thread : Turn(t, r) /\ r.pc = "on" /\ r.snap = th[t].snap
    BY <1>0, <1>12, GoType DEF EnableKeep, Pcs
  <2>2. UNCHANGED <<reg, file, on>> /\ snap' = th[t].snap /\ SysType'
    BY <1>0, <1>2, <1>12 DEF EnableKeep, SysInv, SysType
  <2>3. ~excused => Kept' /\ PcInv(r)'
    BY <1>2, <1>3, <1>12, <2>1, <2>2 DEF EnableKeep, At, PcInv, Kept, Ours
  <2> QED BY <1>5, <2>1, <2>2, <2>3
<1>13. CASE EnableOn(t)
  <2>1. Done(t) /\ UNCHANGED <<reg, file, snap>> /\ on' = TRUE
    BY <1>13 DEF EnableOn
  <2>2. SysType'
    BY <1>2, <2>1 DEF SysInv, SysType
  <2>3. ~excused => Kept' /\ Settled'
    BY <1>2, <1>3, <1>13, <2>1 DEF EnableOn, At, PcInv, Kept, Settled, Held, Ours
  <2> QED BY <1>6, <2>1, <2>2, <2>3
<1> QED BY <1>7, <1>8, <1>9, <1>10, <1>11, <1>12, <1>13

(* A change of the rules stamps the script's address anew, only while the
   proxy is on. *)
LEMMA StampKeepsInv ==
  ASSUME TypeOK, SysInv, NEW t \in Main, StampCheck(t) \/ Stamp(t)
  PROVE  SysType' /\ PhaseInv' /\ SettingsInv'
<1>0. t \in Threads /\ th[t].pc \in {"check", "stamp"}
  BY DEF Main, Threads, StampCheck, Stamp, At
<1>1. /\ ~At(t, "idle") /\ phase \notin {Down, Dead, "setup"}
      /\ t = "ui" => phase \notin {"exit1", "exit2", "gone"}
  BY <1>0, InUp
<1>2. UNCHANGED <<user, phase, excused, file, unsaved, snap, on>>
  BY DEF StampCheck, Stamp, Unmoved, OtherwiseSame
<1>3. ~excused => /\ PcInv(th[t]) /\ Kept /\ (t = "bg" => phase = "up")
  BY <1>1, Alone
<1>4. ~excused => phase \notin {"exit2", "gone", Down}
  BY <1>1, <1>3 DEF Main
<1>5. reg' \in Settings /\ (Ours => reg'.pac = "ours")
  BY PacOurs DEF StampCheck, Stamp, SysInv, SysType, Ours
<1>6. SysType'
  BY <1>2, <1>5 DEF SysInv, SysType
<1>7. ~excused => Kept' /\ Held' /\ Settled'
  BY <1>0, <1>2, <1>3, <1>5 DEF PcInv, Kept, Held, Ours, Settled
<1>8. CASE Done(t)
  BY <1>1, <1>2, <1>4, <1>6, <1>7, <1>8, Finishes
<1>9. CASE Go(t, "stamp")
  <2>1. PICK r \in Thread : Turn(t, r) /\ r.pc = "stamp"
    BY <1>0, <1>9, GoType DEF Pcs
  <2>2. ~excused => PcInv(r)'
    BY <1>7, <2>1 DEF PcInv
  <2> QED BY <1>1, <1>2, <1>6, <1>7, <2>1, <2>2, GoesOn
<1> QED BY <1>8, <1>9 DEF StampCheck, Stamp

(* Where End(t) leaves the process. *)
LEMMA EndPhase ==
  ASSUME SysInv, NEW t \in Main, ~At(t, "idle"), End(t)
  PROVE  /\ Done(t) /\ phase' \in Phases
         /\ t = "ui" => phase' \notin {Down, Dead, "setup"}
         /\ t # "ui" => UNCHANGED phase
         /\ phase = "up" => UNCHANGED phase
<1>1. t = "ui" => phase \in {"setup", "up", "exit1", "exit2"}
  BY DEF SysInv, SysType, PhaseInv, Phases
<1>2. phase \in Phases
  BY DEF SysInv, SysType
<1>3. CASE t # "ui" \/ phase = "up"
  BY <1>2, <1>3 DEF End, Down, Dead
<1>4. CASE t = "ui" /\ phase \in {"setup", "exit1", "exit2"}
  BY <1>4 DEF End, Phases, Down, Dead
<1> QED BY <1>1, <1>3, <1>4

(* proxy_disable, the start-up clean-up and the exit path, step by step: the
   file goes only when the registry is back. *)
LEMMA RestoreKeepsInv ==
  ASSUME TypeOK, SysInv, NEW t \in Main,
         \/ Restore(t) \/ RestoreEnable(t) \/ RestoreRefused(t) \/ RestorePac(t)
         \/ Sweep(t) \/ ClearFile(t) \/ Forget(t)
  PROVE  SysType' /\ PhaseInv' /\ SettingsInv'
<1>0. /\ t \in Threads /\ th[t].pc \in Restoring \cup {"forget"} /\ ~At(t, "idle")
      /\ th[t].pc \in Puts => th[t].snap \in Settings
  BY DEF Main, Threads, Restore, RestoreEnable, RestoreRefused, RestorePac, Sweep,
         ClearFile, Forget, At, Restoring, TypeOK, SysInv, PutInv
<1>1. UNCHANGED user /\ (excused => excused')
  <2>1. CASE RestoreRefused(t)
    BY <2>1 DEF RestoreRefused
  <2>2. CASE RestoreEnable(t) \/ RestorePac(t) \/ Sweep(t) \/ ClearFile(t) \/ Forget(t)
    BY <2>2 DEF RestoreEnable, RestorePac, Sweep, ClearFile, Forget, Unmoved, OtherwiseSame
  <2>3. CASE Restore(t)
    <3>1. excused => excused'
      BY <1>0, <2>3, RestoreTurn
    <3> QED BY <2>3, <3>1 DEF Restore, OtherwiseSame
  <2> QED BY <2>1, <2>2, <2>3
<1>2. ~excused => PcInv(th[t]) /\ Kept /\ (t = "bg" => phase = "up")
  BY <1>0, Alone
<1>3. /\ user \in Settings /\ user # None /\ user.pac # "ours" /\ SysType
  BY UserFacts DEF SysInv
<1>4. ASSUME NEW r \in Thread, Turn(t, r), UNCHANGED phase,
             r.pc \in Restoring \cup {"forget", "flush"},
             phase = "setup" => UNCHANGED <<snap, on>> /\ r.pc \in Restoring,
             ~excused' => Kept' /\ PcInv(r)'
      PROVE  PhaseInv' /\ SettingsInv'
  <2>1. phase = "setup" => Clean'
    BY <1>4 DEF SysInv, PhaseInv, Clean
  <2> QED BY <1>0, <1>1, <1>4, <2>1, GoesOn DEF Restoring
<1>5. CASE Restore(t)
  <2>1. PICK r \in Thread :
          /\ Turn(t, r) /\ r.pc = IF PutsBack(r.snap) THEN "putEnable" ELSE "sweep"
          /\ r.snap \in IF HeldSnap THEN {snap} ELSE {file, None}
          /\ excused' <=> \/ excused
                         \/ /\ ~HeldSnap /\ (unsaved \/ r.snap # file)
                            /\ IF PutsBack(r.snap) THEN r.snap # user ELSE Ours
    BY <1>0, <1>5, RestoreTurn
  <2>2. UNCHANGED <<reg, file, unsaved, snap, on, phase, user>> /\ th[t].pc = "restore"
    BY <1>5 DEF Restore, OtherwiseSame, At
  <2>3. SysType'
    <3>1. excused' \in BOOLEAN
      <4>1. PICK b \in BOOLEAN : excused' = b
        <5>1. PICK x : excused' = (excused \/ (~HeldSnap /\ (unsaved \/ x # file)
                                    /\ IF PutsBack(x) THEN x # user ELSE Ours))
          BY <1>5, Zenon DEF Restore, HeldSnap
        <5> QED BY <5>1, Zenon
      <4> QED BY <4>1
    <3> QED BY <1>3, <2>2, <3>1 DEF SysType
  <2>4. ~excused => Kept'
    BY <1>2, <2>2 DEF Kept, Ours
  <2>5. ASSUME ~excused' PROVE PcInv(r)'
    <3>1. ~excused /\ Kept /\ (Settled \/ (phase = "setup" /\ Clean))
      BY <1>1, <1>2, <2>2, <2>5 DEF PcInv
    <3>2. CASE r.pc = "putEnable"
      <4>1. PutsBack(r.snap) /\ r.snap # None
        BY <2>1, <3>2 DEF PutsBack
      <4>2. r.snap = user
        BY <2>1, <2>5, <3>1, <4>1 DEF Kept, HeldSnap
      <4> QED BY <2>2, <3>1, <3>2, <4>2 DEF PcInv, Settled, Held, Clean, Ours
    <3>3. CASE r.pc = "sweep"
      <4>1. ~PutsBack(r.snap)
        BY <2>1, <3>3
      <4>2. reg = user
        <5>1. CASE HeldSnap
          BY <2>1, <3>1, <4>1, <5>1 DEF HeldSnap, PutsBack
        <5>2. CASE ~HeldSnap /\ (unsaved \/ r.snap # file)
          BY <2>1, <2>5, <3>1, <4>1, <5>2 DEF Kept
        <5>3. CASE ~unsaved /\ r.snap = file
          BY <1>3, <3>1, <4>1, <5>3 DEF Kept, PutsBack
        <5> QED BY <5>1, <5>2, <5>3
      <4> QED BY <2>2, <3>3, <4>2 DEF PcInv
    <3> QED BY <2>1, <3>2, <3>3
  <2>6. r.pc \in Restoring
    BY <2>1 DEF Restoring
  <2> HIDE DEF SysInv
  <2> QED BY <1>1, <1>4, <2>1, <2>2, <2>3, <2>4, <2>5, <2>6
<1>6. CASE RestoreEnable(t)
  <2>1. PICK r \in Thread : Turn(t, r) /\ r.pc = "putPac" /\ r.snap = th[t].snap
    BY <1>0, <1>6, GoType DEF RestoreEnable, Pcs
  <2>2. /\ UNCHANGED <<file, unsaved, snap, on, phase, user, excused>> /\ th[t].pc = "putEnable"
        /\ reg' = [reg EXCEPT !.enable = th[t].snap.enable]
    BY <1>6 DEF RestoreEnable, Unmoved, OtherwiseSame, At
  <2>3. /\ reg \in Settings /\ th[t].snap \in Settings
    BY <1>0, <1>3, <2>2 DEF SysType, Puts
  <2>4. reg' \in Settings /\ reg'.pac = reg.pac /\ reg'.enable = th[t].snap.enable
    BY <2>2, <2>3 DEF Settings
  <2>5. SysType'
    BY <1>3, <2>2, <2>4 DEF SysType
  <2>6. ASSUME ~excused PROVE Kept' /\ PcInv(r)'
    <3>1. Kept /\ th[t].snap = user
      BY <1>2, <2>2, <2>6 DEF PcInv
    <3>2. reg = user => reg' = user
      BY <1>3, <2>2, <3>1 DEF Settings
    <3>3. Kept'
      BY <2>2, <2>4, <3>1, <3>2 DEF Kept, Ours
    <3> QED BY <2>1, <2>2, <2>4, <3>1, <3>3 DEF PcInv
  <2> QED BY <1>4, <2>1, <2>2, <2>5, <2>6 DEF Restoring
<1>7. CASE RestoreRefused(t)
  <2>1. /\ UNCHANGED <<reg, file, unsaved, snap, on, user>> /\ th[t].pc = "putEnable"
        /\ excused' = (excused \/ snap = None \/ phase # "up")
    BY <1>7 DEF RestoreRefused, At
  <2>2. excused' \in BOOLEAN
    BY <2>1, Zenon
  <2>3. CASE (snap # None \/ phase = "setup") /\ End(t)
    <3>1. /\ Done(t) /\ phase' \in Phases
          /\ t = "ui" => phase' \notin {Down, Dead, "setup"}
          /\ t # "ui" => UNCHANGED phase
          /\ phase = "up" => UNCHANGED phase
      BY <1>0, <2>3, EndPhase
    <3>2. SysType'
      BY <1>3, <2>1, <2>2, <3>1 DEF SysType
    <3>3. ASSUME ~excused' PROVE ~excused /\ Kept' /\ Settled' /\ phase' = "up"
      <4>1. ~excused /\ snap # None /\ phase = "up"
        BY <2>1, <3>3
      <4>2. Kept /\ Settled
        BY <1>2, <2>1, <4>1 DEF PcInv
      <4> QED BY <2>1, <3>1, <4>1, <4>2 DEF Kept, Settled, Held, Clean, Ours
    <3>4. t # "ui" => UNCHANGED phase /\ (phase = "setup" => UNCHANGED <<snap, on>>)
      BY <2>1, <3>1
    <3>5. ~excused' => /\ ~excused /\ Kept' /\ Settled'
                       /\ phase' \in {"exit2", "gone", Down} => ~on'
      BY <3>3 DEF Down
    <3>6. PhaseInv' /\ SettingsInv'
      BY <1>0, <3>1, <3>4, <3>5, Finishes
    <3> QED BY <3>2, <3>6
  <2>4. CASE snap = None /\ phase # "setup" /\ Go(t, "forget") /\ UNCHANGED phase
    <3>1. PICK r \in Thread : Turn(t, r) /\ r.pc = "forget"
      BY <1>0, <2>4, GoType DEF Pcs
    <3>2. SysType'
      BY <1>3, <2>1, <2>2, <2>4 DEF SysType
    <3>3. excused'
      BY <2>1, <2>4
    <3> QED BY <1>4, <2>4, <3>1, <3>2, <3>3
  <2> QED BY <1>7, <2>3, <2>4 DEF RestoreRefused
<1>8. CASE RestorePac(t)
  <2>1. PICK r \in Thread : Turn(t, r) /\ r.pc = "clear" /\ r.snap = th[t].snap
    BY <1>0, <1>8, GoType DEF RestorePac, Pcs
  <2>2. /\ UNCHANGED <<file, unsaved, snap, on, phase, user, excused>> /\ th[t].pc = "putPac"
        /\ reg' = [reg EXCEPT !.pac = th[t].snap.pac]
    BY <1>8 DEF RestorePac, Unmoved, OtherwiseSame, At
  <2>3. /\ reg \in Settings /\ th[t].snap \in Settings
    BY <1>0, <1>3, <2>2 DEF SysType, Puts
  <2>4. reg' \in Settings
    BY <2>2, <2>3 DEF Settings
  <2>5. SysType'
    BY <1>3, <2>2, <2>4 DEF SysType
  <2>6. ASSUME ~excused PROVE Kept' /\ PcInv(r)'
    <3>1. Kept /\ th[t].snap = user /\ reg.enable = user.enable
      BY <1>2, <2>2, <2>6 DEF PcInv
    <3>2. reg' = user
      BY <1>3, <2>2, <2>3, <3>1 DEF Settings
    <3> QED BY <2>1, <2>2, <3>1, <3>2 DEF PcInv, Kept
  <2> QED BY <1>4, <2>1, <2>2, <2>5, <2>6 DEF Restoring
<1>12. ASSUME After(t), UNCHANGED <<snap, on, user, excused>>, reg' \in Settings,
              file' \in Settings \cup {None}, unsaved' \in BOOLEAN,
              ~excused => Kept' /\ reg' = user'
       PROVE  SysType' /\ PhaseInv' /\ SettingsInv'
  <2>3. CASE phase = "setup" /\ End(t)
    <3>1. /\ Done(t) /\ phase' \in Phases
          /\ t = "ui" => phase' \notin {Down, Dead, "setup"}
          /\ t # "ui" => UNCHANGED phase
      BY <1>0, <2>3, EndPhase
    <3>2. SysType'
      BY <1>3, <1>12, <3>1 DEF SysType
    <3>3. Clean'
      BY <1>12, <2>3 DEF SysInv, PhaseInv, Clean
    <3>4. t # "ui" => UNCHANGED phase /\ (phase = "setup" => UNCHANGED <<snap, on>>)
      BY <1>12, <3>1
    <3>5. ~excused' => /\ ~excused /\ Kept' /\ Settled'
                       /\ phase' \in {"exit2", "gone", Down} => ~on'
      BY <1>12, <3>3 DEF Settled, Clean
    <3>6. PhaseInv' /\ SettingsInv'
      BY <1>0, <3>1, <3>4, <3>5, Finishes
    <3> QED BY <3>2, <3>6
  <2>4. CASE phase # "setup" /\ Go(t, "forget") /\ UNCHANGED phase
    <3>1. PICK r \in Thread : Turn(t, r) /\ r.pc = "forget"
      BY <1>0, <2>4, GoType DEF Pcs
    <3>2. SysType'
      BY <1>3, <1>12, <2>4 DEF SysType
    <3>3. ~excused' => PcInv(r)'
      BY <1>12, <3>1 DEF PcInv
    <3> QED BY <1>4, <1>12, <2>4, <3>1, <3>2, <3>3
  <2> QED BY <1>12, <2>3, <2>4 DEF After
<1>9. CASE Sweep(t)
  <2>2. /\ UNCHANGED <<file, unsaved, snap, on, user, excused>> /\ th[t].pc = "sweep"
        /\ reg' = IF Ours THEN [reg EXCEPT !.pac = None] ELSE reg
    BY <1>9 DEF Sweep, At
  <2>3. reg' \in Settings /\ file' \in Settings \cup {None} /\ unsaved' \in BOOLEAN
    BY <1>3, <2>2 DEF SysType, Settings
  <2>5. ASSUME ~excused PROVE Kept' /\ reg' = user'
    <3>1. Kept /\ reg = user
      BY <1>2, <2>2, <2>5 DEF PcInv
    <3>2. reg' = user
      BY <1>3, <2>2, <3>1 DEF Ours
    <3> QED BY <2>2, <3>1, <3>2 DEF Kept
  <2>6. CASE After(t)
    BY <1>12, <2>2, <2>3, <2>5, <2>6
  <2>7. CASE Go(t, "clear") /\ UNCHANGED phase
    <3>1. PICK r \in Thread : Turn(t, r) /\ r.pc = "clear"
      BY <1>0, <2>7, GoType DEF Pcs
    <3>2. SysType'
      BY <1>3, <2>2, <2>3, <2>7 DEF SysType
    <3>3. ~excused' => Kept' /\ PcInv(r)'
      BY <2>2, <2>5, <3>1 DEF PcInv
    <3> QED BY <1>4, <2>2, <2>7, <3>1, <3>2, <3>3 DEF Restoring
  <2> QED BY <1>9, <2>6, <2>7 DEF Sweep
<1>10. CASE ClearFile(t)
  <2>1. /\ UNCHANGED <<reg, snap, on, user, excused>> /\ th[t].pc = "clear" /\ After(t)
        /\ (file' = None /\ unsaved' = FALSE) \/ (file' = file /\ unsaved' = TRUE)
    BY <1>10 DEF ClearFile, Cleared, At
  <2>2. ASSUME ~excused PROVE Kept' /\ reg' = user'
    BY <1>2, <2>1, <2>2 DEF PcInv, Kept
  <2>3. reg' \in Settings /\ file' \in Settings \cup {None} /\ unsaved' \in BOOLEAN
    BY <1>3, <2>1 DEF SysType
  <2> QED BY <1>12, <2>1, <2>2, <2>3
<1>11. CASE Forget(t)
  <2>1. PICK r \in Thread : Turn(t, r) /\ r.pc = "flush"
    BY <1>0, <1>11, GoType DEF Forget, Pcs
  <2>2. /\ UNCHANGED <<reg, file, unsaved, phase, user, excused>> /\ th[t].pc = "forget"
        /\ snap' = None /\ on' = FALSE
    BY <1>11 DEF Forget, Unmoved, OtherwiseSame, At
  <2>3. SysType'
    BY <1>3, <2>2 DEF SysType
  <2>4. phase # "setup"
    BY <2>2 DEF SysInv, PhaseInv, Restoring, At, Main
  <2>5. ASSUME ~excused PROVE Kept' /\ PcInv(r)'
    BY <1>2, <2>1, <2>2, <2>5 DEF PcInv, Kept, Clean
  <2> QED BY <1>4, <2>1, <2>2, <2>3, <2>4, <2>5
<1> QED BY <1>5, <1>6, <1>7, <1>8, <1>9, <1>10, <1>11

(* The flush at the end of a disabling. *)
LEMMA FlushKeepsInv ==
  ASSUME TypeOK, SysInv, NEW t \in Main, TrafficRead(t) \/ TrafficMerge(t) \/ TrafficWrite(t)
  PROVE  SysType' /\ PhaseInv' /\ SettingsInv'
<1>0. /\ t \in Threads /\ th[t].pc \in {"flush", "merge", "write"} /\ ~At(t, "idle")
      /\ UNCHANGED sysVars
  BY DEF Main, Threads, TrafficRead, TrafficMerge, TrafficWrite, At
<1>1. phase # "setup"
  BY <1>0 DEF SysInv, PhaseInv, Restoring, At, Main
<1>2. ~excused => Kept' /\ Settled' /\ Clean' /\ reg' = user'
  BY <1>0, Alone DEF PcInv, Kept, Settled, Clean, Ours, sysVars
<1>3. CASE UNCHANGED phase /\ \E r \in Thread : Turn(t, r) /\ r.pc \in {"merge", "write"}
  <2>1. PICK r \in Thread : Turn(t, r) /\ r.pc \in {"merge", "write"}
    BY <1>3
  <2>2. ~excused => PcInv(r)'
    BY <1>2, <2>1 DEF PcInv
  <2>3. SysType'
    BY <1>0, <1>3 DEF SysInv, SysType, sysVars
  <2>4. PhaseInv' /\ SettingsInv'
    BY <1>0, <1>1, <1>2, <1>3, <2>1, <2>2, GoesOn DEF sysVars
  <2> QED BY <2>3, <2>4
<1>4. CASE End(t)
  <2>1. /\ Done(t) /\ phase' \in Phases
        /\ t = "ui" => phase' \notin {Down, Dead, "setup"}
        /\ t # "ui" => UNCHANGED phase
    BY <1>0, <1>4, EndPhase
  <2>2. SysType'
    BY <1>0, <2>1 DEF SysInv, SysType, sysVars
  <2>3. ~excused' => /\ ~excused /\ Kept' /\ Settled'
                     /\ phase' \in {"exit2", "gone", Down} => ~on'
    BY <1>0, <1>2 DEF sysVars, Clean
  <2>4. PhaseInv' /\ SettingsInv'
    BY <1>0, <1>1, <2>1, <2>3, Finishes
  <2> QED BY <2>2, <2>4
<1> QED BY <1>0, <1>3, <1>4, TrafficReadTurn, MergeTurn DEF TrafficRead, TrafficMerge, TrafficWrite

(* A command begins in an application that runs. *)
LEMMA StartsKeep ==
  ASSUME TypeOK, SysInv, NEW t \in Main, Starts(t), UNCHANGED phase
  PROVE  /\ excused' \in BOOLEAN /\ phase = "up" /\ phase' = "up"
         /\ ~excused' => /\ ~excused /\ Kept /\ Settled
                         /\ \A u \in Main : At(u, "idle")
<1>1. phase = "up" /\ At(t, "idle") /\ excused' = (excused \/ Busy(t))
  BY DEF Starts
<1>2. excused' \in BOOLEAN
  BY <1>1, Zenon
<1>3. ASSUME ~excused' PROVE ~excused /\ \A u \in Main : At(u, "idle")
  BY <1>1, <1>3 DEF Busy
<1> QED BY <1>1, <1>2, <1>3 DEF SysInv, SettingsInv, Quiet, Dead

(* A command begins. *)
LEMMA BeginKeepsInv ==
  ASSUME TypeOK, SysInv, NEW t \in Main, NEW p \in {"idle", "snapshot", "restore", "check"},
         Begin(t, p), p = "snapshot" => ~on, p = "check" => on
  PROVE  SysType' /\ PhaseInv' /\ SettingsInv'
<1>0. t \in Threads /\ UNCHANGED <<user, reg, file, unsaved, snap, on, phase>> /\ Starts(t)
  BY DEF Begin, Main, Threads
<1>1. /\ excused' \in BOOLEAN /\ phase = "up" /\ phase' = "up"
      /\ ~excused' => /\ ~excused /\ Kept /\ Settled
                      /\ \A u \in Main : At(u, "idle")
  BY <1>0, StartsKeep
<1>2. PICK r \in Thread : Turn(t, r) /\ r.pc = p
  BY <1>0, GoType DEF Begin, Pcs
<1>3. /\ th'[t] = r /\ (\A u \in Threads \ {t} : th'[u] = th[u])
      /\ Main \subseteq Threads /\ "tick" \in Threads \ Main
  BY <1>2, TurnType DEF Main, Threads
<1>4. SysType'
  BY <1>0, <1>1 DEF SysInv, SysType
<1>5. PhaseInv'
  BY <1>1, <1>3 DEF SysInv, PhaseInv, Down, Dead
<1>6. SettingsInv'
  <2> SUFFICES ASSUME ~excused' PROVE SettingsInv'
    BY DEF SettingsInv
  <2>1. Kept' /\ Settled'
    BY <1>0, <1>1 DEF Kept, Settled, Held, Clean, Ours
  <2>2. \A u \in Main \ {t} : th'[u].pc = "idle"
    BY <1>1, <1>3 DEF At
  <2>3. PcInv(r)'
    BY <1>0, <1>2, <2>1 DEF PcInv, Settled, Held, Clean
  <2>4. \A u \in Main : PcInv(th[u])'
    <3> SUFFICES ASSUME NEW u \in Main PROVE PcInv(th[u])'
      OBVIOUS
    <3>1. CASE u = t
      BY <1>3, <2>3, <3>1 DEF PcInv
    <3>2. CASE u # t
      BY <2>2, <3>2 DEF PcInv
    <3> QED BY <3>1, <3>2
  <2> QED BY <1>1, <2>1, <2>2, <2>4 DEF SettingsInv, At, Main, Down
<1> QED BY <1>4, <1>5, <1>6

(* proxy_rescue begins. *)
LEMMA RescueKeepsInv ==
  ASSUME TypeOK, SysInv, proxy_rescue
  PROVE  SysType' /\ PhaseInv' /\ SettingsInv'
<1>0. /\ UNCHANGED <<th, phase>> /\ Starts("ui") /\ "ui" \in Main
      /\ reg' = [pac |-> None, enable |-> FALSE] /\ user' = reg'
      /\ (file' = None /\ unsaved' = FALSE) \/ (file' = file /\ unsaved' = TRUE)
      /\ snap' = None /\ on' = FALSE
  BY DEF proxy_rescue, Cleared, Main
<1>1. /\ excused' \in BOOLEAN /\ phase = "up" /\ phase' = "up"
      /\ ~excused' => \A u \in Main : At(u, "idle")
  BY <1>0, StartsKeep
<1>2. reg' \in Settings /\ user' \in Users
  BY <1>0 DEF Settings, Users
<1>3. SysType'
  BY <1>0, <1>1, <1>2 DEF SysInv, SysType
<1>4. PhaseInv'
  BY <1>0, <1>1 DEF SysInv, PhaseInv, At, Down, Dead
<1>5. SettingsInv'
  <2> SUFFICES ASSUME ~excused' PROVE SettingsInv'
    BY DEF SettingsInv
  <2>1. Kept' /\ Settled'
    BY <1>0 DEF Kept, Settled, Clean
  <2>2. \A u \in Main : th'[u].pc = "idle" /\ PcInv(th[u])'
    BY <1>0, <1>1 DEF At, PcInv
  <2> QED BY <1>1, <2>1, <2>2 DEF SettingsInv, At, Main, Down
<1> QED BY <1>3, <1>4, <1>5

(* The process is asked to exit. *)
LEMMA LeaveKeepsInv ==
  ASSUME TypeOK, SysInv, Leave
  PROVE  SysType' /\ PhaseInv' /\ SettingsInv'
<1>0. /\ UNCHANGED <<user, reg, file, unsaved, snap, on>> /\ At("ui", "idle")
      /\ phase \in {"up", "exit2"} /\ phase' \in {"exit1", "exit2"}
      /\ "ui" \in Threads /\ "ui" \in Main
  BY DEF Leave, Main, Threads
<1>1. excused' = (excused \/ Busy("ui"))
  BY DEF Leave
<1>2. PICK r \in Thread : Turn("ui", r) /\ r.pc = "restore"
  BY <1>0, GoType DEF Leave, Pcs
<1>3. th'["ui"] = r /\ th'["bg"] = th["bg"] /\ th'["tick"] = th["tick"]
  BY <1>2, TurnType DEF Threads
<1>4. SysType'
  <2>1. excused' \in BOOLEAN
    BY <1>1, Zenon
  <2> QED BY <1>0, <2>1 DEF SysInv, SysType, Phases
<1>5. PhaseInv'
  BY <1>0, <1>2, <1>3 DEF SysInv, PhaseInv, Restoring, Down, Dead
<1>6. SettingsInv'
  <2> SUFFICES ASSUME ~excused' PROVE SettingsInv'
    BY DEF SettingsInv
  <2>1. ~excused /\ At("bg", "idle")
    BY <1>1 DEF Busy, Main
  <2>2. Kept /\ Settled
    BY <1>0, <2>1 DEF SysInv, SettingsInv, Quiet, Main, Dead
  <2>3. Kept' /\ Settled'
    BY <1>0, <2>2 DEF Kept, Settled, Held, Clean, Ours
  <2>4. PcInv(th["ui"])' /\ PcInv(th["bg"])'
    <3>1. PcInv(th["ui"])'
      BY <1>2, <1>3, <2>3 DEF PcInv
    <3>2. PcInv(th["bg"])'
      BY <1>3, <2>1 DEF PcInv, At
    <3> QED BY <3>1, <3>2
  <2>5. ~Quiet(Main)'
    BY <1>0, <1>2, <1>3 DEF Quiet, At
  <2> QED BY <1>3, <2>1, <2>3, <2>4, <2>5 DEF SettingsInv, At, Main
<1> QED BY <1>4, <1>5, <1>6

(* The process starts and looks for settings it left behind. *)
LEMMA LaunchKeepsInv ==
  ASSUME TypeOK, SysInv, Launch
  PROVE  SysType' /\ PhaseInv' /\ SettingsInv'
<1>0. /\ UNCHANGED <<user, reg, file, unsaved, snap, on, excused>> /\ phase \in {Down, Dead}
      /\ phase' = "setup" /\ Go("ui", "restore") /\ "ui" \in Threads /\ "ui" \in Main
  BY DEF Launch, Go, sysVars, Threads, Main
<1>1. PICK r \in Thread : Turn("ui", r) /\ r.pc = "restore"
  BY <1>0, GoType DEF Pcs
<1>2. th'["ui"] = r /\ th'["bg"] = th["bg"] /\ th'["tick"] = th["tick"]
  BY <1>1, TurnType DEF Threads
<1>3. At("bg", "idle") /\ Clean /\ Clean'
  BY <1>0 DEF SysInv, PhaseInv, Clean
<1>4. SysType'
  BY <1>0 DEF SysInv, SysType, Phases
<1>5. PhaseInv'
  BY <1>0, <1>1, <1>2, <1>3 DEF SysInv, PhaseInv, Restoring, Down, Dead, At
<1>6. SettingsInv'
  <2> SUFFICES ASSUME ~excused' PROVE SettingsInv'
    BY DEF SettingsInv
  <2>1. Kept'
    BY <1>0 DEF SysInv, SettingsInv, Kept, Ours
  <2>2. PcInv(th["ui"])'
    BY <1>0, <1>1, <1>2, <1>3 DEF PcInv
  <2>3. PcInv(th["bg"])'
    BY <1>2, <1>3 DEF PcInv, At
  <2>4. ~Quiet(Main)'
    BY <1>0, <1>1, <1>2 DEF Quiet, At
  <2> QED BY <1>2, <1>3, <2>1, <2>2, <2>3, <2>4 DEF SettingsInv, At, Main
<1> QED BY <1>4, <1>5, <1>6

(* The process ends, in order or in a crash between any two writes. *)
LEMMA VanishKeepsInv ==
  ASSUME TypeOK, SysInv, Gone \/ Crash
  PROVE  SysType' /\ PhaseInv' /\ SettingsInv'
<1>0. /\ UNCHANGED <<user, reg, file, unsaved>> /\ snap' = None /\ on' = FALSE
      /\ phase' \in {Down, Dead} /\ \A u \in Threads : th'[u].pc = "idle"
  BY IdleType DEF Gone, Crash, Vanish
<1>1. excused' \in BOOLEAN /\ (~excused' => ~excused)
  <2>1. CASE Gone
    <3>1. excused' = (excused \/ Busy("ui"))
      BY <2>1 DEF Gone
    <3> QED BY <3>1, Zenon
  <2>2. CASE Crash
    BY <2>2 DEF Crash, SysInv, SysType
  <2> QED BY <2>1, <2>2
<1>2. SysType'
  BY <1>0, <1>1 DEF SysInv, SysType, Phases
<1>3. PhaseInv'
  BY <1>0 DEF PhaseInv, Clean, At, Threads, Down, Dead
<1>4. SettingsInv'
  <2> SUFFICES ASSUME ~excused' PROVE SettingsInv'
    BY DEF SettingsInv
  <2>1. Kept' /\ Clean'
    BY <1>0, <1>1 DEF SysInv, SettingsInv, Kept, Clean, Ours
  <2>2. \A u \in Main : PcInv(th[u])' /\ th'[u].pc = "idle"
    BY <1>0 DEF PcInv, Main, Threads
  <2>3. CASE Crash
    <3>1. phase' = Dead
      BY <2>3 DEF Crash
    <3> QED BY <1>0, <2>1, <2>2, <3>1 DEF SettingsInv, At, Main, Clean
  <2>4. CASE Gone
    <3>1. ~excused /\ At("ui", "idle") /\ At("bg", "idle") /\ phase = "gone"
      <4>1. phase = "gone" /\ excused' = (excused \/ Busy("ui"))
        BY <2>4 DEF Gone
      <4>2. ~Busy("ui")
        BY <4>1
      <4> QED BY <1>1, <4>1, <4>2 DEF Busy, Main, SysInv, PhaseInv
    <3>2. reg = user
      BY <3>1 DEF SysInv, SettingsInv, Quiet, Main, Settled, Held, Clean, Dead
    <3>3. Settled'
      BY <1>0, <2>1, <3>2 DEF Settled
    <3> QED BY <1>0, <2>1, <2>2, <3>3 DEF SettingsInv, At, Main, Clean
  <2> QED BY <2>3, <2>4
<1> QED BY <1>2, <1>3, <1>4

(* Every step keeps the invariant of the system proxy. *)
LEMMA NextSys ==
  ASSUME TypeOK, SysInv, [Next]_vars
  PROVE  SysInv'
<1>1. PutInv'
  BY NextPut DEF SysInv
<1>2. ASSUME NEW t \in Main, proxy_enable(t) \/ proxy_disable(t)
      PROVE  SysType' /\ PhaseInv' /\ SettingsInv'
  BY <1>2, BeginKeepsInv DEF proxy_enable, proxy_disable
<1>3. ASSUME NEW m, proxy_mode_set(m) \/ proxy_whitelist_set(m) \/ proxy_tunnel_set_url(m)
      PROVE  SysType' /\ PhaseInv' /\ SettingsInv'
  BY <1>3, BeginKeepsInv DEF proxy_mode_set, proxy_whitelist_set, proxy_tunnel_set_url, Main
<1>4. ASSUME NEW t \in Main, SysStep(t)
      PROVE  SysType' /\ PhaseInv' /\ SettingsInv'
  BY <1>4, EnableKeepsInv, RestoreKeepsInv, StampKeepsInv, FlushKeepsInv DEF SysStep
<1>5. CASE SysStep("tick")
  <2>1. Elsewhere
    BY <1>5, TickStep
  <2>2. SysType' /\ PhaseInv' /\ SettingsInv'
    BY <2>1, ElsewhereKeeps
  <2> QED BY <1>1, <2>2 DEF SysInv
<1>6. CASE \/ Tick \/ Bytes \/ Client \/ LanRestore \/ LanAcceptFails \/ EngineEnds
           \/ \E b \in BOOLEAN : proxy_lan_toggle(b)
           \/ \E t \in {"lan", "boot"} : LanStep(t)
           \/ UNCHANGED vars
  <2>1. Elsewhere
    BY <1>6, OtherSteps
  <2>2. SysType' /\ PhaseInv' /\ SettingsInv'
    BY <2>1, ElsewhereKeeps
  <2> QED BY <1>1, <2>2 DEF SysInv
<1> QED BY <1>1, <1>2, <1>3, <1>4, <1>5, <1>6, RescueKeepsInv, LeaveKeepsInv,
           LaunchKeepsInv, VanishKeepsInv
        DEF Next, SysInv

-----------------------------------------------------------------------------
(* The theorems. *)

(* The LAN listener's flags. *)
LanTypeOK == {lanCfg, lanUp, lanHeld} \subseteq BOOLEAN

(* The type invariant is the sum of these parts. *)
LEMMA TypeParts ==
  /\ TypeOK => RuleType /\ TrafficType /\ LanTypeOK /\ conn \in Conns
  /\ SysType /\ th \in [Threads -> Thread] /\ RuleType /\ conn \in Conns /\ TrafficType /\ LanTypeOK
       => TypeOK
<1>1. SysType => user \in Settings
  BY UserFacts
<1> QED BY <1>1 DEF TypeOK, ConnTypeOK, SysType, RuleType, Conns, TrafficType, LanTypeOK, Thread, Phases

(* The LAN listener's flags stay flags. *)
LEMMA LanTypeKeeps ==
  ASSUME LanTypeOK, [Next]_vars
  PROVE  LanTypeOK'
<1>1. CASE UNCHANGED lanVars
  BY <1>1 DEF LanTypeOK, lanVars
<1>2. ASSUME NEW b \in BOOLEAN, proxy_lan_toggle(b) PROVE LanTypeOK'
  <2>1. lanCfg' = (lanCfg \/ b) /\ UNCHANGED <<lanUp, lanHeld>>
    BY <1>2 DEF proxy_lan_toggle
  <2>2. lanCfg' \in BOOLEAN
    BY <2>1, Zenon
  <2> QED BY <2>1, <2>2 DEF LanTypeOK
<1>3. ASSUME NEW t \in {"lan", "boot"}, LanStep(t) PROVE LanTypeOK'
  <2>1. CASE LanStop(t) \/ LanStore(t) \/ LanCfgOff(t)
    BY <2>1 DEF LanStop, LanStore, LanCfgOff, LanTypeOK
  <2>2. CASE LanBind(t)
    <3>1. UNCHANGED lanHeld /\ lanUp' \in {TRUE, lanUp}
      BY <2>2 DEF LanBind, connVars
    <3>2. lanCfg' = lanCfg \/ lanCfg' = (lanCfg /\ t = "boot")
      BY <2>2 DEF LanBind
    <3>3. lanCfg' \in BOOLEAN
      BY <3>2, Zenon DEF LanTypeOK
    <3> QED BY <3>1, <3>3 DEF LanTypeOK
  <2> QED BY <1>3, <2>1, <2>2 DEF LanStep
<1>4. CASE LanRestore
  BY <1>4 DEF LanRestore, LanTypeOK
<1>5. CASE LanAcceptFails
  BY <1>5 DEF LanAcceptFails, LanTypeOK
<1>6. CASE Leave
  <2>1. lanUp' = (lanUp /\ ~lanHeld) /\ lanHeld' = FALSE /\ UNCHANGED lanCfg
    BY <1>6 DEF Leave
  <2>2. lanUp' \in BOOLEAN
    BY <2>1, Zenon
  <2> QED BY <2>1, <2>2 DEF LanTypeOK
<1>7. CASE Gone \/ Crash
  BY <1>7 DEF Gone, Crash, Vanish, LanTypeOK
<1>8. ASSUME NEW t \in Main \cup {"tick"}, SysStep(t) PROVE UNCHANGED lanVars
  BY <1>8 DEF SysStep, EnableRefused, EnableSnapshot, EngineUp, EnableSave, EnablePac,
              EnableRest, EnableKeep, EnableOn, Restore, RestoreEnable,
              RestoreRefused, RestorePac, Sweep, ClearFile, Forget, StampCheck,
              Stamp, TrafficRead, TrafficMerge, TrafficWrite, Unmoved, OtherwiseSame, netVars
<1>9. ASSUME NEW m, \/ proxy_enable(m) \/ proxy_disable(m) \/ proxy_mode_set(m)
                    \/ proxy_whitelist_set(m) \/ proxy_tunnel_set_url(m)
      PROVE  UNCHANGED lanVars
  BY <1>9 DEF proxy_enable, proxy_disable, proxy_mode_set, proxy_whitelist_set,
              proxy_tunnel_set_url, netVars
<1>10. CASE proxy_rescue \/ Bytes \/ Tick \/ Client \/ EngineEnds \/ Launch \/ UNCHANGED vars
  BY <1>1, <1>10 DEF proxy_rescue, Bytes, Tick, Client, EngineEnds, Launch, vars, netVars
<1> QED BY <1>1, <1>2, <1>3, <1>4, <1>5, <1>6, <1>7, <1>8, <1>9, <1>10 DEF Next

(* The inductive invariant of the module. *)
ProxyInv == TypeOK /\ SysInv /\ SafeConn(conn) /\ TrafficInv

(* It holds in every state that is reached. *)
LEMMA ProxyInductive == Spec => []ProxyInv
<1>1. Init => ProxyInv
  <2> SUFFICES ASSUME Init PROVE ProxyInv
    OBVIOUS
  <2>1. \A t \in Threads : th[t] = Idle /\ th[t].pc = "idle"
    BY IdleType DEF Init
  <2>2. SysType
    BY ProxyAssumption DEF Init, SysType, Users, Settings, Phases
  <2>3. RuleType
    BY DEF Init, ConnInit, RuleType, Modes, Whitelists, Bypasses
  <2>4. conn = NoConn /\ SafeConn(conn) /\ conn \in Conns
    BY NoConnSafe DEF Init, ConnInit
  <2>5. TrafficType
    <3>1. 0 \in 0 .. MaxBytes /\ 0 \in Nat
      BY ProxyAssumption
    <3> QED BY <3>1 DEF Init, TrafficType
  <2>6. th \in [Threads -> Thread] /\ LanTypeOK
    BY IdleType DEF Init, LanTypeOK
  <2>7. TypeOK
    BY <2>2, <2>3, <2>4, <2>5, <2>6, TypeParts
  <2>8. PhaseInv /\ PutInv
    BY <2>1 DEF Init, PhaseInv, PutInv, Puts, Clean, At, Threads, Main, Down, Dead
  <2>9. SettingsInv
    BY <2>1 DEF Init, SettingsInv, Kept, Settled, Clean, PcInv, At, Main, Threads, Down
  <2>10. TrafficInv
    BY <2>1 DEF Init, TrafficInv, TrafficOnce, At
  <2> QED BY <2>2, <2>4, <2>7, <2>8, <2>9, <2>10 DEF ProxyInv, SysInv
<1>2. ProxyInv /\ [Next]_vars => ProxyInv'
  <2> SUFFICES ASSUME ProxyInv, [Next]_vars PROVE ProxyInv'
    OBVIOUS
  <2>1. TypeOK /\ SysInv /\ SafeConn(conn) /\ TrafficInv /\ RuleType /\ LanTypeOK
    BY TypeParts DEF ProxyInv
  <2>2. SysInv'
    BY <2>1, NextSys
  <2>3. RuleType' /\ SafeConn(conn)'
    BY <2>1, NextConn
  <2>4. TrafficType' /\ TrafficInv'
    BY <2>1, NextTraffic
  <2>5. (th \in [Threads -> Thread])' /\ LanTypeOK'
    BY <2>1, ThreadType, LanTypeKeeps DEF Thread, Threads
  <2>6. TypeOK'
    <3>1. user' \in Settings
      BY <2>2 DEF SysInv, SysType, Users, Settings
    <3> QED BY <2>2, <2>3, <2>4, <2>5, <3>1
            DEF SysInv, SafeConn, TypeOK, ConnTypeOK, SysType, RuleType, Conns,
                TrafficType, LanTypeOK, Thread, Phases
  <2> QED BY <2>2, <2>3, <2>4, <2>6 DEF ProxyInv
<1> QED BY <1>1, <1>2, PTL DEF Spec

(* Every variable keeps its type, the counters their bounds. *)
THEOREM ProxyTypeCorrect == Spec => []TypeOK
<1>1. ProxyInv => TypeOK
  BY DEF ProxyInv
<1> QED BY <1>1, ProxyInductive, PTL

(* Whenever the proxy is off in a running application, or the application
   has been left, the system has the user's own settings
   (proxy_disable_inner, cleanup_stale), after any number of starts, stops
   and crashes, unless two commands overlapped or the registry refused
   (excused). *)
THEOREM SettingsAlwaysBack == Spec => []UserSettingsBack
<1>1. ProxyInv => UserSettingsBack
  BY DEF ProxyInv, SysInv, SettingsInv, UserSettingsBack, Quiet, Settled, Held, Dead, Down
<1> QED BY <1>1, ProxyInductive, PTL

(* A host the browser's script sends to the engine is tunnelled, for every
   host, whitelist and mode (generate_pac, decide), unless the rules changed
   in between: the engine does not fall back to dialling it itself. *)
THEOREM PacAlwaysAgrees == Spec => []PacAgrees
<1>1. ProxyInv => PacAgrees
  <2> SUFFICES ASSUME ProxyInv PROVE PacAgrees
    OBVIOUS
  <2>1. Rules \in Agreeing
    BY AllAgree, TypeParts DEF ProxyInv, RuleType, Rules
  <2>2. conn.via = "direct" /\ conn.from = "loop" => conn.stale
    BY DEF ProxyInv, SafeConn
  <2> QED BY <2>1, <2>2 DEF PacAgrees
<1> QED BY <1>1, ProxyInductive, PTL

(* No byte is lost and none is counted twice by flushes that race with the
   counter and with each other, unless one merged an older reading after a
   newer (traffic_snapshot, traffic_flush). *)
THEOREM TrafficCountedOnce == Spec => []TrafficOnce
<1>1. ProxyInv => TrafficOnce
  BY DEF ProxyInv, TrafficInv
<1> QED BY <1>1, ProxyInductive, PTL
=============================================================================
