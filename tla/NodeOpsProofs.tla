--------------------------- MODULE NodeOpsProofs ---------------------------
(***************************************************************************)
(* Proofs about NodeOps, for any number of processes, commands, faults,    *)
(* versions, routes, phrases, imports and sources: a node that is up can   *)
(* be reached, a stop leaves nothing of what it has found, an upgrade      *)
(* replaces the binary whole or not at all, the import of an old           *)
(* configuration loses no route, a phrase is taken in once, and there is   *)
(* one alert for each time the threshold is reached.                       *)
(*                                                                         *)
(* Each part has an invariant over its own variables, and a lemma that     *)
(* says which of its actions a step of the node can be.                    *)
(***************************************************************************)
EXTENDS NodeOps, FiniteSetTheorems, SequenceTheorems, TLAPS

(* A set of numbers has a least element. *)
LEMMA LeastNat ==
  ASSUME NEW T, T \subseteq Nat, T # {}
  PROVE  \E n \in T : \A m \in T : n <= m
<1>1. PICK t \in T : TRUE
  OBVIOUS
<1> DEFINE U == {x \in SUBSET (0..t) : \E m \in T : x = 0..m}
<1>2. IsFiniteSet(0..t) /\ IsWellFoundedOn(StrictSubsetOrdering(0..t), SUBSET (0..t))
  <2>1. IsFiniteSet(0..t)
    BY <1>1, FS_Interval
  <2> QED BY <2>1, FS_StrictSubsetOrderingWellFounded, FS_FiniteSubsetsOfFinite
<1>3. U # {} /\ U \subseteq SUBSET (0..t)
  BY <1>1
<1>4. PICK x \in U : \A y \in U : ~ (<<y, x>> \in StrictSubsetOrdering(0..t))
  <2> HIDE DEF U
  <2> QED BY <1>2, <1>3, WFMin
<1>5. PICK n \in T : x = 0..n
  OBVIOUS
<1>6. ASSUME NEW m \in T, m < n PROVE FALSE
  <2>1. 0..m \subseteq 0..n /\ n \in 0..n /\ n \notin 0..m
    BY <1>6
  <2>2. 0..m \in U
    BY <1>5, <2>1
  <2> QED BY <1>4, <1>5, <2>1, <2>2 DEF StrictSubsetOrdering
<1> QED BY <1>5, <1>6

-----------------------------------------------------------------------------
(* The invariants. *)

(* The files of the upgrade: a backup made by it is the target as it was, or
   was cut short. *)
Restoring == {"restore", "copy"}
Replacing == {"write", "rename"} \cup Restoring

FilesInv ==
  /\ FilesTypeOK
  /\ AllOrNothing
  /\ torn \/ upgrade.at = "copy" => target = Torn
  /\ upgrade.at \in Replacing /\ upgrade.kind = "cluster" /\ ~upgrade.kept =>
       old \in {before, Torn, NoFile}
  /\ upgrade.at \in Restoring => old \in {before, Torn}

(* The import has read the file as it is, and rewrites it only when what was
   valid in it is, or was, in the table. *)
ImportInv ==
  /\ LegacyNeverLost
  /\ import \in {"backup", "insert", "rewrite"} => parsed = cfg
  /\ import = "rewrite" => parsed \cap Valid \subseteq table \cup deleted

(* A phrase that was taken in is on record, was lost with the record, or has
   expired; an import that is past the check of the time has read the clock in
   the phrase's life. *)
SyncInv ==
  /\ SyncTypeOK
  /\ \A i \in Importers : sync[i] # Away =>
       sync[i].phrase \in Phrases /\ exp[sync[i].phrase] \in Nat
  /\ \A i \in Importers : sync[i].at = "nonce" =>
       sync[i].now <= clock /\ sync[i].now <= exp[sync[i].phrase]
  /\ \A p \in nonces : exp[p] \in Nat
  /\ \A p \in Phrases : taken[p] > 0 =>
       exp[p] \in Nat /\ (p \in nonces \cup forgot \/ exp[p] < clock)
  /\ PhraseOnce

(* The monitor remembers the last percentage it has stored. *)
Remembered(s) ==
  last_pct[s] = IF seen[s] = <<>> THEN None ELSE seen[s][Len(seen[s])]

Polls == [at : {"idle", "collect", "persist", "insert", "vercel", "metric", "prune"},
          src : Src \cup {None}, pct : Percents \cup {Sentinel}, err : BOOLEAN]

MonitorInv ==
  /\ seen \in [Src -> Seq(Percents)] /\ last_pct \in [Src -> Percents \cup {None}]
  /\ told \in [Src -> Nat] /\ missed \in [Src -> Nat]
  /\ tick \in Polls
  /\ tick.at \in {"collect", "persist", "insert"} => tick.src \in Src
  /\ tick.at \in {"persist", "insert"} => tick.pct \in Percents
  /\ \A s \in Src : Remembered(s)
  /\ AlertPerCrossing

(* The processes. *)
Admins == {"admin", "spawn", "bind", "up", "dying"}

(* The unit's process and what it has spawned: forwarders, once it is past
   the admin port. *)
UnitInv ==
  /\ main = NoPid => cgroup = {} /\ unit # "on"
  /\ main # NoPid => main \in cgroup /\ unit = "on" /\ proc[main] \in Engines
  /\ \A f \in cgroup \ {main} :
       proc[f] \in Forwarders /\ proc[main] \in {"bind", "up"}
  /\ pidFile # NoPid => pidFile \notin cgroup /\ proc[pidFile] \notin Forwarders
  /\ lock.pid # NoPid => proc[lock.pid] \notin {"unused"} \cup Forwarders
  /\ pidFile # NoPid => proc[pidFile] # "unused"

(* The admin port has one holder, and an engine on the inner port has a
   forwarder. *)
PortInv ==
  /\ \A p, q \in Pids : proc[p] \in Admins /\ proc[q] \in Admins => p = q
  /\ \A p \in Pids :
       /\ proc[p] \in {"unused", "open", "locked", "started", "admin", "spawn", "import"}
            \cup Forwarders => bound[p] = "none"
       /\ proc[p] = "up" => bound[p] # "none"
       /\ proc[p] = "data" => bound[p] = "public"
  /\ \A p \in Pids : proc[p] \in {"bind", "up"} /\ bound[p] = "inner" =>
       fwdLost \/ \E f \in Pids : proc[f] \in Forwarders

(* What a stop may signal of what it has found when it began, it can signal to
   the end, and has found again when it asks for all. *)
StopInv ==
  /\ \A p \in victims : proc[p] # "unused"
  /\ cmd \in Stopping => \A p \in victims : proc[p] \in Alive => p \notin Barred
  /\ cmd = "orphans" => \A p \in victims : proc[p] \in Alive => p \in listed
  /\ StopStops

ProcInv == ProcTypeOK /\ UnitInv /\ PortInv /\ StopInv

-----------------------------------------------------------------------------
(* The import of the old configuration. *)
LEMMA ImportSteps ==
  ASSUME [Next]_vars
  PROVE  \/ ImportNext \/ BackupTorn \/ ImportFails \/ CutImport
         \/ RouteDeleted \/ RouteCreated \/ \E i \in Importers : SyncRoutes(i)
         \/ UNCHANGED importVars
<1>1. CASE Sync
  BY <1>1 DEF Sync
<1>2. CASE Commands \/ Api \/ Monitor \/ Faults
  BY <1>2 DEF Commands, Api, Monitor, Faults, ProcOnly, ImportKept
<1>3. CASE Serve \/ Server \/ Stop \/ Upgrade
  BY <1>3 DEF Serve, Server, Stop, Upgrade, ProcOnly, ImportKept
<1>4. CASE UNCHANGED vars
  BY <1>4 DEF vars
<1> QED BY <1>1, <1>2, <1>3, <1>4 DEF Next, Node

LEMMA ImportStep == ImportInv /\ [Next]_vars => ImportInv'
<1> SUFFICES ASSUME ImportInv, [Next]_vars PROVE ImportInv'
  OBVIOUS
<1> USE DEF ImportInv, LegacyNeverLost
<1>1. CASE ImportNext
  <2>1. CASE migrate_config_if_needed
    BY <2>1 DEF migrate_config_if_needed, importStore
  <2>2. CASE backup_config
    BY <2>2 DEF backup_config
  <2>3. CASE import_routes
    BY <2>3 DEF import_routes
  <2>4. CASE rewrite_config
    BY <2>4 DEF rewrite_config
  <2> QED BY <1>1, <2>1, <2>2, <2>3, <2>4 DEF ImportNext
<1>2. CASE BackupTorn \/ ImportFails \/ CutImport
  BY <1>2 DEF BackupTorn, ImportFails, CutImport, importStore
<1>3. CASE RouteDeleted \/ RouteCreated
  BY <1>3 DEF RouteDeleted, RouteCreated
<1>4. ASSUME NEW i \in Importers, SyncRoutes(i) PROVE ImportInv'
  BY <1>4 DEF SyncRoutes
<1>5. CASE UNCHANGED importVars
  BY <1>5 DEF importVars, importStore
<1> QED BY <1>1, <1>2, <1>3, <1>4, <1>5, ImportSteps

(* No start, wherever it fails or is killed and whatever the API and imports
   of phrases do to the table meanwhile, loses a valid route of the old file
   (migrate_config_if_needed). *)
THEOREM LegacyAlwaysKept == Spec => []LegacyNeverLost
<1>1. Init => ImportInv
  BY LegacyAssumption DEF Init, ImportInit, ImportInv, LegacyNeverLost
<1>2. ImportInv => LegacyNeverLost
  BY DEF ImportInv
<1> QED BY <1>1, <1>2, ImportStep, PTL DEF Spec

-----------------------------------------------------------------------------
(* The replacement of the binary. *)
LEMMA FilesSteps ==
  ASSUME [Next]_vars
  PROVE  \/ UpgradeBegin \/ FetchFails \/ UpToDate \/ Fetched \/ Backup
         \/ BackupCutShort \/ WriteTmp \/ WriteTmpFails \/ Rename \/ RenameFails
         \/ RestoreOpens \/ Restore \/ RestoreFails \/ UpgradeKilled
         \/ Answer /\ upgrade.at \in {"replaced", "failed"}
         \/ UNCHANGED filesVars
<1>1. CASE Sync
  BY <1>1 DEF Sync
<1>2. CASE Commands \/ Api \/ Monitor \/ Faults
  BY <1>2 DEF Commands, Api, Monitor, Faults, ProcOnly
<1>3. CASE Serve \/ Server \/ Stop
  BY <1>3 DEF Serve, Server, Stop, ProcOnly
<1>4. CASE Upgrade
  BY <1>4 DEF Upgrade, RestartUnit, RestartDaemonKill, RestartDaemonSpawn,
              RestartDaemonGivesUp, NotRestarted, Refused
<1>5. CASE UNCHANGED vars
  BY <1>5 DEF vars
<1> QED BY <1>1, <1>2, <1>3, <1>4, <1>5 DEF Next, Node

LEMMA NoUpgradeFacts == NoUpgrade \in Upgrades /\ NoUpgrade.at = "no"
BY UpgradeAssumption DEF NoUpgrade, Upgrades, Versions

(* What an upgrade's record is after a step of its own. *)
LEMMA UpgradeFacts ==
  ASSUME NEW u \in Upgrades, NEW a \in {"fetch", "backup", "write", "rename",
                                        "restore", "copy", "replaced", "failed"}
  PROVE  /\ [u EXCEPT !.at = a] \in Upgrades /\ [u EXCEPT !.at = a].at = a
         /\ [u EXCEPT !.at = a].kind = u.kind /\ [u EXCEPT !.at = a].kept = u.kept
         /\ u.pkg \in Versions
BY DEF Upgrades

LEMMA FilesStep == FilesInv /\ [Next]_vars => FilesInv'
<1> SUFFICES ASSUME FilesInv, [Next]_vars PROVE FilesInv'
  OBVIOUS
<1> USE DEF FilesTypeOK, AllOrNothing, Replacing, Restoring
<1>1. /\ target \in Versions \cup {Torn} /\ before \in Versions \cup {Torn}
      /\ old \in Versions \cup {Torn, NoFile} /\ upgrade \in Upgrades /\ torn \in BOOLEAN
      /\ Torn \notin Versions /\ NoFile \notin Versions /\ Torn # NoFile
  BY UpgradeAssumption DEF FilesInv
<1>2. CASE UpgradeBegin
  <2>1. PICK k \in {"cluster", "self"}, o \in BOOLEAN :
          upgrade' = [NoUpgrade EXCEPT !.at = "fetch", !.kind = k, !.own = o]
    BY <1>2 DEF UpgradeBegin
  <2>2. upgrade' \in Upgrades /\ upgrade'.at = "fetch"
    BY <2>1, NoUpgradeFacts DEF Upgrades
  <2>3. upgrade.at = "no" /\ UNCHANGED <<target, old, torn>> /\ before' = target
    BY <1>2 DEF UpgradeBegin
  <2> QED BY <1>1, <2>2, <2>3 DEF FilesInv
<1>3. CASE FetchFails \/ WriteTmp \/ WriteTmpFails
  <2>1. PICK a \in {"failed", "rename"} :
          /\ upgrade' = [upgrade EXCEPT !.at = a] /\ UNCHANGED <<target, old, before, torn>>
          /\ upgrade.at \in {"fetch", "write"} /\ (a = "rename" => upgrade.at = "write")
    BY <1>3 DEF FetchFails, WriteTmp, WriteTmpFails, Failed
  <2>2. /\ upgrade' \in Upgrades /\ upgrade'.at = a /\ upgrade'.kind = upgrade.kind
        /\ upgrade'.kept = upgrade.kept
    BY <1>1, <2>1 DEF Upgrades
  <2> QED BY <1>1, <2>1, <2>2 DEF FilesInv
<1>4. CASE Fetched
  <2>1. PICK v \in Versions : upgrade' = [upgrade EXCEPT !.pkg = v,
                     !.at = IF upgrade.kind = "cluster" THEN "backup" ELSE "write"]
    BY <1>4 DEF Fetched
  <2>2. /\ upgrade' \in Upgrades /\ upgrade'.kind = upgrade.kind
        /\ upgrade'.at = IF upgrade.kind = "cluster" THEN "backup" ELSE "write"
    BY <1>1, <2>1 DEF Upgrades
  <2>3. UNCHANGED <<target, old, before, torn>> /\ upgrade.at = "fetch"
    BY <1>4 DEF Fetched
  <2> QED BY <1>1, <2>2, <2>3 DEF FilesInv
<1>5. CASE Backup \/ BackupCutShort
  <2>1. PICK b \in BOOLEAN :
          /\ upgrade' = [upgrade EXCEPT !.at = "write", !.kept = b]
          /\ ~b => old' \in {target, Torn, NoFile}
    BY <1>5 DEF Backup, BackupCutShort
  <2>2. /\ old' \in Versions \cup {Torn, NoFile} /\ UNCHANGED <<target, before, torn>>
        /\ upgrade.at = "backup"
    BY <1>1, <1>5 DEF Backup, BackupCutShort
  <2>3. upgrade' \in Upgrades /\ upgrade'.at = "write" /\ upgrade'.kept = b
    BY <1>1, <2>1 DEF Upgrades
  <2>4. target \in {before, Torn}
    BY <2>2 DEF FilesInv
  <2> QED BY <1>1, <2>1, <2>2, <2>3, <2>4 DEF FilesInv
<1>6. CASE Rename
  <2>1. /\ upgrade' = [upgrade EXCEPT !.at = "replaced"] /\ target' = upgrade.pkg
        /\ torn' = FALSE /\ UNCHANGED <<old, before>>
    BY <1>6 DEF Rename
  <2>2. upgrade' \in Upgrades /\ upgrade'.at = "replaced" /\ target' \in Versions
    BY <1>1, <2>1, UpgradeFacts
  <2> QED BY <1>1, <2>1, <2>2 DEF FilesInv
<1>7. CASE RenameFails
  <2>1. PICK a \in {"failed", "restore"} :
          /\ upgrade' = [upgrade EXCEPT !.at = a]
          /\ a = "restore" => upgrade.kind = "cluster" /\ ~upgrade.kept /\ old # NoFile
    BY <1>7 DEF RenameFails, Failed
  <2>2. UNCHANGED <<target, old, before, torn>> /\ upgrade.at = "rename"
    BY <1>7 DEF RenameFails
  <2>3. /\ upgrade' \in Upgrades /\ upgrade'.at = a /\ upgrade'.kind = upgrade.kind
        /\ upgrade'.kept = upgrade.kept
    BY <1>1, <2>1 DEF Upgrades
  <2> QED BY <1>1, <2>1, <2>2, <2>3 DEF FilesInv
<1>8. CASE RestoreOpens
  <2>1. /\ upgrade' = [upgrade EXCEPT !.at = "copy"] /\ upgrade.at = "restore"
        /\ target' = Torn /\ UNCHANGED <<old, before, torn>>
    BY <1>8 DEF RestoreOpens
  <2>2. /\ upgrade' \in Upgrades /\ upgrade'.at = "copy" /\ upgrade'.kind = upgrade.kind
        /\ upgrade'.kept = upgrade.kept
    BY <1>1, <2>1, UpgradeFacts
  <2> QED BY <1>1, <2>1, <2>2 DEF FilesInv
<1>9. CASE Restore
  <2>1. /\ upgrade' = [upgrade EXCEPT !.at = "failed"] /\ upgrade.at = "copy" /\ target' = old
        /\ torn' = (old = Torn) /\ UNCHANGED <<old, before>>
    BY <1>9 DEF Restore, Failed
  <2>2. upgrade' \in Upgrades /\ upgrade'.at = "failed"
    BY <1>1, <2>1, UpgradeFacts
  <2>3. old \in {before, Torn}
    BY <2>1 DEF FilesInv
  <2>4. torn' \in BOOLEAN /\ (old = Torn <=> torn')
    BY <2>1
  <2> QED BY <1>1, <2>1, <2>2, <2>3, <2>4 DEF FilesInv
<1>10. CASE RestoreFails
  <2>1. /\ upgrade' = [upgrade EXCEPT !.at = "failed"] /\ upgrade.at \in Restoring
        /\ torn' = (torn \/ upgrade.at = "copy") /\ UNCHANGED <<target, old, before>>
    BY <1>10 DEF RestoreFails, Failed
  <2>2. upgrade' \in Upgrades /\ upgrade'.at = "failed"
    BY <1>1, <2>1, UpgradeFacts
  <2>3. torn' \in BOOLEAN /\ (torn' <=> torn \/ upgrade.at = "copy")
    BY <2>1
  <2>4. upgrade.at = "copy" => target = Torn
    BY DEF FilesInv
  <2> QED BY <1>1, <2>1, <2>2, <2>3, <2>4 DEF FilesInv
<1>11. CASE UpgradeKilled
  <2>1. /\ upgrade' = NoUpgrade /\ UNCHANGED <<target, before>> /\ old' \in {old, Torn}
        /\ torn' = (torn \/ upgrade.at = "copy")
    BY <1>11 DEF UpgradeKilled
  <2>2. torn' \in BOOLEAN /\ (torn' <=> torn \/ upgrade.at = "copy")
    BY <2>1
  <2> QED BY <1>1, <2>1, <2>2, NoUpgradeFacts DEF FilesInv
<1>12. CASE UpToDate \/ (Answer /\ upgrade.at \in {"replaced", "failed"})
  <2>1. upgrade' = NoUpgrade /\ UNCHANGED <<target, old, before, torn>> /\ upgrade.at # "copy"
    BY <1>12 DEF UpToDate, Answer
  <2> QED BY <1>1, <2>1, NoUpgradeFacts DEF FilesInv
<1>13. CASE UNCHANGED filesVars
  BY <1>13 DEF filesVars, FilesInv
<1> QED BY <1>2, <1>3, <1>4, <1>5, <1>6, <1>7, <1>8, <1>9, <1>10, <1>11, <1>12, <1>13, FilesSteps

(* The invariant of the files. *)
LEMMA FilesAlways == Spec => []FilesInv
<1>1. Init => FilesInv
  <2> SUFFICES ASSUME Init PROVE FilesInv
    OBVIOUS
  <2>1. target = 0 /\ old = NoFile /\ upgrade = NoUpgrade /\ before = 0 /\ torn = FALSE
    BY DEF Init, FilesInit
  <2>2. 0 \in Versions /\ Torn \notin Versions /\ Torn # NoFile
    BY UpgradeAssumption DEF Versions
  <2> QED BY <2>1, <2>2, NoUpgradeFacts
          DEF FilesInv, FilesTypeOK, AllOrNothing, Replacing, Restoring
<1> QED BY <1>1, FilesStep, PTL DEF Spec

(* However often upgrades fail or are killed, wherever it comes, the target of
   atomic_replace is a whole binary, and the old one until the rename and when
   the command answers that it has failed; unless the copy that restores the
   target in place has torn it. *)
THEOREM UpgradeAllOrNothing == Spec => []AllOrNothing
<1>1. FilesInv => AllOrNothing
  BY DEF FilesInv
<1> QED BY <1>1, FilesAlways, PTL

-----------------------------------------------------------------------------
(* Phrases. *)
LEMMA SyncSteps ==
  ASSUME [Next]_vars
  PROVE  \/ Time \/ UNCHANGED syncVars
         \/ \E i \in Importers :
              \/ \E p \in Phrases : SyncBegin(i, p)
              \/ SyncRefused(i) \/ SyncOpen(i) \/ check_and_record_nonce(i)
              \/ NoncesUnread(i) \/ SyncSave(i) \/ RecordFails(i) \/ SyncFails(i) \/ SyncRoutes(i)
<1>1. CASE Sync
  BY <1>1 DEF Sync
<1>2. CASE UNCHANGED vars
  BY <1>2 DEF vars
<1> QED BY <1>1, <1>2 DEF Next

Imports == [at : {"no", "open", "nonce", "save", "routes"},
            phrase : Phrases \cup {NoPhrase}, now : 0 .. MaxClock]

(* An importer may be where it is in what is known of its phrase. *)
Placed(r) ==
  /\ r # Away => r.phrase \in Phrases /\ exp[r.phrase] \in Nat
  /\ r.at = "nonce" => r.now <= clock /\ r.now <= exp[r.phrase]

LEMMA AwayFacts == Away \in Imports /\ Away.at = "no"
BY SyncAssumption DEF Away, Imports

LEMMA PlacedFacts ==
  ASSUME SyncInv
  PROVE  /\ sync \in [Importers -> Imports] /\ \A i \in Importers : Placed(sync[i])
         /\ clock \in 0 .. MaxClock /\ clock \in Nat /\ MaxClock \in Nat /\ Ttl \in Nat
         /\ MaxSkew \in Nat /\ Slack \in Nat
         /\ exp \in [Phrases -> (0 .. MaxClock + Ttl + MaxSkew) \cup {NoPhrase}]
         /\ nonces \subseteq Phrases /\ late \subseteq Phrases /\ forgot \subseteq Phrases
         /\ taken \in [Phrases -> Nat]
BY SyncAssumption DEF SyncInv, SyncTypeOK, Imports, Placed

(* An importer moves and nothing else changes. *)
LEMMA GoStep ==
  ASSUME SyncInv, NEW i \in Importers, NEW r \in Imports, Placed(r), SyncGo(i, r),
         UNCHANGED <<clock, exp, nonces, taken, late, forgot>>
  PROVE  SyncInv'
<1>1. /\ sync' \in [Importers -> Imports]
      /\ \A j \in Importers : sync'[j] = IF j = i THEN r ELSE sync[j]
  BY PlacedFacts DEF SyncGo
<1>2. \A j \in Importers : Placed(sync'[j])
  BY <1>1, PlacedFacts
<1>3. SyncTypeOK'
  BY <1>1 DEF SyncInv, SyncTypeOK, Imports
<1> QED BY <1>2, <1>3 DEF SyncInv, Placed, PhraseOnce

LEMMA SyncStep == SyncInv /\ [Next]_vars => SyncInv'
<1> SUFFICES ASSUME SyncInv, [Next]_vars PROVE SyncInv'
  OBVIOUS
<1>1. CASE Time
  <2>1. clock' = clock + 1 /\ clock' \in 0 .. MaxClock
    BY <1>1, PlacedFacts DEF Time
  <2>2. UNCHANGED <<exp, nonces, sync, taken, late, forgot>>
    BY <1>1 DEF Time
  <2>3. SyncTypeOK'
    BY <2>1, <2>2 DEF SyncInv, SyncTypeOK
  <2>4. \A i \in Importers : sync[i].at = "nonce" => sync[i].now <= clock + 1
    <3> SUFFICES ASSUME NEW i \in Importers, sync[i].at = "nonce"
                 PROVE  sync[i].now <= clock + 1
      OBVIOUS
    <3>1. sync[i].now \in Nat /\ sync[i].now <= clock
      BY PlacedFacts DEF Placed, Imports
    <3> QED BY <3>1, PlacedFacts
  <2>5. \A p \in Phrases : exp[p] \in Nat /\ exp[p] < clock => exp[p] < clock + 1
    BY PlacedFacts
  <2> QED BY <2>1, <2>2, <2>3, <2>4, <2>5 DEF SyncInv, PhraseOnce
<1>2. ASSUME NEW i \in Importers, NEW p \in Phrases, SyncBegin(i, p)
      PROVE  SyncInv'
  <2> DEFINE r == [at |-> "open", phrase |-> p, now |-> 0]
  <2>1. /\ exp' \in [Phrases -> (0 .. MaxClock + Ttl + MaxSkew) \cup {NoPhrase}]
        /\ exp'[p] \in Nat /\ \A q \in Phrases : exp[q] \in Nat => exp'[q] = exp[q]
    <3>1. PICK s \in 0 .. MaxSkew :
            exp' = [exp EXCEPT ![p] = IF @ = NoPhrase THEN clock + Ttl + s ELSE @]
      BY <1>2 DEF SyncBegin, export
    <3>2. clock + Ttl + s \in 0 .. MaxClock + Ttl + MaxSkew
      BY PlacedFacts
    <3> QED BY <3>1, <3>2, PlacedFacts, SyncAssumption
  <2>2. r \in Imports /\ r.at = "open" /\ r.phrase = p
    BY SyncAssumption DEF Imports
  <2>3. SyncGo(i, r) /\ UNCHANGED <<clock, nonces, taken, late, forgot>>
    BY <1>2 DEF SyncBegin
  <2> HIDE DEF r
  <2>4. /\ sync' \in [Importers -> Imports]
        /\ \A j \in Importers : sync'[j] = IF j = i THEN r ELSE sync[j]
    BY <2>2, <2>3, PlacedFacts DEF SyncGo
  <2>5. \A j \in Importers : Placed(sync[j])'
    <3> SUFFICES ASSUME NEW j \in Importers PROVE Placed(sync[j])'
      OBVIOUS
    <3>1. CASE j = i
      BY <2>1, <2>2, <2>4, <3>1 DEF Placed
    <3>2. CASE j # i
      <4>1. sync'[j] = sync[j] /\ Placed(sync[j]) /\ clock' = clock
        BY <2>3, <2>4, <3>2, PlacedFacts
      <4>2. sync[j].at = "nonce" => sync[j] # Away
        BY AwayFacts
      <4> QED BY <2>1, <4>1, <4>2 DEF Placed
    <3> QED BY <3>1, <3>2
  <2>6. SyncTypeOK'
    BY <2>1, <2>3, <2>4 DEF SyncInv, SyncTypeOK, Imports
  <2>7. /\ \A q \in nonces : exp'[q] \in Nat
        /\ \A q \in Phrases : taken[q] > 0 =>
             exp'[q] \in Nat /\ (q \in nonces \cup forgot \/ exp'[q] < clock)
    BY <2>1, PlacedFacts DEF SyncInv
  <2> QED BY <2>3, <2>5, <2>6, <2>7 DEF SyncInv, Placed, PhraseOnce
<1>3. ASSUME NEW i \in Importers,
             SyncRefused(i) \/ RecordFails(i) \/ SyncFails(i) \/ SyncRoutes(i)
      PROVE  SyncInv'
  <2>1. SyncGo(i, Away) /\ UNCHANGED <<clock, exp, nonces, taken, late, forgot>>
    BY <1>3 DEF SyncRefused, RecordFails, SyncFails, SyncRoutes
  <2>2. Placed(Away)
    BY AwayFacts DEF Placed
  <2> QED BY <2>1, <2>2, AwayFacts, GoStep
<1>4. ASSUME NEW i \in Importers, SyncOpen(i) PROVE SyncInv'
  <2> DEFINE r == [sync[i] EXCEPT !.at = "nonce", !.now = clock]
  <2>1. SyncGo(i, r) /\ UNCHANGED <<clock, exp, nonces, taken, late, forgot>>
    BY <1>4 DEF SyncOpen
  <2>2. r \in Imports /\ r.at = "nonce" /\ r.now = clock /\ r.phrase = sync[i].phrase
    BY PlacedFacts DEF Imports
  <2>3. sync[i].at = "open" /\ clock <= exp[sync[i].phrase]
    BY <1>4 DEF SyncOpen
  <2>4. sync[i] # Away
    BY <2>3, AwayFacts
  <2> HIDE DEF r
  <2>5. Placed(r)
    BY <2>2, <2>3, <2>4, PlacedFacts DEF Placed
  <2> QED BY <2>1, <2>2, <2>5, GoStep
<1>5. ASSUME NEW i \in Importers, SyncSave(i) PROVE SyncInv'
  <2> DEFINE r == [sync[i] EXCEPT !.at = "routes"]
  <2>1. SyncGo(i, r) /\ UNCHANGED <<clock, exp, nonces, taken, late, forgot>> /\ sync[i].at = "save"
    BY <1>5 DEF SyncSave
  <2>2. r \in Imports /\ r.at = "routes" /\ r.phrase = sync[i].phrase
    BY PlacedFacts DEF Imports
  <2>3. sync[i] # Away
    BY <2>1, AwayFacts
  <2> HIDE DEF r
  <2>4. Placed(r)
    BY <2>2, <2>3, PlacedFacts DEF Placed
  <2> QED BY <2>1, <2>2, <2>4, GoStep
<1>6. ASSUME NEW i \in Importers, check_and_record_nonce(i) \/ NoncesUnread(i)
      PROVE  SyncInv'
  <2> DEFINE p == sync[i].phrase
             r == [sync[i] EXCEPT !.at = "save"]
  <2>1. sync[i].at = "nonce"
    BY <1>6 DEF check_and_record_nonce, NoncesUnread, Recorded
  <2>2. /\ p \in Phrases /\ exp[p] \in Nat /\ sync[i].now \in Nat
        /\ sync[i].now <= clock /\ sync[i].now <= exp[p]
    <3>1. sync[i] # Away
      BY <2>1, AwayFacts
    <3> QED BY <2>1, <3>1, PlacedFacts DEF Placed, Imports
  <2>3. PICK kept : /\ Recorded(i, kept)
                    /\ \/ /\ kept = {n \in nonces : sync[i].now <= exp[n]}
                          /\ forgot' = forgot
                       \/ kept = {} /\ forgot' = forgot \cup nonces
    BY <1>6 DEF check_and_record_nonce, NoncesUnread
  <2>4. CASE p \in kept
    <3>1. SyncGo(i, Away) /\ UNCHANGED <<clock, exp, nonces, taken, late, forgot>>
      BY <2>3, <2>4 DEF Recorded
    <3>2. Placed(Away)
      BY AwayFacts DEF Placed
    <3> QED BY <3>1, <3>2, AwayFacts, GoStep
  <2>5. CASE p \notin kept
    <3>1. /\ nonces' = kept \cup {p} /\ taken' = [taken EXCEPT ![p] = @ + 1]
          /\ late' = IF clock > exp[p] THEN late \cup {p} ELSE late
          /\ SyncGo(i, r) /\ UNCHANGED <<clock, exp>>
      BY <2>3, <2>5 DEF Recorded
    <3>2. r \in Imports /\ r.at = "save" /\ r.phrase = p
      BY PlacedFacts DEF Imports
    <3>3. \A q \in nonces \ (kept \cup forgot') : exp[q] \in Nat /\ exp[q] < clock
      <4> SUFFICES ASSUME NEW q \in nonces, q \notin kept, q \notin forgot'
                   PROVE  exp[q] \in Nat /\ exp[q] < clock
        OBVIOUS
      <4>1. exp[q] \in Nat
        BY DEF SyncInv
      <4>2. ~(sync[i].now <= exp[q])
        BY <2>3
      <4> QED BY <2>2, <4>1, <4>2, PlacedFacts
    <3>4. p \notin nonces \/ p \in forgot'
      BY <2>2, <2>3, <2>5
    <3>5. kept \subseteq nonces /\ forgot \subseteq forgot' /\ forgot' \subseteq Phrases
      BY <2>3, PlacedFacts
    <3> HIDE DEF r, p
    <3>6. /\ sync' \in [Importers -> Imports]
          /\ \A j \in Importers : sync'[j] = IF j = i THEN r ELSE sync[j]
      BY <3>1, <3>2, PlacedFacts DEF SyncGo
    <3>7. \A j \in Importers : Placed(sync[j])'
      <4> SUFFICES ASSUME NEW j \in Importers PROVE Placed(sync[j])'
        OBVIOUS
      <4>1. CASE j = i
        BY <2>2, <3>1, <3>2, <3>6, <4>1 DEF Placed
      <4>2. CASE j # i
        BY <3>1, <3>6, <4>2, PlacedFacts DEF Placed
      <4> QED BY <4>1, <4>2
    <3>8. taken' \in [Phrases -> Nat]
          /\ \A q \in Phrases : taken'[q] = IF q = p THEN taken[p] + 1 ELSE taken[q]
      BY <2>2, <3>1, PlacedFacts
    <3>9. SyncTypeOK'
      <4>1. nonces' \subseteq Phrases /\ late' \subseteq Phrases
        BY <2>2, <3>1, <3>5, PlacedFacts
      <4> QED BY <3>1, <3>5, <3>6, <3>8, <4>1 DEF SyncInv, SyncTypeOK, Imports
    <3>10. \A q \in nonces' : exp[q] \in Nat
      BY <2>2, <3>1, <3>5 DEF SyncInv
    <3>11. \A q \in Phrases : taken'[q] > 0 =>
             exp[q] \in Nat /\ (q \in nonces' \cup forgot' \/ exp[q] < clock)
      <4> SUFFICES ASSUME NEW q \in Phrases, taken'[q] > 0
                   PROVE  exp[q] \in Nat /\ (q \in nonces' \cup forgot' \/ exp[q] < clock)
        OBVIOUS
      <4>1. CASE q = p
        BY <2>2, <3>1, <4>1
      <4>2. CASE q # p
        <5>1. exp[q] \in Nat /\ (q \in nonces \cup forgot \/ exp[q] < clock)
          BY <3>8, <4>2 DEF SyncInv
        <5> QED BY <3>1, <3>3, <3>5, <5>1
      <4> QED BY <4>1, <4>2
    <3>12. \A q \in Phrases : taken'[q] > 1 => q \in late' \cup forgot'
      <4> SUFFICES ASSUME NEW q \in Phrases, taken'[q] > 1 PROVE q \in late' \cup forgot'
        OBVIOUS
      <4>1. CASE q = p
        <5>1. taken[p] > 0
          BY <2>2, <3>8, <4>1, PlacedFacts
        <5>2. p \in forgot' \/ exp[p] < clock
          BY <2>2, <3>4, <3>5, <5>1 DEF SyncInv
        <5> QED BY <2>2, <3>1, <4>1, <5>2, PlacedFacts
      <4>2. CASE q # p
        BY <3>1, <3>5, <3>8, <4>2 DEF SyncInv, PhraseOnce
      <4> QED BY <4>1, <4>2
    <3> QED BY <3>1, <3>7, <3>9, <3>10, <3>11, <3>12 DEF SyncInv, Placed, PhraseOnce
  <2> QED BY <2>4, <2>5
<1>7. CASE UNCHANGED syncVars
  BY <1>7 DEF SyncInv, SyncTypeOK, PhraseOnce, syncVars
<1> QED BY <1>1, <1>2, <1>3, <1>4, <1>5, <1>6, <1>7, SyncSteps

(* The invariant of the phrases. *)
LEMMA SyncAlways == Spec => []SyncInv
<1>1. Init => SyncInv
  <2> SUFFICES ASSUME Init PROVE SyncInv
    OBVIOUS
  <2>1. /\ clock = 0 /\ exp = [p \in Phrases |-> NoPhrase] /\ nonces = {} /\ late = {} /\ forgot = {}
        /\ sync = [i \in Importers |-> Away] /\ taken = [p \in Phrases |-> 0]
    BY DEF Init, SyncInit
  <2>2. SyncTypeOK
    BY <2>1, AwayFacts, SyncAssumption DEF SyncTypeOK, Imports
  <2> QED BY <2>1, <2>2, AwayFacts DEF SyncInv, PhraseOnce
<1> QED BY <1>1, SyncStep, PTL DEF Spec

(* However many imports of a phrase overlap, and although old nonces are
   dropped by a clock that was read before the lock, check_and_record_nonce
   lets one of them through; but for imports that were so slow to the lock
   that their phrase had expired, and phrases whose record could not be read. *)
THEOREM PhraseAlwaysOnce == Spec => []PhraseOnce
<1>1. SyncInv => PhraseOnce
  BY DEF SyncInv
<1> QED BY <1>1, SyncAlways, PTL

-----------------------------------------------------------------------------
(* The monitor. *)
LEMMA MonitorSteps ==
  ASSUME [Next]_vars
  PROVE  \/ TickBegin \/ Collect \/ CollectFails \/ Persist \/ PersistFails
         \/ InsertAlert \/ InsertAlertFails \/ CollectVercel \/ PersistVercel
         \/ Prune \/ Post \/ (\E id \in 1 .. Len(alerts) : mark_alert_read(id))
         \/ MonitorFresh /\ UNCHANGED monitorStore
         \/ UNCHANGED monitorVars
<1>1. CASE Sync
  BY <1>1 DEF Sync
<1>2. CASE Commands \/ Api \/ Faults
  BY <1>2 DEF Commands, Api, Faults, ProcOnly
<1>3. CASE Monitor
  BY <1>3 DEF Monitor
<1>4. CASE Serve \/ Server \/ Stop \/ Upgrade
  BY <1>4 DEF Serve, Server, Stop, Upgrade, ProcOnly, Monitored
<1>5. CASE UNCHANGED vars
  BY <1>5 DEF vars
<1> QED BY <1>1, <1>2, <1>3, <1>4, <1>5 DEF Next, Node

LEMMA PercentFacts ==
  /\ Percents \subseteq 0 .. 200 /\ Threshold \in Int /\ None \notin Percents
  /\ Len(Metered) \in Nat
<1>1. Percents \subseteq 0 .. 200 /\ Threshold \in 0 .. 100 /\ None \notin 0 .. 200
  BY MonitorAssumption
<1>2. Len(Metered) \in Nat
  BY MonitorAssumption
<1>3. Threshold \in Int
  BY <1>1
<1>4. None \notin Percents
  BY <1>1
<1> QED BY <1>1, <1>2, <1>3, <1>4

LEMMA RestingFacts == Resting \in Polls /\ Resting.at = "idle"
BY DEF Resting, Polls

LEMMA PollFacts ==
  ASSUME NEW i \in Nat \ {0}
  PROVE  /\ PollFrom(i) \in Polls /\ PollFrom(i).at \in {"collect", "vercel", "prune"}
         /\ PollFrom(i).at = "collect" => PollFrom(i).src \in Src
<1>1. CASE i <= Len(Metered)
  <2>1. Metered[i] \in Src
    BY <1>1, PercentFacts DEF Src
  <2>2. PollFrom(i) = [at |-> "collect", src |-> Metered[i], pct |-> Sentinel, err |-> FALSE]
    BY <1>1 DEF PollFrom, Resting
  <2> QED BY <2>1, <2>2 DEF Polls
<1>2. CASE ~(i <= Len(Metered))
  <2>1. PICK a \in {"vercel", "prune"} :
          PollFrom(i) = [at |-> a, src |-> None, pct |-> Sentinel, err |-> FALSE]
    BY <1>2 DEF PollFrom, Resting
  <2> QED BY <2>1 DEF Polls
<1> QED BY <1>1, <1>2

LEMMA AfterFacts ==
  ASSUME NEW s \in Src
  PROVE  /\ After(s) \in Polls /\ After(s).at \in {"collect", "vercel", "prune"}
         /\ After(s).at = "collect" => After(s).src \in Src
<1> DEFINE k == CHOOSE k \in 1 .. Len(Metered) : Metered[k] = s
<1>1. \E j \in 1 .. Len(Metered) : Metered[j] = s
  BY DEF Src
<1>2. k \in 1 .. Len(Metered)
  BY <1>1
<1>3. 1 + k \in Nat \ {0} /\ After(s) = PollFrom(1 + k)
  BY <1>2, PercentFacts DEF After
<1> QED BY <1>3, PollFacts

(* One more percentage is one more crossing, or none. *)
Reaches(last, x) == x >= Threshold /\ (last = None \/ last < Threshold)
LastOf(p) == IF p = <<>> THEN None ELSE p[Len(p)]

LEMMA CrossingFacts ==
  ASSUME NEW p \in Seq(Percents), NEW x \in Percents
  PROVE  /\ Crossings(p) \in Nat
         /\ Crossings(Append(p, x)) = Crossings(p) + IF Reaches(LastOf(p), x) THEN 1 ELSE 0
<1> DEFINE Ups(q) == {i \in 1 .. Len(q) : q[i] >= Threshold /\ (i = 1 \/ q[i - 1] < Threshold)}
           q == Append(p, x)
           n == Len(p) + 1
<1>1. /\ Len(p) \in Nat /\ Len(q) = n /\ q[n] = x /\ \A i \in 1 .. Len(p) : q[i] = p[i]
  OBVIOUS
<1>2. IsFiniteSet(Ups(p)) /\ n \notin Ups(p)
  <2>1. IsFiniteSet(1 .. Len(p)) /\ Ups(p) \subseteq 1 .. Len(p)
    BY <1>1, FS_Interval
  <2> QED BY <1>1, <2>1, FS_Subset
<1>3. /\ Cardinality(Ups(p)) \in Nat
      /\ Cardinality(Ups(p) \cup {n}) = Cardinality(Ups(p)) + 1
  BY <1>2, FS_CardinalityType, FS_AddElement
<1>4. \A i \in 1 .. Len(p) : i \in Ups(q) <=> i \in Ups(p)
  BY <1>1
<1>5. n \in Ups(q) <=> Reaches(LastOf(p), x)
  <2>1. CASE p = <<>>
    <3>1. n = 1 /\ LastOf(p) = None
      BY <2>1 DEF LastOf
    <3> QED BY <1>1, <3>1 DEF Reaches
  <2>2. CASE p # <<>>
    <3>1. /\ n # 1 /\ n - 1 = Len(p) /\ Len(p) \in 1 .. Len(p) /\ LastOf(p) = p[Len(p)]
          /\ p[Len(p)] \in Percents
      BY <1>1, <2>2 DEF LastOf
    <3>2. LastOf(p) # None /\ q[n - 1] = LastOf(p)
      BY <1>1, <3>1, PercentFacts
    <3> QED BY <1>1, <3>1, <3>2 DEF Reaches
  <2> QED BY <2>1, <2>2
<1>6. Ups(q) = IF Reaches(LastOf(p), x) THEN Ups(p) \cup {n} ELSE Ups(p)
  <2>1. \A i \in Ups(q) : i \in 1 .. Len(p) \/ i = n
    BY <1>1
  <2>2. Ups(p) \subseteq 1 .. Len(p)
    OBVIOUS
  <2> HIDE DEF Ups, q, n
  <2>3. CASE Reaches(LastOf(p), x)
    BY <1>4, <1>5, <2>1, <2>2, <2>3
  <2>4. CASE ~Reaches(LastOf(p), x)
    <3>1. n \notin Ups(q)
      BY <1>5, <2>4
    <3>2. Ups(q) \subseteq Ups(p)
      BY <1>4, <2>1, <3>1
    <3>3. Ups(p) \subseteq Ups(q)
      BY <1>4, <2>2
    <3>4. Ups(q) = Ups(p)
      BY <3>2, <3>3
    <3> QED BY <2>4, <3>4
  <2> QED BY <2>3, <2>4
<1>7. Crossings(p) = Cardinality(Ups(p)) /\ Crossings(q) = Cardinality(Ups(q))
  BY DEF Crossings
<1> HIDE DEF Ups, q, n
<1>8. Crossings(q) = Crossings(p) + IF Reaches(LastOf(p), x) THEN 1 ELSE 0
  BY <1>3, <1>6, <1>7
<1> QED BY <1>3, <1>7, <1>8 DEF q

LEMMA NoCrossing == Crossings(<<>>) = 0
<1>1. {i \in 1 .. Len(<<>>) : <<>>[i] >= Threshold /\ (i = 1 \/ <<>>[i - 1] < Threshold)} = {}
  OBVIOUS
<1> QED BY <1>1, FS_EmptySet DEF Crossings

(* evaluate_crossing says that the threshold is reached from below. *)
LEMMA EvaluateFacts ==
  ASSUME NEW last \in Percents \cup {None}, NEW x \in Percents
  PROVE  evaluate_crossing(last, x) = None <=> ~Reaches(last, x)
<1>1. x \in Int /\ ~(x < 0) /\ Threshold \in Int /\ (last # None => last \in Int)
  BY PercentFacts
<1>2. None # "warning" /\ None # "critical"
  BY MonitorAssumption
<1> QED BY <1>1, <1>2 DEF evaluate_crossing, Reaches

LEMMA MonitorFacts ==
  ASSUME MonitorInv
  PROVE  /\ tick \in Polls /\ tick.src \in Src \cup {None}
         /\ tick.pct \in Percents \cup {Sentinel} /\ tick.err \in BOOLEAN
         /\ tick.at \in {"collect", "persist", "insert"} => tick.src \in Src
         /\ tick.at \in {"persist", "insert"} => tick.pct \in Percents
         /\ \A s \in Src : seen[s] \in Seq(Percents) /\ told[s] \in Nat /\ missed[s] \in Nat
         /\ \A s \in Src : last_pct[s] = LastOf(seen[s])
BY DEF MonitorInv, Polls, Remembered, LastOf

(* The poll moves on, and no alert is on its way before or after. *)
LEMMA PollStep ==
  ASSUME MonitorInv, tick' \in Polls, tick.at # "insert", tick'.at # "insert",
         tick'.at \in {"collect", "persist"} => tick'.src \in Src,
         tick'.at = "persist" => tick'.pct \in Percents,
         UNCHANGED <<last_pct, seen, told, missed>>
  PROVE  MonitorInv'
BY DEF MonitorInv, Polls, Remembered, AlertPerCrossing

(* A crossing counted as on its way is counted as stored or refused. *)
LEMMA InsertStep ==
  ASSUME MonitorInv, tick.at = "insert", tick' = After(tick.src),
         \/ /\ told' = [told EXCEPT ![tick.src] = @ + 1]
            /\ UNCHANGED missed
         \/ /\ missed' = [missed EXCEPT ![tick.src] = @ + 1]
            /\ UNCHANGED told,
         UNCHANGED <<last_pct, seen>>
  PROVE  MonitorInv'
<1>1. tick.src \in Src
  BY MonitorFacts
<1>2. /\ tick' \in Polls /\ tick'.at \in {"collect", "vercel", "prune"}
      /\ tick'.at = "collect" => tick'.src \in Src
  BY <1>1, AfterFacts
<1>3. /\ told' \in [Src -> Nat] /\ missed' \in [Src -> Nat]
      /\ \A s \in Src : told'[s] + missed'[s] =
           told[s] + missed[s] + IF tick.src = s THEN 1 ELSE 0
  <2>1. told \in [Src -> Nat] /\ missed \in [Src -> Nat]
    BY DEF MonitorInv
  <2>2. CASE told' = [told EXCEPT ![tick.src] = @ + 1] /\ missed' = missed
    BY <1>1, <2>1, <2>2
  <2>3. CASE missed' = [missed EXCEPT ![tick.src] = @ + 1] /\ told' = told
    BY <1>1, <2>1, <2>3
  <2> QED BY <2>2, <2>3
<1>4. AlertPerCrossing'
  <2> SUFFICES ASSUME NEW s \in Src
               PROVE  told'[s] + missed'[s] + 0 = Crossings(seen[s])
    BY <1>2 DEF AlertPerCrossing
  <2>1. told[s] + missed[s] + (IF tick.src = s THEN 1 ELSE 0) = Crossings(seen[s])
    BY DEF MonitorInv, AlertPerCrossing
  <2>2. told'[s] \in Nat /\ missed'[s] \in Nat
    BY <1>3
  <2> QED BY <1>3, <2>1, <2>2
<1> QED BY <1>2, <1>3, <1>4 DEF MonitorInv, Polls, Remembered

LEMMA PersistStep ==
  ASSUME MonitorInv, Persist PROVE MonitorInv'
<1> DEFINE s == tick.src
           x == tick.pct
<1>1. s \in Src /\ x \in Percents /\ tick.at = "persist"
  BY MonitorFacts DEF Persist
<1>2. /\ last_pct' = [last_pct EXCEPT ![s] = x] /\ seen' = [seen EXCEPT ![s] = Append(@, x)]
      /\ UNCHANGED <<told, missed>>
  BY DEF Persist
<1>3. tick' = IF Reaches(LastOf(seen[s]), x) THEN [tick EXCEPT !.at = "insert"] ELSE After(s)
  <2>1. last_pct[s] \in Percents \cup {None} /\ last_pct[s] = LastOf(seen[s])
    BY <1>1, MonitorFacts DEF MonitorInv
  <2> QED BY <1>1, <2>1, EvaluateFacts DEF Persist
<1>4. /\ tick' \in Polls
      /\ IF Reaches(LastOf(seen[s]), x)
         THEN tick'.at = "insert" /\ tick'.src = s /\ tick'.pct = x
         ELSE /\ tick'.at \in {"collect", "vercel", "prune"}
              /\ tick'.at = "collect" => tick'.src \in Src
  <2>1. CASE Reaches(LastOf(seen[s]), x)
    BY <1>3, <2>1, MonitorFacts DEF Polls
  <2>2. CASE ~Reaches(LastOf(seen[s]), x)
    BY <1>1, <1>3, <2>2, AfterFacts
  <2> QED BY <2>1, <2>2
<1>5. /\ seen' \in [Src -> Seq(Percents)] /\ last_pct' \in [Src -> Percents \cup {None}]
      /\ \A r \in Src : /\ seen'[r] = IF r = s THEN Append(seen[s], x) ELSE seen[r]
                        /\ last_pct'[r] = IF r = s THEN x ELSE last_pct[r]
  BY <1>1, <1>2 DEF MonitorInv
<1>6. \A r \in Src : Remembered(r)'
  <2> SUFFICES ASSUME NEW r \in Src PROVE Remembered(r)'
    OBVIOUS
  <2>1. CASE r = s
    <3>1. /\ Append(seen[s], x) # <<>>
          /\ Append(seen[s], x)[Len(Append(seen[s], x))] = x
      BY <1>1, MonitorFacts
    <3> QED BY <1>5, <2>1, <3>1 DEF Remembered
  <2>2. CASE r # s
    BY <1>5, <2>2 DEF MonitorInv, Remembered
  <2> QED BY <2>1, <2>2
<1>7. AlertPerCrossing'
  <2> SUFFICES ASSUME NEW r \in Src
               PROVE  told[r] + missed[r] + (IF tick'.at = "insert" /\ tick'.src = r THEN 1 ELSE 0)
                        = Crossings(seen'[r])
    BY <1>2 DEF AlertPerCrossing
  <2>1. told[r] + missed[r] + 0 = Crossings(seen[r])
    BY <1>1 DEF MonitorInv, AlertPerCrossing
  <2>2. told[r] \in Nat /\ missed[r] \in Nat
    BY MonitorFacts
  <2>3. CASE r = s
    <3>1. Crossings(seen'[s]) =
            Crossings(seen[s]) + IF Reaches(LastOf(seen[s]), x) THEN 1 ELSE 0
      BY <1>1, <1>5, MonitorFacts, CrossingFacts
    <3> QED BY <1>4, <2>1, <2>2, <2>3, <3>1
  <2>4. CASE r # s
    <3>1. ~(tick'.at = "insert" /\ tick'.src = r)
      BY <1>4, <2>4
    <3> QED BY <1>5, <2>1, <2>2, <2>4, <3>1
  <2> QED BY <2>3, <2>4
<1> QED BY <1>1, <1>2, <1>4, <1>5, <1>6, <1>7 DEF MonitorInv, Polls

LEMMA FreshStep ==
  ASSUME MonitorFresh PROVE MonitorInv'
<1>1. /\ last_pct' = [s \in Src |-> None] /\ tick' = Resting /\ seen' = [s \in Src |-> <<>>]
      /\ told' = [s \in Src |-> 0] /\ missed' = [s \in Src |-> 0]
  BY DEF MonitorFresh
<1>2. \A s \in Src : Remembered(s)'
  BY <1>1 DEF Remembered
<1>3. AlertPerCrossing'
  BY <1>1, NoCrossing, RestingFacts DEF AlertPerCrossing
<1> QED BY <1>1, <1>2, <1>3, RestingFacts DEF MonitorInv, Polls

LEMMA MonitorStep == MonitorInv /\ [Next]_vars => MonitorInv'
<1> SUFFICES ASSUME MonitorInv, [Next]_vars PROVE MonitorInv'
  OBVIOUS
<1>1. CASE TickBegin
  <2>1. tick.at = "idle" /\ tick' = PollFrom(1) /\ UNCHANGED <<last_pct, seen, told, missed>>
    BY <1>1 DEF TickBegin
  <2> QED BY <2>1, PollFacts, PollStep
<1>2. CASE Collect
  <2>1. PICK x \in Percents : tick' = [tick EXCEPT !.at = "persist", !.pct = x]
    BY <1>2 DEF Collect
  <2>2. tick.at = "collect" /\ UNCHANGED <<last_pct, seen, told, missed>>
    BY <1>2 DEF Collect
  <2>3. tick' \in Polls /\ tick'.at = "persist" /\ tick'.src = tick.src /\ tick'.pct = x
    BY <2>1, MonitorFacts DEF Polls
  <2> QED BY <2>2, <2>3, MonitorFacts, PollStep
<1>3. CASE CollectFails \/ PersistFails
  <2>1. /\ tick.at \in {"collect", "persist"} /\ tick' = After(tick.src)
        /\ UNCHANGED <<last_pct, seen, told, missed>>
    BY <1>3 DEF CollectFails, PersistFails
  <2> QED BY <2>1, MonitorFacts, AfterFacts, PollStep
<1>4. CASE Persist
  BY <1>4, PersistStep
<1>5. CASE InsertAlert \/ InsertAlertFails
  BY <1>5, InsertStep DEF InsertAlert, InsertAlertFails
<1>6. CASE CollectVercel \/ PersistVercel \/ Prune
  <2>1. /\ tick.at \in {"vercel", "metric", "prune"}
        /\ UNCHANGED <<last_pct, seen, told, missed>>
        /\ \/ tick' = [tick EXCEPT !.at = "metric"]
           \/ tick' = [Resting EXCEPT !.at = "prune"]
           \/ tick' = Resting
    BY <1>6 DEF CollectVercel, PersistVercel, Prune
  <2>2. tick' \in Polls /\ tick'.at \in {"metric", "prune", "idle"}
    BY <2>1, MonitorFacts, RestingFacts DEF Polls
  <2> QED BY <2>1, <2>2, PollStep
<1>7. ASSUME UNCHANGED <<last_pct, tick, seen, told, missed>> PROVE MonitorInv'
  BY <1>7 DEF MonitorInv, Remembered, AlertPerCrossing
<1>8. CASE Post \/ \E id \in 1 .. Len(alerts) : mark_alert_read(id)
  BY <1>7, <1>8 DEF Post, mark_alert_read, monitorState
<1>9. CASE MonitorFresh
  BY <1>9, FreshStep
<1>10. CASE UNCHANGED monitorVars
  BY <1>7, <1>10 DEF monitorVars, monitorState
<1> QED BY <1>1, <1>2, <1>3, <1>4, <1>5, <1>6, <1>8, <1>9, <1>10, MonitorSteps

(* The invariant of the monitor. *)
LEMMA MonitorAlways == Spec => []MonitorInv
<1>1. Init => MonitorInv
  <2> SUFFICES ASSUME Init PROVE MonitorInv
    OBVIOUS
  <2>1. /\ last_pct = [s \in Src |-> None] /\ tick = Resting /\ seen = [s \in Src |-> <<>>]
        /\ told = [s \in Src |-> 0] /\ missed = [s \in Src |-> 0]
    BY DEF Init, MonitorInit
  <2>2. \A s \in Src : Remembered(s)
    BY <2>1 DEF Remembered
  <2>3. AlertPerCrossing
    BY <2>1, NoCrossing, RestingFacts DEF AlertPerCrossing
  <2> QED BY <2>1, <2>2, <2>3, RestingFacts DEF MonitorInv, Polls
<1> QED BY <1>1, MonitorStep, PTL DEF Spec

(* However polls and the store fail in between, and across restarts of the
   process, each time the stored samples of a source come up to the threshold
   there is one alert, stored or refused by the store, and no other. *)
THEOREM AlertAlwaysPerCrossing == Spec => []AlertPerCrossing
<1>1. MonitorInv => AlertPerCrossing
  BY DEF MonitorInv
<1> QED BY <1>1, MonitorAlways, PTL

-----------------------------------------------------------------------------
(* The processes.  First what a step of the node can be for them. *)
OwnStep(p) ==
  \/ ServeLock(p) \/ ServeStart(p) \/ ServeAdmin(p) \/ ServeProbe(p) \/ ServeSpawn(p)
  \/ ServeSpawnFails(p) \/ ServeBind(p) \/ ForwarderBind(p) \/ Dies(p)
  \/ ServerBind(p) \/ ServerAdmin(p) \/ ServerFails(p) \/ Crash(p)

(* The command that restarts a daemon ends; nothing else happens to processes. *)
RestartEnds ==
  /\ cmd \notin Stopping /\ cmd' = "no"
  /\ UNCHANGED <<proc, bound, lockVars, pidFiles, exec, unitVars, foreign, listed,
                 victims, fwdLost>>

LEMMA ProcSteps ==
  ASSUME [Next]_vars
  PROVE  \/ serve \/ join \/ start \/ UnitRespawn \/ RestartUnit
         \/ stop /\ cmd = "no"
         \/ \E p \in Pids : OwnStep(p)
         \/ StopKill \/ StopRemove \/ StopUnit \/ StopUnitFails \/ StopList \/ StopOrphans
         \/ RestartDaemonKill \/ RestartDaemonSpawn \/ RestartEnds
         \/ UNCHANGED procVars
<1>1. CASE Sync
  BY <1>1 DEF Sync
<1>2. CASE Commands
  BY <1>2 DEF Commands, ProcOnly
<1>3. CASE Api \/ Monitor
  BY <1>3 DEF Api, Monitor
<1>4. CASE Faults
  <2>1. CASE \E p \in Pids : ProcOnly(ServeSpawnFails(p) \/ Crash(p))
    BY <2>1 DEF ProcOnly, OwnStep
  <2>2. CASE ProcOnly(StopUnitFails)
    BY <2>2 DEF ProcOnly
  <2>3. CASE UNCHANGED procVars
    BY <2>3
  <2>4. CASE /\ cmd' = IF cmd \in Stopping THEN cmd ELSE "no"
             /\ UNCHANGED <<proc, bound, lockVars, pidFiles, exec, unitVars, foreign,
                            listed, victims, fwdLost>>
    BY <2>4 DEF RestartEnds, procVars, stopVars
  <2> QED BY <1>4, <2>1, <2>2, <2>3, <2>4 DEF Faults
<1>5. CASE Serve
  BY <1>5 DEF Serve, ProcOnly, OwnStep
<1>6. CASE Server
  BY <1>6 DEF Server, ProcOnly, OwnStep
<1>7. CASE Stop
  BY <1>7 DEF Stop, ProcOnly
<1>8. CASE Upgrade
  <2>1. RestartDaemonGivesUp => RestartEnds
    BY DEF RestartDaemonGivesUp, RestartEnds, Stopping
  <2>2. NotRestarted \/ Refused => UNCHANGED procVars
    BY DEF NotRestarted, Refused
  <2> QED BY <1>8, <2>1, <2>2 DEF Upgrade
<1>9. CASE UNCHANGED vars
  BY <1>9 DEF vars
<1> QED BY <1>1, <1>2, <1>3, <1>4, <1>5, <1>6, <1>7, <1>8, <1>9 DEF Next, Node

(* A new process gets an identifier that was not used. *)
LEMMA FreshFacts ==
  ASSUME Unused # {}
  PROVE  Fresh \in Pids /\ proc[Fresh] = "unused"
<1>1. Unused \subseteq Pids /\ Pids \subseteq Nat /\ MaxPid \in Nat
  BY ProcAssumption DEF Unused, Pids
<1>2. \E n \in Unused : \A m \in Unused : n <= m
  BY <1>1, LeastNat
<1>3. Fresh \in Unused
  BY <1>2 DEF Fresh, Min
<1> QED BY <1>3 DEF Unused

LEMMA ProcFacts == NoPid \notin Pids
BY ProcAssumption

(* A stop that is under way stays where it is. *)
SameStop ==
  /\ UNCHANGED <<foreign, listed, victims>>
  /\ cmd' = cmd \/ (cmd \notin Stopping /\ cmd' \in {"no", "wait", "respawn"})

(* What has ended stays so, and a process that was there does not change
   sides: a stop that is under way keeps what it knows. *)
LEMMA StopKept ==
  ASSUME ProcInv, SameStop,
         \A p \in Pids : proc[p] # "unused" =>
           /\ proc'[p] # "unused"
           /\ proc'[p] \in Alive => proc[p] \in Alive /\ (p \in cgroup' <=> p \in cgroup)
  PROVE  StopInv'
<1>1. victims \subseteq Pids /\ foreign \in {"none", "unit", "hand"}
      /\ \A p \in victims : proc[p] # "unused"
  BY DEF ProcInv, ProcTypeOK, StopInv
<1>2. \A p \in victims : proc'[p] \in Alive => (p \in Barred' <=> p \in Barred)
  BY <1>1 DEF SameStop, Barred, Of
<1> QED BY <1>1, <1>2 DEF ProcInv, StopInv, StopStops, SameStop, Stopping

(* Processes end: nobody loses a forwarder but with the engine it is for, or it
   is noted. *)
LEMMA EndsKeep ==
  ASSUME ProcInv, NEW ps \in SUBSET Pids, Ends(ps),
         \A p \in ps : proc[p] \in Alive,
         UNCHANGED <<inode, inodes, lock, pidFiles, exec>>,
         fwdLost' \in BOOLEAN, fwdLost => fwdLost',
         \/ fwdLost'
         \/ \A p \in ps : proc[p] \notin Forwarders
         \/ \A p \in Pids \ Group(ps) : proc[p] \notin Engines
         \/ \E f \in Pids \ Group(ps) : proc[f] \in Forwarders
  PROVE  /\ UnitInv' /\ PortInv'
         /\ \A p \in Pids :
              /\ proc'[p] = IF p \in Group(ps) THEN "gone" ELSE proc[p]
              /\ p \notin Group(ps) => (p \in cgroup' <=> p \in cgroup)
         /\ proc' \in [Pids -> {"unused", "gone"} \cup Alive]
         /\ bound' \in [Pids -> {"none", "public", "inner"}]
         /\ main' \in Pids \cup {NoPid} /\ unit' \in {"absent", "off", "on", "wait"}
         /\ cgroup' \subseteq Pids
<1> USE ProcFacts DEF ProcInv, ProcTypeOK
<1>1. \A p \in Pids : /\ proc'[p] = IF p \in Group(ps) THEN "gone" ELSE proc[p]
                      /\ bound'[p] = IF p \in Group(ps) THEN "none" ELSE bound[p]
  BY DEF Ends
<1>2. /\ unit' = IF main \in ps THEN "wait" ELSE unit
      /\ main' = IF main \in ps THEN NoPid ELSE main
      /\ cgroup' = cgroup \ Group(ps)
  BY DEF Ends
<1>3. /\ proc' \in [Pids -> {"unused", "gone"} \cup Alive]
      /\ bound' \in [Pids -> {"none", "public", "inner"}]
  BY DEF Ends
<1>4. ps \subseteq Group(ps) /\ Group(ps) \subseteq Pids /\ (main \in Group(ps) <=> main \in ps)
  BY DEF Group, UnitInv
<1>5. main \in ps => cgroup \subseteq Group(ps)
  BY DEF Group
<1>6. main \notin ps => Group(ps) = ps
  BY DEF Group
<1>7. UnitInv'
  BY <1>1, <1>2, <1>4, <1>5 DEF UnitInv, pidFiles, Engines, Forwarders, Alive
<1>8. ASSUME NEW p \in Pids, proc'[p] \in {"bind", "up"}, bound'[p] = "inner", ~fwdLost'
      PROVE  \E f \in Pids : proc'[f] \in Forwarders
  <2>1. p \notin Group(ps) /\ proc[p] \in {"bind", "up"} /\ bound[p] = "inner"
    BY <1>1, <1>8
  <2>2. proc[p] \in Engines
    BY <2>1 DEF Engines
  <2>3. CASE \E f \in Pids \ Group(ps) : proc[f] \in Forwarders
    BY <1>1, <2>3
  <2>4. CASE \A q \in ps : proc[q] \notin Forwarders
    <3>1. PICK f \in Pids : proc[f] \in Forwarders
      BY <1>8, <2>1 DEF PortInv
    <3>2. CASE f \notin Group(ps)
      BY <1>1, <3>1, <3>2
    <3>3. CASE f \in Group(ps)
      <4>1. main \in ps /\ f \in cgroup /\ f # main
        BY <2>4, <3>1, <3>3 DEF Group
      <4>2. proc[main] \in {"bind", "up"} /\ main \in Pids
        BY <4>1 DEF UnitInv
      <4>3. p = main
        BY <2>1, <4>2 DEF PortInv, Admins
      <4> QED BY <1>4, <2>1, <4>1, <4>3
    <3> QED BY <3>2, <3>3
  <2> QED BY <1>8, <2>1, <2>2, <2>3, <2>4
<1>9. PortInv'
  <2>1. \A p, q \in Pids : proc'[p] \in Admins /\ proc'[q] \in Admins => p = q
    BY <1>1 DEF PortInv, Admins
  <2>2. \A p \in Pids :
       /\ proc'[p] \in {"unused", "open", "locked", "started", "admin", "spawn", "import"}
            \cup Forwarders => bound'[p] = "none"
       /\ proc'[p] = "up" => bound'[p] # "none"
       /\ proc'[p] = "data" => bound'[p] = "public"
    BY <1>1 DEF PortInv, Forwarders
  <2> QED BY <1>8, <2>1, <2>2 DEF PortInv
<1> QED BY <1>1, <1>2, <1>3, <1>4, <1>7, <1>9

(* Processes end beside a stop, or without one. *)
LEMMA EndsStep ==
  ASSUME ProcInv, NEW ps \in SUBSET Pids, Ends(ps),
         \A p \in ps : proc[p] \in Alive,
         UNCHANGED <<lockVars, pidFiles, exec>>, SameStop,
         fwdLost' \in BOOLEAN, fwdLost => fwdLost',
         \/ fwdLost'
         \/ \A p \in ps : proc[p] \notin Forwarders
         \/ \E f \in Pids \ Group(ps) : proc[f] \in Forwarders
  PROVE  ProcInv'
<1>1. /\ UnitInv' /\ PortInv'
      /\ \A p \in Pids : /\ proc'[p] = IF p \in Group(ps) THEN "gone" ELSE proc[p]
                         /\ p \notin Group(ps) => (p \in cgroup' <=> p \in cgroup)
      /\ proc' \in [Pids -> {"unused", "gone"} \cup Alive]
      /\ bound' \in [Pids -> {"none", "public", "inner"}]
      /\ main' \in Pids \cup {NoPid} /\ unit' \in {"absent", "off", "on", "wait"}
      /\ cgroup' \subseteq Pids
  BY EndsKeep DEF lockVars
<1>2. StopInv'
  BY <1>1, StopKept DEF Alive, Engines, Forwarders
<1>3. ProcTypeOK'
  BY <1>1 DEF ProcInv, ProcTypeOK, lockVars, pidFiles, SameStop
<1> QED BY <1>1, <1>2, <1>3 DEF ProcInv

(* A process goes on, and its port and the lock file with it. *)
LEMMA GoesOn ==
  ASSUME ProcInv, NEW p \in Pids, NEW stage \in Alive, Step(p, stage),
         proc[p] \in Alive \cup {"unused"},
         UNCHANGED <<fwdFile, exec>>, SameStop,
         inode' \in [Pids -> Nat], inodes' \in Nat,
         lock' \in [ino : Nat, pid : Pids \cup {NoPid}],
         lock'.pid \in {lock.pid, p, NoPid}, pidFile' \in {pidFile, p},
         bound' \in [Pids -> {"none", "public", "inner"}],
         \A q \in Pids \ {p} : bound'[q] = bound[q],
         stage \in {"unused", "open", "locked", "started", "admin", "spawn", "import"}
           \cup Forwarders => bound'[p] = "none",
         stage = "up" => bound'[p] # "none",
         stage = "data" => bound'[p] = "public",
         stage \in Admins => \A q \in Pids \ {p} : proc[q] \notin Admins,
         stage \in {"bind", "up"} /\ bound'[p] = "inner" =>
           proc[p] \in {"bind", "up"} /\ bound[p] = "inner",
         proc[p] \in Forwarders <=> stage \in Forwarders,
         proc[p] \in {"bind", "up"} => stage \in {"bind", "up", "dying"},
         stage = "dying" => p \notin cgroup,
         pidFile' = p => p \notin cgroup,
         lock'.pid = p \/ pidFile' = p => stage \in Engines,
         fwdLost' \in BOOLEAN, fwdLost => fwdLost'
  PROVE  ProcInv'
<1> USE ProcFacts DEF ProcInv, ProcTypeOK
<1>1. /\ proc' \in [Pids -> {"unused", "gone"} \cup Alive]
      /\ \A q \in Pids : proc'[q] = IF q = p THEN stage ELSE proc[q]
      /\ UNCHANGED <<unit, main, cgroup>>
  BY DEF Step, unitVars
<1>2. ProcTypeOK'
  BY <1>1 DEF SameStop
<1>3. stage \notin {"unused", "gone"} /\ (stage \in Engines <=> stage \notin Forwarders)
  BY DEF Alive, Engines, Forwarders
<1>4. proc[p] = "unused" => p \notin cgroup /\ p # main
  BY DEF UnitInv, Engines, Forwarders
<1>5. UnitInv'
  <2>1. main # NoPid => proc'[main] \in Engines
    BY <1>1, <1>3, <1>4 DEF UnitInv, Alive, Engines, Forwarders
  <2>2. \A f \in cgroup \ {main} : proc'[f] \in Forwarders
    BY <1>1, <1>4 DEF UnitInv
  <2>3. proc[main] \in {"bind", "up"} /\ main # NoPid => proc'[main] \in {"bind", "up"}
    BY <1>1 DEF UnitInv
  <2>4. pidFile' # NoPid => pidFile' \notin cgroup /\ proc'[pidFile'] \notin {"unused"} \cup Forwarders
    BY <1>1, <1>3 DEF UnitInv
  <2>5. lock'.pid # NoPid => proc'[lock'.pid] \notin {"unused"} \cup Forwarders
    BY <1>1, <1>3 DEF UnitInv
  <2> QED BY <1>1, <2>1, <2>2, <2>3, <2>4, <2>5 DEF UnitInv
<1>6. PortInv'
  <2>1. \A q, r \in Pids : proc'[q] \in Admins /\ proc'[r] \in Admins => q = r
    BY <1>1 DEF PortInv
  <2>2. \A q \in Pids :
       /\ proc'[q] \in {"unused", "open", "locked", "started", "admin", "spawn", "import"}
            \cup Forwarders => bound'[q] = "none"
       /\ proc'[q] = "up" => bound'[q] # "none"
       /\ proc'[q] = "data" => bound'[q] = "public"
    BY <1>1 DEF PortInv
  <2>3. \A f \in Pids : proc[f] \in Forwarders => proc'[f] \in Forwarders
    BY <1>1
  <2>4. \A q \in Pids : proc'[q] \in {"bind", "up"} /\ bound'[q] = "inner" =>
          proc[q] \in {"bind", "up"} /\ bound[q] = "inner"
    BY <1>1
  <2> QED BY <2>1, <2>2, <2>3, <2>4 DEF PortInv
<1>7. StopInv'
  BY <1>1, <1>3, StopKept
<1> QED BY <1>2, <1>5, <1>6, <1>7
LEMMA SameStopFacts == UNCHANGED stopVars => SameStop
BY DEF stopVars, SameStop

(* The steps of a process. *)
LEMMA ServeLockStep ==
  ASSUME ProcInv, NEW p \in Pids, ServeLock(p) PROVE ProcInv'
<1> USE DEF ProcInv, ProcTypeOK
<1>1. /\ proc[p] = "open" /\ UNCHANGED <<inode, inodes, pidFile, fwdFile, exec, fwdLost>>
      /\ SameStop
  BY SameStopFacts DEF ServeLock, pidFiles
<1>2. CASE Ends({p}) /\ lock' = lock
  BY <1>1, <1>2, EndsStep DEF lockVars, pidFiles, Alive, Engines, Forwarders
<1>3. CASE /\ Step(p, "locked") /\ bound' = bound
           /\ lock' = IF lock.ino = inode[p] THEN [lock EXCEPT !.pid = p] ELSE lock
  <2>1. lock' \in [ino : Nat, pid : Pids \cup {NoPid}] /\ lock'.pid \in {lock.pid, p}
    BY <1>3
  <2>2. bound[p] = "none"
    BY <1>1 DEF PortInv
  <2> QED BY <1>1, <1>3, <2>1, <2>2, GoesOn
          DEF UnitInv, Admins, Alive, Engines, Forwarders
<1> QED BY <1>2, <1>3 DEF ServeLock

(* A process goes on, holding what it has. *)
LEMMA StageStep ==
  ASSUME ProcInv, NEW p \in Pids, NEW stage \in {"started", "admin", "bind"},
         Step(p, stage), proc[p] \in {"locked", "started", "spawn"},
         UNCHANGED <<bound, lockVars, pidFiles, exec, fwdLost>>, SameStop,
         stage = "bind" => proc[p] = "spawn",
         stage \in Admins => \A q \in Pids \ {p} : proc[q] \notin Admins
  PROVE  ProcInv'
<1> USE DEF ProcInv, ProcTypeOK
<1>1. bound[p] = "none"
  BY DEF PortInv
<1> QED BY <1>1, GoesOn DEF UnitInv, lockVars, pidFiles, Alive, Engines, Forwarders

LEMMA AdminStep ==
  ASSUME ProcInv, NEW p \in Pids, ServeStart(p) \/ ServeAdmin(p) \/ ServeSpawnFails(p)
  PROVE  ProcInv'
<1>1. UNCHANGED <<lockVars, pidFiles, exec, fwdLost>> /\ SameStop
  BY SameStopFacts DEF ServeStart, ServeAdmin, ServeSpawnFails
<1>2. CASE ServeStart(p)
  BY <1>1, <1>2, StageStep DEF ServeStart, Admins
<1>3. CASE ServeAdmin(p)
  <2>1. proc[p] = "started"
    BY <1>3 DEF ServeAdmin
  <2>2. CASE Ends({p})
    BY <1>1, <2>1, <2>2, EndsStep DEF ProcInv, ProcTypeOK, Alive, Engines, Forwarders
  <2>3. CASE Step(p, "admin") /\ ~AdminTaken(p) /\ bound' = bound
    BY <1>1, <2>1, <2>3, StageStep DEF AdminTaken, Admins
  <2> QED BY <1>3, <2>2, <2>3 DEF ServeAdmin
<1>4. CASE ServeSpawnFails(p)
  BY <1>1, <1>4, StageStep DEF ServeSpawnFails, ProcInv, PortInv, Admins
<1> QED BY <1>2, <1>3, <1>4

(* The forwarder of an earlier serve: no engine that is up is behind it, for
   that one has the admin port. *)
LEMMA ServeProbeStep ==
  ASSUME ProcInv, NEW p \in Pids, ServeProbe(p) PROVE ProcInv'
<1> USE ProcFacts DEF ProcInv, ProcTypeOK
<1> DEFINE left == {q \in Pids \ {p} : HasPeers /\ PublicTaken(p) /\ q = fwdFile
                                         /\ proc[q] \in Forwarders}
<1>1. /\ proc[p] = "admin" /\ cgroup' = cgroup \ left
      /\ UNCHANGED <<bound, inode, lock, inodes, pidFile, fwdFile, exec, unit, main, fwdLost>>
      /\ UNCHANGED <<cmd, foreign, listed, victims>>
  BY DEF ServeProbe, lockVars, pidFiles, stopVars
<1>2. PICK stage \in {"spawn", "bind"} :
        proc' = [q \in Pids |-> IF q = p THEN stage ELSE IF q \in left THEN "gone" ELSE proc[q]]
  <2>1. CASE HasPeers
    BY <2>1, Zenon DEF ServeProbe
  <2>2. CASE ~HasPeers
    BY <2>2, Zenon DEF ServeProbe
  <2> QED BY <2>1, <2>2
<1>3. /\ left \subseteq Pids /\ p \notin left
      /\ \A q \in left : proc[q] \in Forwarders
  OBVIOUS
<1> HIDE DEF left
<1>4. \A q \in Pids : proc'[q] = IF q = p THEN stage ELSE IF q \in left THEN "gone" ELSE proc[q]
  BY <1>2
<1>5. ProcTypeOK'
  BY <1>1, <1>2 DEF Alive, Engines
<1>6. UnitInv'
  BY <1>1, <1>3, <1>4 DEF UnitInv, Engines, Forwarders
<1>7. PortInv'
  <2>1. \A q \in Pids \ {p} : proc[q] \notin Admins
    BY <1>1 DEF PortInv, Admins
  <2>2. \A q \in Pids : proc'[q] \in {"bind", "up"} => q = p /\ bound'[q] = "none"
    BY <1>1, <1>4, <2>1 DEF PortInv, Admins
  <2> QED BY <1>1, <1>4, <2>1, <2>2 DEF PortInv, Admins, Forwarders
<1>8. StopInv'
  <2>1. SameStop
    BY <1>1 DEF SameStop
  <2> QED BY <1>1, <1>3, <1>4, <2>1, StopKept DEF Alive, Engines, Forwarders
<1> QED BY <1>5, <1>6, <1>7, <1>8

(* An engine gets the inner port with its forwarder. *)
LEMMA ServeSpawnStep ==
  ASSUME ProcInv, NEW p \in Pids, ServeSpawn(p) PROVE ProcInv'
<1> USE ProcFacts DEF ProcInv, ProcTypeOK
<1>1. /\ proc[p] = "spawn" /\ Fresh \in Pids /\ proc[Fresh] = "unused" /\ p # Fresh
      /\ UNCHANGED <<inode, lock, inodes, pidFile, exec, fwdLost>>
      /\ UNCHANGED <<cmd, foreign, listed, victims>>
  BY FreshFacts DEF ServeSpawn, lockVars, stopVars
<1>2. SameStop
  BY <1>1 DEF SameStop
<1>3. CASE Step(p, "bind") /\ UNCHANGED <<bound, fwdFile>>
  BY <1>1, <1>2, <1>3, StageStep DEF PortInv, Admins, lockVars, pidFiles
<1>4. CASE /\ proc' = [proc EXCEPT ![p] = "bind", ![Fresh] = "fwdnew"]
           /\ bound' = [bound EXCEPT ![p] = "inner"]
           /\ fwdFile' = Fresh
           /\ cgroup' = IF p \in cgroup THEN cgroup \cup {Fresh} ELSE cgroup
           /\ UNCHANGED <<unit, main>>
  <2>1. PICK f \in Pids : f = Fresh
    BY <1>1
  <2>2. /\ \A q \in Pids : /\ proc'[q] = IF q = f THEN "fwdnew" ELSE IF q = p THEN "bind" ELSE proc[q]
                           /\ bound'[q] = IF q = p THEN "inner" ELSE bound[q]
        /\ proc[f] = "unused" /\ f # p /\ fwdFile' = f
        /\ cgroup' = IF p \in cgroup THEN cgroup \cup {f} ELSE cgroup
    BY <1>1, <1>4, <2>1
  <2>3. ProcTypeOK'
    BY <1>1, <1>4, <2>2 DEF Alive, Engines, Forwarders
  <2>4. f \notin cgroup /\ main # f /\ pidFile # f /\ lock.pid # f
    BY <2>2 DEF UnitInv, Engines, Forwarders
  <2>5. UnitInv'
    <3>1. p \in cgroup => main = p
      BY <1>1 DEF UnitInv, Forwarders
    <3>2. main \notin {NoPid, p} => cgroup' = cgroup
      BY <2>2, <3>1
    <3> QED BY <1>1, <1>4, <2>2, <2>4, <3>1, <3>2 DEF UnitInv, Engines, Forwarders
  <2>6. PortInv'
    BY <1>1, <2>2 DEF PortInv, Admins, Forwarders
  <2>7. StopInv'
    BY <1>1, <1>2, <2>2, StopKept DEF Alive, Engines
  <2> QED BY <2>3, <2>5, <2>6, <2>7
<1> QED BY <1>3, <1>4 DEF ServeSpawn

(* A port is taken, or the process ends. *)
LEMMA BindStep ==
  ASSUME ProcInv, NEW p \in Pids,
         ServeBind(p) \/ ForwarderBind(p) \/ ServerBind(p) \/ ServerAdmin(p)
  PROVE  ProcInv'
<1> USE DEF ProcInv, ProcTypeOK
<1>1. UNCHANGED <<inode, lock, inodes, pidFile, fwdFile, exec>> /\ SameStop
  BY SameStopFacts DEF ServeBind, ForwarderBind, ServerBind, ServerAdmin, lockVars, pidFiles
<1>2. CASE Ends({p}) /\ ~ForwarderBind(p)
  <2>1. proc[p] \in {"bind", "import", "data"} /\ UNCHANGED fwdLost
    BY <1>2 DEF ServeBind, ServerBind, ServerAdmin
  <2> QED BY <1>1, <1>2, <2>1, EndsStep DEF lockVars, pidFiles, Alive, Engines, Forwarders
<1>3. CASE ServeBind(p) /\ ~Ends({p})
  <2>1. PICK port \in {"inner", "public"} :
          /\ port = "inner" => bound[p] = "inner"
          /\ proc[p] = "bind" /\ Step(p, "up") /\ bound' = [bound EXCEPT ![p] = port]
          /\ UNCHANGED fwdLost
    BY <1>3, Zenon DEF ServeBind
  <2> QED BY <1>1, <2>1, GoesOn DEF PortInv, UnitInv, Admins, Alive, Engines, Forwarders
<1>4. CASE ForwarderBind(p)
  <2>1. proc[p] = "fwdnew" /\ p # main
    BY <1>4, ProcFacts DEF ForwarderBind, UnitInv, Engines
  <2>4. fwdLost' = (fwdLost \/ EngineOn("public", p))
    BY <1>4 DEF ForwarderBind
  <2>5. fwdLost' \in BOOLEAN /\ (fwdLost => fwdLost') /\ (EngineOn("public", p) => fwdLost')
    BY <2>4, Zenon DEF EngineOn
  <2>2. CASE Ends({p}) /\ PublicTaken(p)
    <3>1. Group({p}) = {p}
      BY <2>1 DEF Group
    <3>2. fwdLost' \/ \E f \in Pids \ Group({p}) : proc[f] \in Forwarders
      BY <2>2, <2>5, <3>1 DEF PublicTaken, Forwarders
    <3> QED BY <1>1, <2>1, <2>2, <2>5, <3>2, EndsStep
            DEF lockVars, pidFiles, Alive, Forwarders
  <2>3. CASE Step(p, "fwd") /\ bound' = bound
    <3>1. lock.pid # p /\ pidFile # p /\ bound[p] = "none"
      BY <2>1, ProcFacts DEF PortInv, UnitInv, Forwarders
    <3> QED BY <1>1, <2>1, <2>3, <2>5, <3>1, GoesOn DEF Admins, Alive, Engines, Forwarders
  <2> QED BY <1>4, <2>2, <2>3 DEF ForwarderBind
<1>5. CASE ServerBind(p) /\ ~Ends({p})
  <2>1. /\ proc[p] = "import" /\ Step(p, "data") /\ bound' = [bound EXCEPT ![p] = "public"]
        /\ UNCHANGED fwdLost
    BY <1>5 DEF ServerBind
  <2> QED BY <1>1, <2>1, GoesOn DEF UnitInv, Admins, Alive, Engines, Forwarders
<1>6. CASE ServerAdmin(p) /\ ~Ends({p})
  <2>1. /\ proc[p] = "data" /\ Step(p, "up") /\ bound' = bound /\ UNCHANGED fwdLost
        /\ ~AdminTaken(p)
    BY <1>6 DEF ServerAdmin
  <2>2. bound[p] = "public" /\ \A q \in Pids \ {p} : proc[q] \notin Admins
    BY <2>1 DEF PortInv, AdminTaken, Admins
  <2> QED BY <1>1, <2>1, <2>2, GoesOn DEF UnitInv, Alive, Engines, Forwarders
<1> QED BY <1>2, <1>3, <1>4, <1>5, <1>6

LEMMA OwnSteps ==
  ASSUME ProcInv, NEW p \in Pids, OwnStep(p) PROVE ProcInv'
<1>1. CASE Dies(p) \/ ServerFails(p) \/ Crash(p)
  <2>1. /\ proc[p] \in Alive /\ Ends({p}) /\ UNCHANGED <<lockVars, pidFiles, exec>> /\ SameStop
    BY <1>1, SameStopFacts DEF Dies, ServerFails, Crash, Alive, Engines
  <2>2. fwdLost' \in BOOLEAN /\ (fwdLost => fwdLost')
        /\ (proc[p] \in Forwarders => fwdLost')
    <3>1. CASE Dies(p) \/ ServerFails(p)
      BY <3>1 DEF Dies, ServerFails, Forwarders, ProcInv, ProcTypeOK
    <3>2. CASE Crash(p)
      <4>1. fwdLost' = (fwdLost \/ proc[p] \in Forwarders)
        BY <3>2 DEF Crash
      <4> QED BY <4>1, Zenon
    <3> QED BY <1>1, <3>1, <3>2
  <2> QED BY <2>1, <2>2, EndsStep
<1> QED BY <1>1, ServeLockStep, AdminStep, ServeProbeStep, ServeSpawnStep, BindStep
        DEF OwnStep

(* An engine outside of the unit has its forwarder outside of it. *)
LEMMA OthersForwarded ==
  ASSUME ProcInv, NEW p \in Pids \ cgroup, proc[p] \in {"bind", "up"},
         bound[p] = "inner", ~fwdLost
  PROVE  \E f \in Pids \ cgroup : proc[f] \in Forwarders
<1> USE DEF ProcInv, ProcTypeOK
<1>1. PICK f \in Pids : proc[f] \in Forwarders
  BY DEF PortInv
<1>2. CASE f \in cgroup
  <2>1. main # NoPid /\ main \in cgroup /\ proc[main] \in {"bind", "up"}
    BY <1>1, <1>2 DEF UnitInv, Engines, Forwarders
  <2>2. p = main
    BY <2>1 DEF PortInv, Admins
  <2> QED BY <2>1, <2>2
<1> QED BY <1>1, <1>2

(* The lock file is opened. *)
LEMMA OpensFacts ==
  ASSUME ProcInv, NEW p \in Pids, Opens(p)
  PROVE  /\ inode' \in [Pids -> Nat] /\ inodes' \in Nat
         /\ lock' \in [ino : Nat, pid : Pids \cup {NoPid}] /\ lock'.pid = NoPid
BY DEF ProcInv, ProcTypeOK, Opens

(* systemd starts the unit, and ends first what is left of it. *)
LEMMA UnitRunsStep ==
  ASSUME ProcInv, UnitRuns PROVE ProcInv'
<1> USE ProcFacts DEF ProcInv, ProcTypeOK
<1>1. PICK f \in Pids : f = Fresh /\ proc[f] = "unused"
  BY FreshFacts DEF UnitRuns
<1>2. PICK stage \in {"open", "import"} :
        proc' = [q \in Pids |-> IF q = f THEN stage ELSE IF q \in cgroup THEN "gone" ELSE proc[q]]
  <2>1. PICK stage \in {"open", "import"} : stage = IF exec = "serve" THEN "open" ELSE "import"
    OBVIOUS
  <2>2. proc' = [q \in Pids |-> IF q = f THEN stage ELSE IF q \in cgroup THEN "gone" ELSE proc[q]]
    <3>1. f \notin cgroup
      BY <1>1 DEF UnitInv, Engines, Forwarders
    <3> QED BY <1>1, <2>1, <3>1 DEF UnitRuns
  <2> QED BY <2>2
<1>3. /\ bound' = [q \in Pids |-> IF q \in cgroup THEN "none" ELSE bound[q]]
      /\ unit' = "on" /\ main' = f /\ cgroup' = {f}
      /\ UNCHANGED <<pidFile, fwdFile, exec, fwdLost, cmd, foreign, listed, victims>>
  BY <1>1 DEF UnitRuns, pidFiles, stopVars
<1>4. /\ inode' \in [Pids -> Nat] /\ inodes' \in Nat
      /\ lock' \in [ino : Nat, pid : Pids \cup {NoPid}] /\ lock'.pid \in {lock.pid, NoPid}
  BY <1>1, OpensFacts DEF UnitRuns, lockVars
<1>5. \A q \in Pids :
        /\ proc'[q] = IF q = f THEN stage ELSE IF q \in cgroup THEN "gone" ELSE proc[q]
        /\ bound'[q] = IF q \in cgroup THEN "none" ELSE bound[q]
  BY <1>2, <1>3
<1>6. f \notin cgroup /\ pidFile # f /\ lock.pid # f /\ bound[f] = "none"
  BY <1>1 DEF UnitInv, PortInv, Engines, Forwarders
<1>7. ProcTypeOK'
  BY <1>2, <1>3, <1>4 DEF Alive, Engines
<1>8. UnitInv'
  BY <1>3, <1>4, <1>5, <1>6 DEF UnitInv, Engines, Forwarders
<1>9. PortInv'
  <2>1. \A p \in Pids : proc'[p] \in {"bind", "up"} /\ bound'[p] = "inner" /\ ~fwdLost =>
          \E g \in Pids : proc'[g] \in Forwarders
    <3> SUFFICES ASSUME NEW p \in Pids, proc'[p] \in {"bind", "up"}, bound'[p] = "inner", ~fwdLost
                 PROVE  \E g \in Pids : proc'[g] \in Forwarders
      OBVIOUS
    <3>1. p \notin cgroup /\ proc[p] \in {"bind", "up"} /\ bound[p] = "inner"
      BY <1>5
    <3>2. PICK g \in Pids \ cgroup : proc[g] \in Forwarders
      BY <3>1, OthersForwarded
    <3> QED BY <1>1, <1>5, <3>2 DEF Forwarders
  <2> QED BY <1>3, <1>5, <1>6, <2>1 DEF PortInv, Admins, Forwarders
<1>10. StopInv'
  <2>1. SameStop
    BY <1>3 DEF SameStop
  <2> QED BY <1>1, <1>3, <1>5, <1>6, <2>1, StopKept DEF Alive, Engines, Forwarders
<1> QED BY <1>7, <1>8, <1>9, <1>10

(* serve and join, and the restart of a daemon. *)
LEMMA OpenStep ==
  ASSUME ProcInv, Unused # {}, Step(Fresh, "open"), Opens(Fresh),
         pidFile' \in {pidFile, Fresh}, UNCHANGED <<bound, fwdFile, exec, fwdLost>>, SameStop
  PROVE  ProcInv'
<1> USE DEF ProcInv, ProcTypeOK
<1>1. PICK f \in Pids : f = Fresh /\ proc[f] = "unused"
  BY FreshFacts
<1>2. Step(f, "open") /\ Opens(f) /\ pidFile' \in {pidFile, f}
  BY <1>1
<1>3. bound[f] = "none" /\ f \notin cgroup
  BY <1>1 DEF PortInv, UnitInv, Engines, Forwarders
<1> HIDE DEF ProcInv, ProcTypeOK
<1>4. /\ inode' \in [Pids -> Nat] /\ inodes' \in Nat
      /\ lock' \in [ino : Nat, pid : Pids \cup {NoPid}] /\ lock'.pid = NoPid
  BY <1>2, OpensFacts
<1>5. /\ bound' \in [Pids -> {"none", "public", "inner"}] /\ fwdLost' \in BOOLEAN
      /\ f # NoPid
  BY ProcFacts DEF ProcInv, ProcTypeOK
<1> QED BY <1>1, <1>2, <1>3, <1>4, <1>5, GoesOn DEF Admins, Alive, Engines, Forwarders

LEMMA RestartStep ==
  ASSUME ProcInv, RestartDaemonKill \/ RestartDaemonSpawn \/ RestartEnds
  PROVE  ProcInv'
<1> USE DEF ProcInv, ProcTypeOK
<1>1. SameStop
  BY DEF RestartDaemonKill, RestartDaemonSpawn, RestartEnds, SameStop, Stopping
<1>2. CASE UNCHANGED <<proc, bound, lockVars, pidFiles, exec, unitVars, fwdLost>>
  <2>1. UNCHANGED <<proc, bound, inode, lock, inodes, pidFile, fwdFile, exec, unit, main,
                    cgroup, fwdLost>>
    BY <1>2 DEF lockVars, pidFiles, unitVars
  <2>2. StopInv'
    BY <1>1, <2>1, StopKept
  <2>3. UnitInv' /\ PortInv'
    BY <2>1 DEF UnitInv, PortInv
  <2> QED BY <1>1, <2>1, <2>2, <2>3 DEF SameStop
<1>3. CASE RestartDaemonKill
  <2>1. /\ pidFile \in Pids /\ UNCHANGED <<inode, lock, inodes, pidFile, fwdFile, exec, fwdLost>>
        /\ pidFile \notin cgroup
    BY <1>3 DEF RestartDaemonKill, lockVars, pidFiles, UnitInv
  <2>2. CASE proc[pidFile] = "up" /\ Step(pidFile, "dying") /\ bound' = bound
    BY <1>1, <2>1, <2>2, GoesOn DEF PortInv, UnitInv, Admins, Alive, Engines, Forwarders
  <2>3. CASE proc[pidFile] \in Engines /\ Ends({pidFile})
    BY <1>1, <2>1, <2>3, EndsStep DEF lockVars, pidFiles, Alive, Engines, Forwarders
  <2>4. CASE UNCHANGED <<proc, bound, unitVars>>
    BY <1>2, <1>3, <2>4 DEF RestartDaemonKill
  <2> QED BY <1>3, <2>2, <2>3, <2>4 DEF RestartDaemonKill
<1>4. CASE RestartDaemonSpawn /\ ~upgrade.own
  BY <1>1, <1>4, OpenStep DEF RestartDaemonSpawn
<1>5. CASE RestartDaemonSpawn /\ upgrade.own
  BY <1>2, <1>5 DEF RestartDaemonSpawn, pidFiles
<1>6. CASE RestartEnds
  BY <1>2, <1>6 DEF RestartEnds
<1> QED BY <1>3, <1>4, <1>5, <1>6

(* The steps of a stop. *)
LEMMA StopBegins ==
  ASSUME ProcInv, stop PROVE ProcInv'
<1> USE DEF ProcInv, ProcTypeOK
<1>1. /\ cmd' = "kill"
      /\ UNCHANGED <<proc, bound, inode, lock, inodes, pidFile, fwdFile, exec, unit, main,
                     cgroup, listed, fwdLost>>
  BY DEF stop, lockVars, pidFiles, unitVars
<1>2. PICK f \in {"none", "unit", "hand"} :
        foreign' = f /\ victims' = {p \in Pids : proc[p] \in Alive} \ Of(f)
  BY DEF stop
<1>3. ProcTypeOK'
  BY <1>1, <1>2 DEF Stopping
<1>4. UnitInv' /\ PortInv'
  BY <1>1 DEF UnitInv, PortInv
<1>5. Barred' = Of(f)
  BY <1>1, <1>2 DEF Barred, Of
<1>6. StopInv'
  BY <1>1, <1>2, <1>5 DEF StopInv, StopStops, Alive, Engines, Forwarders, Stopping
<1> QED BY <1>3, <1>4, <1>6

(* Nothing but the stop itself, or the lock file. *)
LEMMA StopNotes ==
  ASSUME ProcInv, StopRemove \/ StopUnitFails \/ StopList
                  \/ (StopUnit /\ UNCHANGED <<proc, bound, unitVars>>)
  PROVE  ProcInv'
<1> USE DEF ProcInv, ProcTypeOK
<1>1. /\ UNCHANGED <<proc, bound, inode, inodes, pidFile, fwdFile, exec, unit, main,
                     cgroup, foreign, victims, fwdLost>>
      /\ lock' \in {lock, [ino |-> 0, pid |-> NoPid]}
  BY DEF StopRemove, StopUnitFails, StopList, StopUnit, lockVars, pidFiles, unitVars
<1>2. /\ cmd \in Stopping /\ cmd' \in {"unit", "list", "orphans"}
      /\ listed' \subseteq Pids
      /\ cmd' = "orphans" => listed' = {p \in Pids : proc[p] \in Alive}
  BY DEF StopRemove, StopUnitFails, StopList, StopUnit, Stopping
<1>3. ProcTypeOK'
  BY <1>1, <1>2 DEF Stopping
<1>4. UnitInv' /\ PortInv'
  BY <1>1 DEF UnitInv, PortInv
<1>5. Barred' = Barred
  BY <1>1 DEF Barred, Of
<1>6. StopInv'
  BY <1>1, <1>2, <1>5 DEF StopInv, StopStops, Stopping
<1> QED BY <1>3, <1>4, <1>6

LEMMA StopKillStep ==
  ASSUME ProcInv, StopKill PROVE ProcInv'
<1> USE DEF ProcInv, ProcTypeOK
<1> DEFINE ps == {p \in {lock.pid} \ Barred : p # NoPid /\ proc[p] \in Alive}
<1>1. /\ cmd = "kill" /\ cmd' = "remove" /\ Ends(ps)
      /\ UNCHANGED <<inode, lock, inodes, pidFile, fwdFile, exec, foreign, listed, victims,
                     fwdLost>>
  BY DEF StopKill, lockVars, pidFiles
<1>2. /\ ps \in SUBSET Pids /\ \A p \in ps : proc[p] \in Alive
      /\ \A p \in ps : proc[p] \notin Forwarders
  BY DEF UnitInv
<1> HIDE DEF ps
<1>3. /\ UnitInv' /\ PortInv'
      /\ \A p \in Pids : /\ proc'[p] = IF p \in Group(ps) THEN "gone" ELSE proc[p]
                         /\ p \notin Group(ps) => (p \in cgroup' <=> p \in cgroup)
      /\ proc' \in [Pids -> {"unused", "gone"} \cup Alive]
      /\ bound' \in [Pids -> {"none", "public", "inner"}]
      /\ main' \in Pids \cup {NoPid} /\ unit' \in {"absent", "off", "on", "wait"}
      /\ cgroup' \subseteq Pids
  BY <1>1, <1>2, EndsKeep DEF pidFiles
<1>4. ProcTypeOK'
  BY <1>1, <1>3 DEF Stopping
<1>5. \A p \in victims : proc'[p] \in Alive => proc[p] \in Alive /\ (p \in Barred' <=> p \in Barred)
  BY <1>1, <1>3 DEF Barred, Of, Alive, Engines, Forwarders
<1>6. StopInv'
  BY <1>1, <1>3, <1>5 DEF StopInv, StopStops, Stopping
<1> QED BY <1>3, <1>4, <1>6

(* systemctl stop ends the unit with all it has spawned. *)
LEMMA StopUnitStep ==
  ASSUME ProcInv, StopUnit, unit = "on", foreign # "unit" PROVE ProcInv'
<1> USE ProcFacts DEF ProcInv, ProcTypeOK
<1>1. /\ cmd = "unit" /\ cmd' = "list" /\ unit' = "off" /\ main' = NoPid /\ cgroup' = {}
      /\ proc' = [p \in Pids |-> IF p \in cgroup THEN "gone" ELSE proc[p]]
      /\ bound' = [p \in Pids |-> IF p \in cgroup THEN "none" ELSE bound[p]]
      /\ UNCHANGED <<inode, lock, inodes, pidFile, fwdFile, exec, foreign, listed, victims,
                     fwdLost>>
  BY DEF StopUnit, lockVars, pidFiles
<1>2. \A p \in Pids : /\ proc'[p] = IF p \in cgroup THEN "gone" ELSE proc[p]
                      /\ bound'[p] = IF p \in cgroup THEN "none" ELSE bound[p]
  BY <1>1
<1>3. ProcTypeOK'
  BY <1>1 DEF Stopping
<1>4. UnitInv'
  BY <1>1, <1>2 DEF UnitInv, Forwarders
<1>5. PortInv'
  <2>1. \A p \in Pids : proc'[p] \in {"bind", "up"} /\ bound'[p] = "inner" /\ ~fwdLost =>
          \E g \in Pids : proc'[g] \in Forwarders
    <3> SUFFICES ASSUME NEW p \in Pids, proc'[p] \in {"bind", "up"}, bound'[p] = "inner", ~fwdLost
                 PROVE  \E g \in Pids : proc'[g] \in Forwarders
      OBVIOUS
    <3>1. p \notin cgroup /\ proc[p] \in {"bind", "up"} /\ bound[p] = "inner"
      BY <1>2
    <3>2. PICK g \in Pids \ cgroup : proc[g] \in Forwarders
      BY <3>1, OthersForwarded
    <3> QED BY <1>2, <3>2
  <2> QED BY <1>1, <1>2, <2>1 DEF PortInv, Admins, Forwarders
<1>6. \A p \in victims : proc'[p] \in Alive => proc[p] \in Alive /\ (p \in Barred' <=> p \in Barred)
  BY <1>1, <1>2 DEF Barred, Of, Alive, Engines, Forwarders
<1>7. StopInv'
  BY <1>1, <1>2, <1>6 DEF StopInv, StopStops, Stopping
<1> QED BY <1>3, <1>4, <1>5, <1>7

(* The last step ends all it may end of what was there when it began. *)
LEMMA StopOrphansStep ==
  ASSUME ProcInv, StopOrphans PROVE ProcInv'
<1> USE DEF ProcInv, ProcTypeOK
<1> DEFINE ps == {p \in listed \ Barred : proc[p] \in Alive}
<1>1. /\ cmd = "orphans" /\ cmd' = "no" /\ listed' = {} /\ foreign' = "none" /\ Ends(ps)
      /\ UNCHANGED <<inode, lock, inodes, pidFile, fwdFile, exec, victims>>
      /\ fwdLost' = (fwdLost \/ /\ \E f \in ps : proc[f] \in Forwarders
                                /\ \E p \in Pids \ Group(ps) : proc[p] \in Engines)
  BY DEF StopOrphans, StopEnds, lockVars, pidFiles
<1>2. /\ ps \in SUBSET Pids /\ \A p \in ps : proc[p] \in Alive
      /\ \A p \in victims : proc[p] \in Alive => p \in ps
      /\ ps \subseteq Group(ps)
  BY <1>1 DEF StopInv, Stopping, Group
<1> HIDE DEF ps
<1>3. /\ UnitInv' /\ PortInv'
      /\ \A p \in Pids : proc'[p] = IF p \in Group(ps) THEN "gone" ELSE proc[p]
      /\ proc' \in [Pids -> {"unused", "gone"} \cup Alive]
      /\ bound' \in [Pids -> {"none", "public", "inner"}]
      /\ main' \in Pids \cup {NoPid} /\ unit' \in {"absent", "off", "on", "wait"}
      /\ cgroup' \subseteq Pids
  BY <1>1, <1>2, EndsKeep DEF pidFiles
<1>4. ProcTypeOK'
  BY <1>1, <1>3
<1>5. StopInv'
  BY <1>1, <1>2, <1>3 DEF StopInv, StopStops, Stopping, Alive, Engines, Forwarders
<1> QED BY <1>3, <1>4, <1>5

LEMMA ProcStep == ProcInv /\ [Next]_vars => ProcInv'
<1> SUFFICES ASSUME ProcInv, [Next]_vars PROVE ProcInv'
  OBVIOUS
<1>1. CASE serve \/ join
  <2>1. SameStop
    BY <1>1, SameStopFacts DEF serve, join
  <2> QED BY <1>1, <2>1, OpenStep DEF serve, join, pidFiles
<1>2. CASE start \/ UnitRespawn \/ RestartUnit
  BY <1>2, UnitRunsStep DEF start, UnitRespawn, RestartUnit
<1>3. CASE stop
  BY <1>3, StopBegins
<1>4. CASE \E p \in Pids : OwnStep(p)
  BY <1>4, OwnSteps
<1>5. CASE StopKill \/ StopOrphans
  BY <1>5, StopKillStep, StopOrphansStep
<1>6. CASE StopUnit
  <2>1. CASE unit = "on" /\ foreign # "unit"
    BY <1>6, <2>1, StopUnitStep
  <2>2. CASE ~(unit = "on" /\ foreign # "unit")
    <3>1. UNCHANGED <<proc, bound, unitVars>>
      BY <1>6, <2>2 DEF StopUnit
    <3> QED BY <1>6, <3>1, StopNotes
  <2> QED BY <2>1, <2>2
<1>7. CASE StopRemove \/ StopUnitFails \/ StopList
  BY <1>7, StopNotes
<1>8. CASE RestartDaemonKill \/ RestartDaemonSpawn \/ RestartEnds
  BY <1>8, RestartStep
<1>9. CASE UNCHANGED procVars
  BY <1>9 DEF procVars, lockVars, pidFiles, unitVars, stopVars, ProcInv, ProcTypeOK, UnitInv,
              PortInv, StopInv, StopStops, Barred, Of
<1> QED BY <1>1, <1>2, <1>3, <1>4, <1>5, <1>6, <1>7, <1>8, <1>9, ProcSteps

LEMMA ProcAlways == Spec => []ProcInv
<1>1. Init => ProcInv
  <2> SUFFICES ASSUME Init PROVE ProcInv
    OBVIOUS
  <2> USE ProcFacts, ProcAssumption DEF Init, ProcInit
  <2>1. ProcTypeOK
    BY DEF ProcTypeOK
  <2>2. UnitInv /\ PortInv
    BY DEF UnitInv, PortInv, Admins
  <2>3. StopInv
    BY DEF StopInv, StopStops, Stopping
  <2> QED BY <2>1, <2>2, <2>3 DEF ProcInv
<1> QED BY <1>1, ProcStep, PTL DEF Spec

(* A node whose engine is up can be reached: serve gives its engine the inner
   port only when it has started a forwarder, kills the forwarder of an earlier
   serve only while no other engine can be behind it, and systemd ends with its
   process no forwarder that another engine needs. *)
THEOREM UpAlwaysReachable == Spec => []UpMeansReachable
<1>1. ProcInv => UpMeansReachable
  BY DEF ProcInv, ProcTypeOK, PortInv, UpMeansReachable
<1> QED BY <1>1, ProcAlways, PTL

(* When `pproxy stop` has answered, nothing is left of what ran when it began
   and it was allowed to signal, whatever its processes did meanwhile. *)
THEOREM StopAlwaysStops == Spec => []StopStops
<1>1. ProcInv => StopStops
  BY DEF ProcInv, StopInv
<1> QED BY <1>1, ProcAlways, PTL

-----------------------------------------------------------------------------
(* The types of the parts whose invariants do not say them. *)

(* The file, the table and the import keep their types. *)
LEMMA ImportTypeStep == ImportTypeOK /\ [Next]_vars => ImportTypeOK'
<1> SUFFICES ASSUME ImportTypeOK, [Next]_vars PROVE ImportTypeOK'
  OBVIOUS
<1> USE LegacyAssumption DEF ImportTypeOK
<1>1. CASE ImportNext
  BY <1>1 DEF ImportNext, migrate_config_if_needed, backup_config, import_routes,
              rewrite_config, importStore
<1>2. CASE BackupTorn \/ ImportFails \/ CutImport
  BY <1>2 DEF BackupTorn, ImportFails, CutImport, importStore
<1>3. CASE RouteDeleted \/ RouteCreated
  BY <1>3 DEF RouteDeleted, RouteCreated
<1>4. ASSUME NEW i \in Importers, SyncRoutes(i) PROVE ImportTypeOK'
  BY <1>4 DEF SyncRoutes
<1>5. CASE UNCHANGED importVars
  BY <1>5 DEF importVars, importStore
<1> QED BY <1>1, <1>2, <1>3, <1>4, <1>5, ImportSteps

(* What /api/quota shows, and the alerts and posts that outlive a poll. *)
Healths == [Sources -> {"ok", "disabled", "error", "unsupported_plan"}]
AlertType ==
  /\ health \in Healths
  /\ alerts \in Seq(Alerts) /\ pending \subseteq 1 .. Len(alerts)
  /\ ticks \in 0 .. MaxTicks

(* Health, alerts and the posts under way keep their types: a post is of an
   alert that is in the table. *)
LEMMA AlertTypeStep == MonitorInv /\ AlertType /\ [Next]_vars => AlertType'
<1> SUFFICES ASSUME MonitorInv, AlertType, [Next]_vars PROVE AlertType'
  OBVIOUS
<1>1. MaxTicks \in Nat /\ Src \subseteq Sources /\ Vercel \in Sources
  BY MonitorAssumption DEF Sources
<1>2. ASSUME UNCHANGED <<alerts, pending, ticks>>, health' \in Healths PROVE AlertType'
  BY <1>2 DEF AlertType
<1>3. ASSUME NEW s \in Sources, NEW x \in {"ok", "disabled", "error", "unsupported_plan"},
             health' = [health EXCEPT ![s] = x]
      PROVE  health' \in Healths
  BY <1>3 DEF AlertType, Healths
<1>4. CASE TickBegin
  BY <1>1, <1>4 DEF TickBegin, AlertType
<1>5. CASE Collect \/ Prune \/ InsertAlertFails
  BY <1>2, <1>5 DEF Collect, Prune, InsertAlertFails, AlertType, monitorStore
<1>6. CASE CollectFails \/ PersistFails \/ Persist
  <2>1. tick.src \in Sources
    BY <1>1, <1>6, MonitorFacts DEF CollectFails, PersistFails, Persist
  <2>2. \E x \in {"ok", "error"} : health' = [health EXCEPT ![tick.src] = x]
    BY <1>6 DEF CollectFails, PersistFails, Persist
  <2> QED BY <1>2, <1>3, <1>6, <2>1, <2>2
          DEF CollectFails, PersistFails, Persist, monitorStore
<1>7. CASE CollectVercel \/ PersistVercel
  <2>1. \/ health' = health
        \/ \E x \in {"ok", "error", "unsupported_plan"} : health' = [health EXCEPT ![Vercel] = x]
    BY <1>7 DEF CollectVercel, PersistVercel
  <2>2. UNCHANGED <<alerts, pending, ticks>>
    BY <1>7 DEF CollectVercel, PersistVercel, monitorStore
  <2> QED BY <1>1, <1>2, <1>3, <2>1, <2>2 DEF AlertType
<1>8. CASE InsertAlert
  <2> DEFINE level == IF tick.pct >= Critical THEN "critical" ELSE "warning"
             a == [src |-> tick.src, level |-> level, read |-> FALSE]
  <2>1. a \in Alerts
    BY <1>8, MonitorFacts DEF InsertAlert, Alerts
  <2>2. alerts' = Append(alerts, a) /\ UNCHANGED <<health, ticks>>
        /\ pending' \in {pending, pending \cup {Len(alerts) + 1}}
    BY <1>8 DEF InsertAlert
  <2> HIDE DEF a
  <2>3. alerts' \in Seq(Alerts) /\ Len(alerts') = Len(alerts) + 1 /\ Len(alerts) \in Nat
    BY <2>1, <2>2 DEF AlertType
  <2> QED BY <2>2, <2>3 DEF AlertType
<1>9. CASE Post
  BY <1>9 DEF Post, AlertType, monitorStore
<1>10. ASSUME NEW id \in 1 .. Len(alerts), mark_alert_read(id) PROVE AlertType'
  <2>1. alerts' = [alerts EXCEPT ![id].read = TRUE] /\ UNCHANGED <<health, pending, ticks>>
    BY <1>10 DEF mark_alert_read, monitorState
  <2>2. [alerts[id] EXCEPT !.read = TRUE] \in Alerts
    <3>1. alerts[id] \in Alerts
      BY DEF AlertType
    <3> QED BY <3>1 DEF Alerts
  <2>3. alerts' \in Seq(Alerts) /\ Len(alerts') = Len(alerts)
    BY <2>1, <2>2 DEF AlertType
  <2> QED BY <2>1, <2>3 DEF AlertType
<1>11. CASE MonitorFresh /\ UNCHANGED monitorStore
  BY <1>1, <1>11 DEF MonitorFresh, AlertType, Healths, monitorStore
<1>12. CASE UNCHANGED monitorVars
  BY <1>12 DEF monitorVars, monitorState, monitorStore, AlertType
<1> QED BY <1>4, <1>5, <1>6, <1>7, <1>8, <1>9, <1>10, <1>11, <1>12, MonitorSteps

(* The bounds of a behaviour are kept, and the monitor watched is a process's. *)
Bounds ==
  /\ watched \in Pids \cup {NoPid}
  /\ load \in 0 .. MaxLoad /\ trouble \in 0 .. MaxTrouble

LEMMA BoundStep == Bounds /\ [Next]_vars => Bounds'
<1> SUFFICES ASSUME Bounds, [Next]_vars PROVE Bounds'
  OBVIOUS
<1>1. UNCHANGED watched \/ \E p \in Pids : watched' = p
  <2>1. CASE Sync
    BY <2>1 DEF Sync
  <2>2. CASE Commands \/ Api \/ Faults \/ Monitor
    BY <2>2 DEF Commands, Api, Faults, Monitor, ProcOnly
  <2>3. CASE Serve \/ Server \/ Stop \/ Upgrade
    BY <2>3 DEF Serve, Server, Stop, Upgrade, ProcOnly, Monitored
  <2>4. CASE UNCHANGED vars
    BY <2>4 DEF vars
  <2> QED BY <2>1, <2>2, <2>3, <2>4 DEF Next, Node
<1>2. (\E n \in {1, 2, 3} : Load(n)) \/ Fault \/ UNCHANGED boundVars
  <2>1. CASE Sync
    BY <2>1 DEF Sync, Free
  <2>2. CASE Commands \/ Api \/ Faults \/ Monitor
    BY <2>2 DEF Commands, Api, Faults, Monitor, Free, Command
  <2>3. CASE Free \/ UNCHANGED vars
    BY <2>3 DEF Free, vars
  <2> QED BY <2>1, <2>2, <2>3 DEF Next, Node
<1>3. ASSUME NEW n \in {1, 2, 3}, Load(n) PROVE load' \in 0 .. MaxLoad /\ UNCHANGED trouble
  BY <1>3, BoundAssumption DEF Load, Bounds
<1>4. CASE Fault
  BY <1>1, <1>4, BoundAssumption DEF Fault, Bounds
<1> QED BY <1>1, <1>2, <1>3, <1>4 DEF Bounds, boundVars

(* Every variable of a node keeps its type, for any number of faults: the
   processes, the files of an upgrade, the import, the monitor and the phrases,
   and no behaviour exceeds its bounds. *)
THEOREM NodeOpsTypeCorrect == Spec => []TypeOK
<1>1. Init => ImportTypeOK /\ AlertType /\ Bounds
  <2> SUFFICES ASSUME Init PROVE ImportTypeOK /\ AlertType /\ Bounds
    OBVIOUS
  <2>1. ImportTypeOK
    BY DEF Init, ImportInit, ImportTypeOK
  <2>2. AlertType
    BY MonitorAssumption DEF Init, MonitorInit, AlertType, Healths
  <2>3. Bounds
    BY BoundAssumption DEF Init, Bounds
  <2> QED BY <2>1, <2>2, <2>3
<1>2. MonitorInv /\ AlertType => MonitorTypeOK
  BY DEF MonitorInv, AlertType, MonitorTypeOK, Healths, Polls
<1>3. /\ ProcInv /\ SyncInv /\ MonitorInv /\ FilesInv /\ ImportTypeOK /\ AlertType /\ Bounds
      => TypeOK
  BY <1>2 DEF ProcInv, SyncInv, FilesInv, Bounds, TypeOK
<1> QED BY <1>1, <1>3, FilesAlways, ImportTypeStep, AlertTypeStep, BoundStep, ProcAlways,
           SyncAlways, MonitorAlways, PTL DEF Spec
=============================================================================
