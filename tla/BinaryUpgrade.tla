---------------------------- MODULE BinaryUpgrade ----------------------------
(* The two upgrades of the command line on Unix: `pproxy cluster upgrade`
   (cli/src/cmd/cluster.rs) replaces a target and keeps a backup, `pproxy
   upgrade` (cli/src/cmd/upgrade.rs) replaces the executable it runs from.
   A file holds a version, a number, or Torn when its writing was cut short.
   The steps from the replacement on are in NodeProcess. *)
EXTENDS Integers

CONSTANTS
  MaxVersion,  \* bound: versions that can be fetched
  Torn,
  NoFile

VARIABLES
  target,   \* the binary that is upgraded
  old,      \* target.old
  upgrade,  \* the upgrade under way
  before,   \* history: the target when the last upgrade began
  torn      \* history: a restore has left the target torn

filesVars == <<target, old, upgrade, before, torn>>

Versions == 0 .. MaxVersion

ASSUME UpgradeAssumption ==
  MaxVersion \in Nat /\ {Torn, NoFile} \cap Versions = {} /\ Torn # NoFile

Upgrades == [at : {"no", "fetch", "backup", "write", "rename", "restore",
                   "copy", "replaced", "failed"},
             kind : {"cluster", "self"}, pkg : Versions,
             own : BOOLEAN, kept : BOOLEAN]
NoUpgrade == [at |-> "no", kind |-> "cluster", pkg |-> 0, own |-> FALSE, kept |-> FALSE]

FilesTypeOK ==
  /\ target \in Versions \cup {Torn}
  /\ old \in Versions \cup {Torn, NoFile}
  /\ before \in Versions \cup {Torn}
  /\ upgrade \in Upgrades
  /\ torn \in BOOLEAN

FilesInit ==
  /\ target = 0
  /\ old = NoFile
  /\ upgrade = NoUpgrade
  /\ before = 0
  /\ torn = FALSE

(* The command is given: own tells whether the target is the executable the
   command itself runs from. *)
UpgradeBegin ==
  /\ upgrade.at = "no"
  /\ \E k \in {"cluster", "self"}, o \in BOOLEAN :
       /\ k = "self" => o
       /\ upgrade' = [NoUpgrade EXCEPT !.at = "fetch", !.kind = k, !.own = o]
  /\ before' = target
  /\ UNCHANGED <<target, old, torn>>

Failed == [upgrade EXCEPT !.at = "failed"]

(* The source, its size and, if one is given, the signature are checked
   before anything is touched. *)
FetchFails ==
  /\ upgrade.at = "fetch"
  /\ upgrade' = Failed
  /\ UNCHANGED <<target, old, before, torn>>

(* `pproxy upgrade` asks for the latest version and stops if it is not newer
   (has_update), but what it then downloads comes from mirrors whose path has no
   version: any version may come. *)
UpToDate ==
  /\ upgrade.at = "fetch" /\ upgrade.kind = "self"
  /\ upgrade' = NoUpgrade
  /\ UNCHANGED <<target, old, before, torn>>

Fetched ==
  /\ upgrade.at = "fetch"
  /\ \E v \in Versions :
       upgrade' = [upgrade EXCEPT !.pkg = v,
                     !.at = IF upgrade.kind = "cluster" THEN "backup" ELSE "write"]
  /\ UNCHANGED <<target, old, before, torn>>

(* atomic_replace: the backup is copied only if there is none; an error is
   ignored, and leaves what was copied. *)
Backup ==
  /\ upgrade.at = "backup"
  /\ old' = IF old = NoFile THEN target ELSE old
  /\ upgrade' = [upgrade EXCEPT !.at = "write", !.kept = old # NoFile]
  /\ UNCHANGED <<target, before, torn>>

BackupCutShort ==
  /\ upgrade.at = "backup" /\ old = NoFile
  /\ \E f \in {Torn, NoFile} : old' = f
  /\ upgrade' = [upgrade EXCEPT !.at = "write", !.kept = FALSE]
  /\ UNCHANGED <<target, before, torn>>

(* Seeded fault: the package is written over the target, which for a while
   is neither the old nor the new version. *)
WriteInPlace ==
  /\ upgrade.at = "write"
  /\ target' = Torn
  /\ upgrade' = [upgrade EXCEPT !.at = "rename"]
  /\ UNCHANGED <<old, before, torn>>

(* The package is written beside the target; nobody reads the temporary file
   if that fails. *)
WriteTmp ==
  /\ upgrade.at = "write"
  /\ upgrade' = [upgrade EXCEPT !.at = "rename"]
  /\ UNCHANGED <<target, old, before, torn>>

WriteTmpFails ==
  /\ upgrade.at = "write"
  /\ upgrade' = Failed
  /\ UNCHANGED <<target, old, before, torn>>

Rename ==
  /\ upgrade.at = "rename"
  /\ target' = upgrade.pkg
  /\ upgrade' = [upgrade EXCEPT !.at = "replaced"]
  /\ torn' = FALSE
  /\ UNCHANGED <<old, before>>

(* When the rename fails, a backup made by this upgrade is copied back over
   the target, which is emptied first. *)
RenameFails ==
  /\ upgrade.at = "rename"
  /\ upgrade' = IF upgrade.kind = "cluster" /\ ~upgrade.kept /\ old # NoFile
                THEN [upgrade EXCEPT !.at = "restore"]
                ELSE Failed
  /\ UNCHANGED <<target, old, before, torn>>

RestoreOpens ==
  /\ upgrade.at = "restore"
  /\ target' = Torn
  /\ upgrade' = [upgrade EXCEPT !.at = "copy"]
  /\ UNCHANGED <<old, before, torn>>

Restore ==
  /\ upgrade.at = "copy"
  /\ target' = old
  /\ torn' = (old = Torn)
  /\ upgrade' = Failed
  /\ UNCHANGED <<old, before>>

(* An error of the restoring copy, when it opens the target (which is busy if
   it is being executed) or later, is ignored. *)
RestoreFails ==
  /\ upgrade.at \in {"restore", "copy"}
  /\ torn' = (torn \/ upgrade.at = "copy")
  /\ upgrade' = Failed
  /\ UNCHANGED <<target, old, before>>

(* The end of the command, at times in the middle of a copy. *)
UpgradeKilled ==
  /\ upgrade.at # "no"
  /\ old' \in {old} \cup IF upgrade.at = "backup" /\ old = NoFile THEN {Torn} ELSE {}
  /\ torn' = (torn \/ upgrade.at = "copy")
  /\ upgrade' = NoUpgrade
  /\ UNCHANGED <<target, before>>

-----------------------------------------------------------------------------
(* Wherever an upgrade fails or is killed, and however often, the target is a
   whole binary: the one it was until the rename, and still that one when the
   command answers that it could not replace it.  Only the copy that restores
   it in place can tear it: while it runs, and for good if it is killed, fails,
   or copies a backup that was itself cut short. *)
AllOrNothing ==
  /\ target = Torn => torn \/ upgrade.at = "copy"
  /\ upgrade.at \in {"fetch", "backup", "write", "rename", "restore", "failed"} =>
       target = before \/ torn
=============================================================================
