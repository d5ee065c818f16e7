--------------------------- MODULE CredentialStore ---------------------------
(***************************************************************************)
(* The desktop application's tunnel credential and endpoint                *)
(* (desktop/src-tauri/src/lib.rs).                                         *)
(*                                                                         *)
(* The credential is kept twice, in the system keyring and in a fallback   *)
(* file, with an audit record (meta) of the last write.  Writers hold      *)
(* CRED_LOCK; readers do not, but a reader that finds the copies differing *)
(* may repair the file under the lock.  The engine runs on what was last   *)
(* sent to a watch channel.  Commands of the window run one after another  *)
(* on the main thread; starting the proxy and the engine's own reloads run *)
(* beside them on other threads.                                           *)
(***************************************************************************)
EXTENDS Naturals

CONSTANTS Threads,     \* threads; commands of the window run on "ui"
          Secrets,     \* tunnel tokens
          Urls,        \* endpoint strings that validate, DefaultUrl included
          DefaultUrl,  \* DEFAULT_TUNNEL_URLS
          SecureUrls,  \* the ones that name wss:// endpoints only
          None,
          MaxCommands, \* bound on the window's commands
          MaxTrouble   \* bound on failing keyring and file operations, writes to
                       \* the keyring by other programs and events around it

Free == "free"

ASSUME StoreAssumption ==
  /\ "ui" \in Threads /\ Free \notin Threads
  /\ DefaultUrl \in Urls /\ SecureUrls \subseteq Urls
  /\ None \notin Secrets \cup Urls
  /\ MaxCommands \in Nat /\ MaxTrouble \in Nat

VARIABLES keyring, fallback, \* the two copies
          baks,     \* .dat.bak or a dated copy is there
          meta,     \* the audit record: a manual source?, fingerprint
          endpoint, \* url in tunnel.json
          watch,    \* what the engine was sent: url and token
          lock,     \* CRED_LOCK
          th,       \* the threads
          used,     \* USED_SYNC_NONCES has the phrase of the other device
          commands, trouble, \* counters for the bounds
          saved,    \* history: secret of the last command reported done
          cleared,  \* history: every copy was removed and no secret written since
          doubt     \* history: the last write was not by hand or left no record,
                    \* or a repair decided before it replaced its file

files == <<keyring, fallback, baks, meta>>
durable == <<files, endpoint>>
counters == <<commands, trouble, used>>
history == <<saved, cleared, doubt>>
storeVars == <<durable, watch, lock, th, counters, history>>

NoMeta == [manual |-> FALSE, fp |-> None]
NoConfig == [url |-> None, token |-> None]

(* A thread: the command it runs, where it is, what its current read is for,
   its arguments, the endpoint file before it, and what it has read. *)
Idle == [cmd |-> "none", pc |-> "idle", why |-> "none", secret |-> None,
         url |-> None, prev |-> None, f |-> None, k |-> None, token |-> None]
Commands == {"none", "save", "config", "url", "direct", "clear", "peek",
             "enable", "heal", "refresh"}
Pcs == {"idle", "url", "keyring", "files", "delete", "remove", "f", "k", "m",
        "mend", "act", "send"}
Reads == {"none", "verify", "endpoint", "load", "fresh", "check", "peek",
          "reload"}

Thread ==
  [cmd : Commands, pc : Pcs, why : Reads, secret : Secrets \cup {None},
   url : Urls \cup {None}, prev : Urls \cup {None, "kept"},
   f : Secrets \cup {None}, k : Secrets \cup {None}, token : Secrets \cup {None}]

StoreTypeOK ==
  /\ {keyring, fallback, saved} \subseteq Secrets \cup {None}
  /\ {baks, used, cleared, doubt} \subseteq BOOLEAN
  /\ meta \in [manual : BOOLEAN, fp : Secrets \cup {None}]
  /\ endpoint \in Urls \cup {None}
  /\ watch \in [url : Urls \cup {None}, token : Secrets \cup {None}]
  /\ lock \in Threads \cup {Free}
  /\ th \in [Threads -> Thread]

(* Nothing stored yet, or what a save of an earlier run left. *)
StoreInit ==
  /\ \/ /\ keyring = None /\ fallback = None /\ meta = NoMeta
        /\ endpoint = None
     \/ \E s \in Secrets :
          /\ keyring = s /\ fallback = s /\ meta = [manual |-> TRUE, fp |-> s]
          /\ endpoint = DefaultUrl
  /\ baks = FALSE
  /\ watch = NoConfig /\ lock = Free
  /\ th = [t \in Threads |-> Idle]
  /\ commands = 0 /\ trouble = 0 /\ used = FALSE
  /\ saved = None /\ cleared = FALSE /\ doubt = FALSE

At(t, p) == th[t].pc = p
Go(t, p) == th' = [th EXCEPT ![t].pc = p]
Forget(r) == [r EXCEPT !.f = None, !.k = None, !.token = None]
Read(t, w) == th' = [th EXCEPT ![t] = [Forget(@) EXCEPT !.pc = "f", !.why = w]]
Done(t) == th' = [th EXCEPT ![t] = Idle]
Trouble == trouble < MaxTrouble /\ trouble' = trouble + 1 /\ UNCHANGED commands
Fault == Trouble /\ UNCHANGED used

-----------------------------------------------------------------------------
(* cred_detail_impl: file, keyring, audit record, without the lock. *)

(* Which copy is the credential when they differ: the file if the audit
   record says that a person wrote it last, the keyring otherwise. *)
FileWins(f, k, m) == m.manual /\ m.fp = f
winner(f, k, m) ==
  IF k = None THEN f
  ELSE IF f # None /\ f # k /\ FileWins(f, k, m) THEN f ELSE k

(* The endpoint is read first (tunnel_config_load), then the file. *)
ReadFallback(t) ==
  /\ At(t, "f")
  /\ th' = [th EXCEPT ![t].pc = "k", ![t].f = fallback,
                      ![t].url = IF th[t].why = "verify" THEN @ ELSE endpoint]
  /\ UNCHANGED <<durable, watch, lock, counters, history>>

(* A keyring that does not answer is a keyring without the entry, but for
   the answer of the command when there is no file either. *)
ReadKeyring(t) ==
  /\ At(t, "k")
  /\ \/ th' = [th EXCEPT ![t].pc = "m", ![t].k = keyring] /\ UNCHANGED counters
     \/ th' = [th EXCEPT ![t].pc = "m", ![t].k = None] /\ Fault
  /\ UNCHANGED <<durable, watch, lock, history>>

Differ(t) == th[t].f # None /\ th[t].k # None /\ th[t].f # th[t].k

ReadMeta(t) ==
  /\ At(t, "m")
  /\ th' = [th EXCEPT
       ![t].token = winner(th[t].f, th[t].k, meta),
       ![t].pc = IF Differ(t) /\ ~FileWins(th[t].f, th[t].k, meta)
                   THEN "mend" ELSE "act"]
  /\ UNCHANGED <<durable, watch, lock, counters, history>>

(* Seeded fault: the repair does not look at the file again. *)
cred_self_heal_blind(t) ==
  /\ At(t, "mend") /\ lock = Free
  /\ fallback' = th[t].k
  /\ baks' = (baks \/ fallback # None)
  /\ meta' = [manual |-> FALSE, fp |-> th[t].k]
  /\ doubt' = (doubt \/ FileWins(fallback, keyring, meta))
  /\ Go(t, "act")
  /\ UNCHANGED <<keyring, endpoint, watch, lock, counters, saved, cleared>>

(* The repair, under the lock: the file is read again, the keyring is not. *)
cred_self_heal_locked(t) ==
  /\ At(t, "mend") /\ lock = Free
  /\ IF fallback # None /\ fallback # th[t].k
       THEN /\ baks' = TRUE
            /\ \/ /\ fallback' = th[t].k
                  /\ meta' = [manual |-> FALSE, fp |-> th[t].k]
                  /\ doubt' = (doubt \/ FileWins(fallback, keyring, meta))
                  /\ UNCHANGED counters
               \/ Fault /\ UNCHANGED <<fallback, meta, doubt>>
       ELSE UNCHANGED <<fallback, baks, meta, counters, doubt>>
  /\ Go(t, "act")
  /\ UNCHANGED <<keyring, endpoint, watch, lock, saved, cleared>>

(* tunnel_config_load: no token, no configuration; no endpoint, the default. *)
Loaded(t) ==
  IF th[t].token = None THEN NoConfig
  ELSE [url |-> IF th[t].url = None THEN DefaultUrl ELSE th[t].url,
        token |-> th[t].token]

-----------------------------------------------------------------------------
(* cred_set_impl_with_source and cred_delete_impl_with_source. *)

(* A command that fails puts the endpoint file back (tunnel_config_set). *)
Fail(t) ==
  /\ endpoint' = IF th[t].cmd = "config" /\ th[t].prev # "kept"
                   THEN th[t].prev ELSE endpoint
  /\ Done(t)

Manual(t) == th[t].cmd \in {"save", "config", "direct"}

SetKeyring(t) ==
  /\ At(t, "keyring") /\ lock = Free
  /\ keyring' = th[t].secret
  /\ lock' = t
  /\ saved' = None /\ cleared' = FALSE
  /\ Go(t, "files")
  /\ UNCHANGED <<fallback, baks, meta, endpoint, watch, counters, doubt>>

(* A failed repair after a 401 goes on in memory; a command gives up. *)
SetKeyringFails(t) ==
  /\ At(t, "keyring") /\ lock = Free
  /\ Fault
  /\ IF th[t].cmd = "heal" THEN Go(t, "send") /\ UNCHANGED endpoint ELSE Fail(t)
  /\ UNCHANGED <<files, watch, lock, history>>

(* Seeded fault: the audit record is written by no one. *)
SetFilesNoAudit(t) ==
  /\ At(t, "files")
  /\ fallback' = th[t].secret
  /\ lock' = Free
  /\ IF th[t].cmd = "heal" THEN Go(t, "send") ELSE Read(t, "verify")
  /\ UNCHANGED <<keyring, baks, meta, endpoint, watch, counters, history>>

(* The file, then the audit record, whose failure is passed over. *)
SetFiles(t) ==
  /\ At(t, "files")
  /\ fallback' = th[t].secret
  /\ \/ /\ meta' = [manual |-> Manual(t), fp |-> th[t].secret]
        /\ doubt' = ~Manual(t)
        /\ UNCHANGED counters
     \/ Fault /\ doubt' = TRUE /\ UNCHANGED meta
  /\ lock' = Free
  /\ IF th[t].cmd = "heal" THEN Go(t, "send") ELSE Read(t, "verify")
  /\ UNCHANGED <<keyring, baks, endpoint, watch, saved, cleared>>

(* "half-written": the keyring has the secret and the file has not. *)
SetFilesFails(t) ==
  /\ At(t, "files")
  /\ Fault
  /\ lock' = Free
  /\ IF th[t].cmd = "heal" THEN Go(t, "send") /\ UNCHANGED endpoint ELSE Fail(t)
  /\ UNCHANGED <<files, watch, history>>

(* An entry that is not there counts as deleted; one that cannot be opened is
   passed over; another error ends the command with everything in place. *)
DeleteKeyring(t) ==
  /\ At(t, "delete") /\ lock = Free
  /\ \/ /\ \/ keyring' = None /\ UNCHANGED counters
           \/ Fault /\ UNCHANGED keyring
        /\ lock' = t /\ saved' = None
        /\ Go(t, "remove")
     \/ Fault /\ Done(t) /\ UNCHANGED <<keyring, lock, saved>>
  /\ UNCHANGED <<fallback, baks, meta, endpoint, watch, cleared, doubt>>

(* cred_remove_fallback_all and the tombstone: an error of any of them is
   passed over, and the command answers Ok. *)
DeleteFiles(t) ==
  /\ At(t, "remove")
  /\ \/ fallback' = None /\ baks' = FALSE /\ meta' = NoMeta /\ UNCHANGED counters
     \/ /\ Fault
        /\ fallback' \in {fallback, None} /\ baks' \in {baks, FALSE}
        /\ meta' \in {meta, NoMeta}
  /\ lock' = Free /\ cleared' = (keyring = None /\ fallback' = None /\ ~baks')
  /\ Read(t, "load")
  /\ UNCHANGED <<keyring, endpoint, watch, saved, doubt>>

-----------------------------------------------------------------------------
(* The commands of the window. *)

Begin(t, r) ==
  /\ At(t, "idle") /\ commands < MaxCommands
  /\ commands' = commands + 1
  /\ th' = [th EXCEPT ![t] = r]
  /\ UNCHANGED <<durable, watch, lock, trouble, history>>

Start(t, r) == t = "ui" /\ Begin(t, r) /\ UNCHANGED used

tunnel_token_save(t, s) ==
  Start(t, [Idle EXCEPT !.cmd = "save", !.pc = "keyring", !.secret = s])

(* Both arguments are optional. *)
tunnel_config_set(t, u, s) ==
  /\ u # None \/ s # None
  /\ Start(t, [Idle EXCEPT !.cmd = "config", !.secret = s, !.url = u,
                 !.prev = IF u = None THEN "kept" ELSE endpoint,
                 !.pc = IF u # None THEN "url" ELSE "keyring"])

proxy_tunnel_set_url(t, u) ==
  Start(t, [Idle EXCEPT !.cmd = "url", !.pc = "url", !.url = u])

(* A pony-gate:// code has both, and its endpoints are encrypted. *)
tunnel_connect_code_import(t, u, s) ==
  u \in SecureUrls /\ s # None /\ tunnel_config_set(t, u, s)

Direct(s) ==
  [Idle EXCEPT !.cmd = "direct", !.pc = "f", !.why = "endpoint", !.secret = s]
Look == [Idle EXCEPT !.cmd = "peek", !.pc = "f", !.why = "peek"]

(* proxy_mode_switch to direct mode, with a secret. *)
configure_direct_tunnel(t, s) == Start(t, Direct(s))

(* A pproxy-sync:// phrase that opens and has not expired.  It counts as used
   before anything is configured; without a secret the credential stays and is
   read for its fingerprint. *)
proxy_import_sync(t, s) ==
  /\ t = "ui" /\ ~used /\ used' = TRUE
  /\ Begin(t, IF s # None THEN Direct(s) ELSE Look)

tunnel_token_clear(t) ==
  Start(t, [Idle EXCEPT !.cmd = "clear", !.pc = "delete"])

(* proxy_tunnel_get, tunnel_self_check: a read with its repair. *)
Peek(t) == Start(t, Look)

WriteUrl(t) ==
  /\ At(t, "url")
  /\ endpoint' = th[t].url
  /\ \/ th[t].cmd = "url" /\ Read(t, "fresh")
     \/ th[t].cmd = "config" /\ th[t].secret = None /\ Read(t, "load")
     \/ th[t].cmd \in {"config", "direct"} /\ th[t].secret # None /\ Go(t, "keyring")
  /\ UNCHANGED <<files, watch, lock, counters, history>>

WriteUrlFails(t) ==
  /\ At(t, "url")
  /\ Fault /\ Done(t)
  /\ UNCHANGED <<durable, watch, lock, history>>

(* cred_verify_dual_source: both copies as they were read. *)
Verify(t) ==
  /\ At(t, "act") /\ th[t].why = "verify"
  /\ IF th[t].f = th[t].secret /\ th[t].k = th[t].secret
       THEN /\ \/ th[t].cmd = "save" /\ Read(t, "endpoint")
               \/ th[t].cmd = "config" /\ Read(t, "load")
               \/ th[t].cmd = "direct" /\ Go(t, "send")
            /\ UNCHANGED endpoint
       ELSE Fail(t)
  /\ UNCHANGED <<files, watch, lock, counters, history>>

(* save: an endpoint that is not there is written with the default, or the
   command fails; direct: the endpoint in use, or the default, is written
   first. *)
Endpoint(t) ==
  /\ At(t, "act") /\ th[t].why = "endpoint"
  /\ LET u == IF Loaded(t).url = None THEN DefaultUrl ELSE Loaded(t).url
         writes == th[t].cmd = "save" /\ Loaded(t).url = None
     IN
     \/ /\ th' = [th EXCEPT ![t].url = u,
                            ![t].pc = IF th[t].cmd = "save" THEN "send" ELSE "url"]
        /\ endpoint' = IF writes THEN u ELSE endpoint
        /\ UNCHANGED counters
     \/ writes /\ Fault /\ Done(t) /\ UNCHANGED endpoint
  /\ UNCHANGED <<files, watch, lock, history>>

(* watch.send of the secret in hand: the last step of save, of direct and of
   the repair after a 401. *)
Send(t) ==
  /\ At(t, "send")
  /\ watch' = [url |-> th[t].url, token |-> th[t].secret]
  /\ saved' = IF Manual(t) /\ keyring = th[t].secret THEN th[t].secret ELSE saved
  /\ Done(t)
  /\ UNCHANGED <<files, endpoint, lock, counters, cleared, doubt>>

(* watch.send(tunnel_config_load()) and then the flags in app_config.json, whose
   failure tunnel_config_set reports after the send: the last steps of
   tunnel_config_set and tunnel_token_clear. *)
SendLoaded(t) ==
  /\ At(t, "act") /\ th[t].why = "load" /\ th[t].cmd \in {"config", "clear"}
  /\ watch' = Loaded(t)
  /\ \/ /\ saved' = IF th[t].secret # None /\ keyring = th[t].secret
                      THEN th[t].secret ELSE saved
        /\ UNCHANGED counters
     \/ Fault /\ UNCHANGED saved
  /\ Done(t)
  /\ UNCHANGED <<files, endpoint, lock, cleared, doubt>>

(* tunnel_watch_send_fresh: nothing is sent when nothing was read, something
   is in use and the keyring (asked again) does not answer. *)
SendFresh(t) ==
  /\ At(t, "act") /\ th[t].why = "fresh"
  /\ \/ watch' = Loaded(t) /\ UNCHANGED counters
     \/ Loaded(t) = NoConfig /\ watch # NoConfig /\ Fault /\ UNCHANGED watch
  /\ Done(t)
  /\ UNCHANGED <<durable, lock, history>>

(* proxy_enable_inner, direct mode: refused without a configuration.  The
   tray's toggle runs it on the main thread, the window and the start of the
   application on another. *)
proxy_enable(t) ==
  /\ Begin(t, [Idle EXCEPT !.cmd = "enable", !.pc = "f", !.why = "check"])
  /\ UNCHANGED used

EnableChecked(t) ==
  /\ At(t, "act") /\ th[t].why = "check"
  /\ IF Loaded(t) = NoConfig THEN Done(t) ELSE Read(t, "fresh")
  /\ UNCHANGED <<durable, watch, lock, counters, history>>

Peeked(t) ==
  /\ At(t, "act") /\ th[t].why = "peek"
  /\ Done(t)
  /\ UNCHANGED <<durable, watch, lock, counters, history>>

-----------------------------------------------------------------------------
(* Another program writes the keyring entry: a rotation, or damage. *)
Outside(s) ==
  /\ Fault
  /\ keyring' = s /\ cleared' = FALSE
  /\ UNCHANGED <<fallback, baks, meta, endpoint, watch, lock, th,
                 saved, doubt>>

StoreStep(t) ==
  \/ ReadFallback(t) \/ ReadKeyring(t) \/ ReadMeta(t) \/ cred_self_heal_locked(t)
  \/ SetKeyring(t) \/ SetKeyringFails(t) \/ SetFiles(t) \/ SetFilesFails(t)
  \/ DeleteKeyring(t) \/ DeleteFiles(t)
  \/ WriteUrl(t) \/ WriteUrlFails(t) \/ Verify(t) \/ Endpoint(t)
  \/ Send(t) \/ SendLoaded(t) \/ SendFresh(t) \/ EnableChecked(t) \/ Peeked(t)

WindowCommand(t) ==
  \/ \E s \in Secrets : tunnel_token_save(t, s) \/ configure_direct_tunnel(t, s)
  \/ \E u \in Urls \cup {None}, s \in Secrets \cup {None} :
       tunnel_config_set(t, u, s) \/ tunnel_connect_code_import(t, u, s)
  \/ \E s \in Secrets \cup {None} : proxy_import_sync(t, s)
  \/ \E u \in Urls : proxy_tunnel_set_url(t, u)
  \/ tunnel_token_clear(t) \/ Peek(t)

-----------------------------------------------------------------------------
(* Properties. *)

(* "Explicitly cleared leaves no live key": once a clearing has removed every
   copy, a repair does not bring one back, although its reader may have seen
   the copies differ before the clearing.  Only a write of a secret ends
   that: by a command, by another program, or by the reload after a 401,
   which may have read the secret before it was cleared. *)
ClearedStaysEmpty ==
  cleared => keyring = None /\ fallback = None /\ ~baks

(* A secret a command reported as saved is what the next start reads, also
   when another program has overwritten the keyring entry since and reads
   have repaired the file.  `doubt` takes out: a later write that was not by
   hand (the reload after a 401) or that left no audit record, and a repair
   decided before the save that replaced the saved file after it. *)
SavedIsRead ==
  saved # None /\ ~doubt => winner(fallback, keyring, meta) = saved
=============================================================================
