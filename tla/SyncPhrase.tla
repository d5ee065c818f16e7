----------------------------- MODULE SyncPhrase -----------------------------
(* pproxy sync (cli/src/cmd/sync.rs): a node's configuration and routes leave
   it as an encrypted phrase that another node takes in, once and within its
   time to live.  The phrases taken in are kept in a file under a lock until
   they have expired; the clock is read before the lock is taken, and several
   imports may be under way. *)
EXTENDS ConfigImport, Naturals

CONSTANTS
  Phrases,    \* phrases that may be exported
  Importers,  \* runs of pproxy sync import
  Ttl,        \* SYNC_TTL_SECONDS (600), in ticks of the clock
  Slack,      \* how much longer a phrase may live (60 s), in ticks
  MaxSkew,    \* bound: how far the exporting node's clock is ahead
  MaxClock,   \* bound: time
  NoPhrase

ASSUME SyncAssumption ==
  /\ {Ttl, Slack, MaxSkew, MaxClock} \subseteq Nat
  /\ NoPhrase \notin Phrases \cup Nat

VARIABLES
  clock,
  exp,     \* phrase -> when it expires, NoPhrase before it is exported
  nonces,  \* .nonces.json: phrases taken in
  sync,    \* importer -> where it is
  taken,   \* history: phrase -> how often it was taken in
  late,    \* history: phrases whose lock was taken after they had expired
  forgot   \* history: phrases on record when the file could not be read

syncVars == <<clock, exp, nonces, sync, taken, late, forgot>>

Away == [at |-> "no", phrase |-> NoPhrase, now |-> 0]
Exported == {p \in Phrases : exp[p] # NoPhrase}
Unchecked == \E i \in Importers : sync[i].at \in {"open", "nonce"}

SyncTypeOK ==
  /\ clock \in 0 .. MaxClock
  /\ exp \in [Phrases -> (0 .. MaxClock + Ttl + MaxSkew) \cup {NoPhrase}]
  /\ nonces \subseteq Phrases /\ late \subseteq Phrases /\ forgot \subseteq Phrases
  /\ sync \in [Importers -> [at : {"no", "open", "nonce", "save", "routes"},
                            phrase : Phrases \cup {NoPhrase}, now : 0 .. MaxClock]]
  /\ taken \in [Phrases -> Nat]

SyncInit ==
  /\ clock = 0
  /\ exp = [p \in Phrases |-> NoPhrase]
  /\ nonces = {}
  /\ sync = [i \in Importers |-> Away]
  /\ taken = [p \in Phrases |-> 0] /\ late = {} /\ forgot = {}

(* Nobody else reads the clock. *)
Time ==
  /\ Unchecked /\ clock < MaxClock
  /\ clock' = clock + 1
  /\ UNCHANGED <<exp, nonces, sync, taken, late, forgot>>

(* On another node, by its clock, with a fresh nonce.  No export is followed
   but those somebody imports; time may pass before the import has opened the
   phrase. *)
export(p) ==
  \E s \in 0 .. MaxSkew :
    exp' = [exp EXCEPT ![p] = IF @ = NoPhrase THEN clock + Ttl + s ELSE @]

SyncGo(i, r) == sync' = [sync EXCEPT ![i] = r]

SyncBegin(i, p) ==
  /\ sync[i] = Away
  /\ export(p)
  /\ SyncGo(i, [at |-> "open", phrase |-> p, now |-> 0])
  /\ UNCHANGED <<clock, nonces, taken, late, forgot>>

(* import_internal: a phrase that is broken, or opened with another
   passphrase, ends it; so does one that has expired or would live too long. *)
SyncRefused(i) ==
  /\ sync[i].at = "open"
  /\ SyncGo(i, Away)
  /\ UNCHANGED <<clock, exp, nonces, taken, late, forgot>>

SyncOpen(i) ==
  /\ sync[i].at = "open"
  /\ clock <= exp[sync[i].phrase] /\ exp[sync[i].phrase] <= clock + Ttl + Slack
  /\ SyncGo(i, [sync[i] EXCEPT !.at = "nonce", !.now = clock])
  /\ UNCHANGED <<clock, exp, nonces, taken, late, forgot>>

(* check_and_record_nonce_at, under the lock: what had expired when the clock
   was read is dropped; a phrase that is left was used before, and then the
   file is not written. *)
Recorded(i, kept) ==
  LET p == sync[i].phrase IN
  /\ sync[i].at = "nonce"
  /\ IF p \in kept
       THEN SyncGo(i, Away) /\ UNCHANGED <<nonces, taken, late>>
       ELSE /\ nonces' = kept \cup {p}
            /\ taken' = [taken EXCEPT ![p] = @ + 1]
            /\ late' = IF clock > exp[p] THEN late \cup {p} ELSE late
            /\ SyncGo(i, [sync[i] EXCEPT !.at = "save"])
  /\ UNCHANGED <<clock, exp>>

(* Seeded fault: a phrase is dropped in the last tick in which it is valid. *)
RecordNonceEarly(i) ==
  Recorded(i, {n \in nonces : sync[i].now < exp[n]}) /\ UNCHANGED forgot

check_and_record_nonce(i) ==
  Recorded(i, {n \in nonces : sync[i].now <= exp[n]}) /\ UNCHANGED forgot

(* A file that cannot be read, or is no JSON, counts as an empty one. *)
NoncesUnread(i) == Recorded(i, {}) /\ forgot' = forgot \cup nonces

(* The lock cannot be had or the file not be written: nothing is taken in. *)
RecordFails(i) ==
  /\ sync[i].at = "nonce"
  /\ SyncGo(i, Away)
  /\ UNCHANGED <<clock, exp, nonces, taken, late, forgot>>

(* The configuration is read, changed and written by rename. *)
SyncSave(i) ==
  /\ sync[i].at = "save"
  /\ SyncGo(i, [sync[i] EXCEPT !.at = "routes"])
  /\ UNCHANGED <<clock, exp, nonces, taken, late, forgot>>

(* It cannot be saved, or the database not opened: the phrase is used up. *)
SyncFails(i) ==
  /\ sync[i].at \in {"save", "routes"}
  /\ SyncGo(i, Away)
  /\ UNCHANGED <<clock, exp, nonces, taken, late, forgot>>

(* Routes go straight into the table; one that is there stays as it is. *)
SyncRoutes(i) ==
  /\ sync[i].at = "routes"
  /\ SyncGo(i, Away)
  /\ table' = table \cup {NewRoute}
  /\ UNCHANGED <<clock, exp, nonces, taken, late, forgot, cfg, bak, deleted, import, parsed>>

-----------------------------------------------------------------------------
(* A phrase is taken in once, by whichever of several imports comes first to
   the lock, up to the last second of its life and after nonces have been
   dropped; but for an import that came to the lock only when the phrase it had
   found valid had expired, and for what was on record in a file that could not
   be read. *)
PhraseOnce == \A p \in Phrases : taken[p] > 1 => p \in late \cup forgot
=============================================================================
