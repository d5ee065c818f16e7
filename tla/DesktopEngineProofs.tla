------------------------ MODULE DesktopEngineProofs -------------------------
(***************************************************************************)
(* Proofs about the desktop application's credential and tunnel, for every *)
(* set of threads, secrets and endpoints and every number of commands and  *)
(* faults: DesktopEngine (with the CredentialStore it is made of), where a *)
(* cleared credential stays gone and a saved one is the one that is read;  *)
(* and TunnelPool, the standby sessions its engine takes, which all carry  *)
(* the credential maintain() works from and never exceed their plan.       *)
(***************************************************************************)
EXTENDS DesktopEngine, TunnelPool, SequenceTheorems, TLAPS

-----------------------------------------------------------------------------
(* The credential store (DesktopEngine). *)

(* The commands by hand, and those that wrote: t has written its secret. *)
ByHand == {"save", "config", "direct"}

(* The secret of r is on disk: its command has gone past
   cred_set_impl_with_source. *)
Wrote(r) ==
  /\ r.cmd \in ByHand
  /\ \/ r.why = "verify"
     \/ r.cmd = "save" /\ r.why = "endpoint"
     \/ r.cmd = "config" /\ r.why = "load" /\ r.secret # None

(* Where the thread t may be with which command: the window's run on "ui", and
   what a command by hand sends it has written. *)
Placed(t, r) ==
  /\ r.cmd \in ByHand \cup {"clear"} => t = "ui"
  /\ r.cmd = "clear" => r.secret = None
  /\ r.pc = "send" => r.cmd = "heal" \/ Wrote(r)
  /\ r.pc \in {"delete", "remove"} => r.cmd = "clear"

(* Between its two writes a thread holds the lock, and no command is reported
   done nor the store cleared. *)
Writing(t, r) ==
  r.pc \in {"files", "remove"} =>
    /\ lock = t
    /\ r.pc = "files" => ~cleared
    /\ t = "ui" => saved = None

(* The file holds s and its audit record says that a person wrote it. *)
Recorded(s) == fallback = s /\ meta.manual /\ meta.fp = s

(* Without doubt, that is what a command reported done or has written. *)
RecordInv ==
  ~doubt =>
    /\ saved # None => Recorded(saved)
    /\ \A t \in Threads : Wrote(th[t]) => Recorded(th[t].secret)

(* The inductive invariant of the store: the order in which a command
   writes, reads back and reports, and what the file and its audit record
   hold. *)
StoreInv ==
  /\ StoreTypeOK
  /\ \A t \in Threads : Placed(t, th[t]) /\ Writing(t, th[t])
  /\ RecordInv
  /\ ClearedStaysEmpty

(* Thread t takes the local state r, and nobody else moves. *)
Turn(t, r) == th' = [th EXCEPT ![t] = r]

(* What a thread is about: its command and its secret. *)
Same(r, q) == r.cmd = q.cmd /\ r.secret = q.secret

(* A thread between two commands has its type and has written nothing. *)
LEMMA IdleFacts ==
  /\ Idle \in Thread /\ Idle.cmd = "none" /\ Idle.pc = "idle"
  /\ \A t : Placed(t, Idle)
  /\ ~Wrote(Idle)
BY DEF Idle, Thread, Commands, Pcs, Reads, Placed, Wrote, ByHand

(* One thread's turn leaves the others as they were. *)
LEMMA TurnFacts ==
  ASSUME th \in [Threads -> Thread], NEW t, NEW r \in Thread, Turn(t, r)
  PROVE  /\ th' \in [Threads -> Thread]
         /\ t \in Threads => th'[t] = r
         /\ \A u \in Threads \ {t} : th'[u] = th[u]
BY DEF Turn

(* A thread that goes on keeps its command and what it has read. *)
LEMMA GoFacts ==
  ASSUME NEW t \in Threads, th \in [Threads -> Thread], NEW p \in Pcs, Go(t, p)
  PROVE  \E r \in Thread : /\ Turn(t, r) /\ Same(r, th[t])
                           /\ r.pc = p /\ r.why = th[t].why
<1> DEFINE r == [th[t] EXCEPT !.pc = p]
<1>1. th[t] \in Thread /\ Turn(t, r)
  BY DEF Go, Turn
<1>2. r \in Thread /\ Same(r, th[t]) /\ r.pc = p /\ r.why = th[t].why
  BY <1>1 DEF Thread, Same
<1> QED BY <1>1, <1>2

(* A read begins with the fallback file (cred_detail_impl). *)
LEMMA ReadFacts ==
  ASSUME NEW t \in Threads, th \in [Threads -> Thread], NEW w \in Reads, Read(t, w)
  PROVE  \E r \in Thread : /\ Turn(t, r) /\ Same(r, th[t])
                           /\ r.pc = "f" /\ r.why = w
<1> DEFINE r == [Forget(th[t]) EXCEPT !.pc = "f", !.why = w]
<1>1. th[t] \in Thread /\ Turn(t, r)
  BY DEF Read, Turn
<1>2. r \in Thread /\ Same(r, th[t]) /\ r.pc = "f" /\ r.why = w
  BY <1>1 DEF Thread, Same, Forget, Pcs
<1> QED BY <1>1, <1>2

(* The three steps of a read (cred_detail_impl) change only what the reader
   holds. *)
LEMMA ReadStepFacts ==
  ASSUME StoreTypeOK, NEW t \in Threads,
         ReadFallback(t) \/ ReadKeyring(t) \/ ReadMeta(t)
  PROVE  \E r \in Thread : /\ Turn(t, r) /\ Same(r, th[t]) /\ r.why = th[t].why
                           /\ r.pc \in {"k", "m", "mend", "act"}
<1>0. th[t] \in Thread /\ {fallback, keyring, None} \subseteq Secrets \cup {None}
  BY DEF StoreTypeOK
<1>1. CASE ReadFallback(t)
  <2> DEFINE u == IF th[t].why = "verify" THEN th[t].url ELSE endpoint
             r == [th[t] EXCEPT !.pc = "k", !.f = fallback, !.url = u]
  <2>1. Turn(t, r)
    BY <1>1 DEF ReadFallback, Turn
  <2>2. u \in Urls \cup {None}
    BY <1>0 DEF Thread, StoreTypeOK
  <2> HIDE DEF u
  <2>3. r \in Thread /\ Same(r, th[t]) /\ r.why = th[t].why /\ r.pc = "k"
    BY <1>0, <2>2 DEF Thread, Pcs, Same
  <2> QED BY <2>1, <2>3
<1>2. CASE ReadKeyring(t)
  <2>1. PICK k \in {keyring, None} : th' = [th EXCEPT ![t].pc = "m", ![t].k = k]
    BY <1>2 DEF ReadKeyring
  <2> DEFINE r == [th[t] EXCEPT !.pc = "m", !.k = k]
  <2>2. Turn(t, r)
    BY <2>1 DEF Turn
  <2>3. r \in Thread /\ Same(r, th[t]) /\ r.why = th[t].why /\ r.pc = "m"
    BY <1>0 DEF Thread, Pcs, Same
  <2> QED BY <2>2, <2>3
<1>3. CASE ReadMeta(t)
  <2> DEFINE w == winner(th[t].f, th[t].k, meta)
             p == IF Differ(t) /\ ~FileWins(th[t].f, th[t].k, meta) THEN "mend" ELSE "act"
             r == [th[t] EXCEPT !.token = w, !.pc = p]
  <2>1. Turn(t, r)
    BY <1>3 DEF ReadMeta, Turn
  <2>2. w \in Secrets \cup {None} /\ p \in {"mend", "act"}
    BY <1>0 DEF winner, Thread
  <2> HIDE DEF w, p
  <2>3. r \in Thread /\ Same(r, th[t]) /\ r.why = th[t].why /\ r.pc = p
    BY <1>0, <2>2 DEF Thread, Pcs, Same
  <2> QED BY <2>1, <2>2, <2>3
<1> QED BY <1>1, <1>2, <1>3

(* A step of t to r that writes neither copy, and leaves the lock at most. *)
Quiet(t, r) ==
  /\ Turn(t, r) /\ Placed(t, r) /\ r.pc \notin {"files", "remove"}
  /\ Wrote(r) => Wrote(th[t]) /\ r.secret = th[t].secret
  /\ UNCHANGED <<files, history>>
  /\ UNCHANGED lock \/ (lock = t /\ lock' = Free)
  /\ endpoint' \in Urls \cup {None} /\ used' \in BOOLEAN
  /\ watch' \in [url : Urls \cup {None}, token : Secrets \cup {None}]

(* A step that writes no credential keeps the invariant. *)
LEMMA QuietStep ==
  ASSUME StoreInv, NEW t \in Threads, NEW r \in Thread, Quiet(t, r)
  PROVE  StoreInv'
<1>1. /\ th' \in [Threads -> Thread] /\ th'[t] = r
      /\ \A u \in Threads \ {t} : th'[u] = th[u]
  BY TurnFacts DEF StoreInv, StoreTypeOK, Quiet
<1>2. StoreTypeOK'
  BY <1>1 DEF StoreInv, StoreTypeOK, Quiet, files, history
<1>3. ASSUME NEW u \in Threads
      PROVE  Placed(u, th'[u]) /\ Writing(u, th[u])'
  <2>1. CASE u = t
    BY <1>1, <2>1 DEF Quiet, Writing
  <2>2. CASE u # t
    <3>1. Placed(u, th[u]) /\ Writing(u, th[u]) /\ th'[u] = th[u]
      BY <1>1, <2>2 DEF StoreInv
    <3>2. Writing(u, th[u])'
      BY <3>1, <2>2 DEF Quiet, Writing, history
    <3> QED BY <3>1, <3>2
  <2> QED BY <2>1, <2>2
<1>4. RecordInv'
  BY <1>1 DEF StoreInv, RecordInv, Recorded, Quiet, files, history
<1>5. ClearedStaysEmpty'
  BY DEF StoreInv, ClearedStaysEmpty, Quiet, files, history
<1> QED BY <1>2, <1>3, <1>4, <1>5 DEF StoreInv, Placed, Wrote

(* So does a command that ends without one. *)
LEMMA QuietDone ==
  ASSUME StoreInv, NEW t \in Threads, Done(t), UNCHANGED <<files, history>>,
         UNCHANGED lock \/ (lock = t /\ lock' = Free),
         endpoint' \in Urls \cup {None}, used' \in BOOLEAN,
         watch' \in [url : Urls \cup {None}, token : Secrets \cup {None}]
  PROVE  StoreInv'
<1>1. Idle \in Thread /\ Quiet(t, Idle)
  BY IdleFacts DEF Quiet, Done, Turn
<1> QED BY <1>1, QuietStep

(* tunnel_config_load builds a configuration of a url and a token. *)
LEMMA LoadedType ==
  ASSUME StoreTypeOK, NEW t \in Threads
  PROVE  Loaded(t) \in [url : Urls \cup {None}, token : Secrets \cup {None}]
<1>1. th[t].url \in Urls \cup {None} /\ th[t].token \in Secrets \cup {None}
  BY DEF StoreTypeOK, Thread
<1> QED BY <1>1, StoreAssumption DEF Loaded, NoConfig

(* A command that fails leaves an endpoint of its type. *)
LEMMA FailType ==
  ASSUME StoreTypeOK, NEW t \in Threads, Fail(t)
  PROVE  endpoint' \in Urls \cup {None}
<1>1. th[t].prev \in Urls \cup {None, "kept"} /\ endpoint \in Urls \cup {None}
  BY DEF StoreTypeOK, Thread
<1> QED BY <1>1 DEF Fail

(* The steps of cred_detail_impl before the repair. *)
LEMMA ReadKeeps ==
  ASSUME StoreInv, NEW t \in Threads, ReadFallback(t) \/ ReadKeyring(t) \/ ReadMeta(t)
  PROVE  StoreInv'
<1>1. PICK r \in Thread : /\ Turn(t, r) /\ Same(r, th[t]) /\ r.why = th[t].why
                          /\ r.pc \in {"k", "m", "mend", "act"}
  BY ReadStepFacts DEF StoreInv
<1>2. UNCHANGED <<files, history, lock, endpoint, used, watch>>
  BY DEF ReadFallback, ReadKeyring, ReadMeta, durable, files, history, counters,
     Fault
<1>3. Placed(t, th[t]) /\ (Wrote(r) => Wrote(th[t]))
  BY <1>1 DEF StoreInv, Wrote, Same
<1>4. Placed(t, r)
  BY <1>1, <1>3 DEF Placed, Same
<1>5. Quiet(t, r)
  BY <1>1, <1>2, <1>3, <1>4 DEF Quiet, Same, StoreInv, StoreTypeOK, files, history
<1> QED BY <1>5, QuietStep

(* A keyring or a file that cannot be written (the error paths of
   cred_set_impl_with_source). *)
LEMMA FailsKeeps ==
  ASSUME StoreInv, NEW t \in Threads, SetKeyringFails(t) \/ SetFilesFails(t)
  PROVE  StoreInv'
<1>1. /\ UNCHANGED <<files, history>> /\ used' \in BOOLEAN
      /\ watch' \in [url : Urls \cup {None}, token : Secrets \cup {None}]
      /\ UNCHANGED lock \/ (lock = t /\ lock' = Free)
  BY DEF SetKeyringFails, SetFilesFails, Fault, StoreInv, StoreTypeOK, Writing, At
<1>2. CASE th[t].cmd = "heal"
  <2>1. Go(t, "send") /\ UNCHANGED endpoint
    BY <1>2 DEF SetKeyringFails, SetFilesFails
  <2>2. PICK r \in Thread : /\ Turn(t, r) /\ Same(r, th[t])
                            /\ r.pc = "send" /\ r.why = th[t].why
    BY <2>1, GoFacts DEF StoreInv, StoreTypeOK, Pcs
  <2>3. Placed(t, r) /\ ~Wrote(r)
    BY <1>2, <2>2 DEF Placed, Same, Wrote, ByHand
  <2>4. Quiet(t, r)
    BY <1>1, <2>1, <2>2, <2>3 DEF Quiet, StoreInv, StoreTypeOK
  <2> QED BY <2>4, QuietStep
<1>3. CASE th[t].cmd # "heal"
  <2>1. Fail(t)
    BY <1>3 DEF SetKeyringFails, SetFilesFails
  <2> QED BY <1>1, <2>1, FailType, QuietDone DEF Fail, StoreInv
<1> QED BY <1>2, <1>3

(* The endpoint file is written (proxy_tunnel_set_url, tunnel_config_set,
   configure_direct_tunnel). *)
LEMMA WriteUrlKeeps ==
  ASSUME StoreInv, NEW t \in Threads, WriteUrl(t)
  PROVE  StoreInv'
<1>1. th[t] \in Thread /\ th \in [Threads -> Thread] /\ Placed(t, th[t])
  BY DEF StoreInv, StoreTypeOK
<1>2. UNCHANGED <<files, history, lock, used, watch>> /\ endpoint' \in Urls \cup {None}
  BY <1>1 DEF WriteUrl, files, history, counters, Thread
<1>3. \E r \in Thread : Turn(t, r) /\ Placed(t, r) /\ r.pc \in {"f", "keyring"}
                        /\ (Wrote(r) => Wrote(th[t]) /\ r.secret = th[t].secret)
  <2>1. CASE th[t].cmd = "url" /\ Read(t, "fresh")
    <3>1. PICK r \in Thread : /\ Turn(t, r) /\ Same(r, th[t])
                              /\ r.pc = "f" /\ r.why = "fresh"
      BY <1>1, <2>1, ReadFacts DEF Reads
    <3> QED BY <1>1, <3>1 DEF Placed, Same, Wrote
  <2>2. CASE th[t].cmd = "config" /\ th[t].secret = None /\ Read(t, "load")
    <3>1. PICK r \in Thread : /\ Turn(t, r) /\ Same(r, th[t])
                              /\ r.pc = "f" /\ r.why = "load"
      BY <1>1, <2>2, ReadFacts DEF Reads
    <3> QED BY <1>1, <2>2, <3>1 DEF Placed, Same, Wrote
  <2>3. CASE th[t].secret # None /\ Go(t, "keyring")
    <3>1. PICK r \in Thread : /\ Turn(t, r) /\ Same(r, th[t])
                              /\ r.pc = "keyring" /\ r.why = th[t].why
      BY <1>1, <2>3, GoFacts DEF Pcs
    <3> QED BY <1>1, <3>1 DEF Placed, Same, Wrote
  <2> QED BY <2>1, <2>2, <2>3 DEF WriteUrl
<1>4. PICK r \in Thread : Quiet(t, r)
  BY <1>2, <1>3 DEF Quiet, StoreInv, StoreTypeOK
<1> QED BY <1>4, QuietStep

(* Both copies are read back after the write (cred_verify_dual_source). *)
LEMMA VerifyKeeps ==
  ASSUME StoreInv, NEW t \in Threads, Verify(t)
  PROVE  StoreInv'
<1>1. th[t] \in Thread /\ th \in [Threads -> Thread] /\ Placed(t, th[t])
  BY DEF StoreInv, StoreTypeOK
<1>2. UNCHANGED <<files, history, lock, used, watch>> /\ th[t].why = "verify"
  BY <1>1 DEF Verify, files, history, counters
<1>3. CASE Fail(t)
  BY <1>2, <1>3, FailType, QuietDone DEF Fail, StoreInv, StoreTypeOK
<1>4. CASE /\ UNCHANGED endpoint
           /\ \/ th[t].cmd = "save" /\ Read(t, "endpoint")
              \/ th[t].cmd = "config" /\ Read(t, "load")
              \/ th[t].cmd = "direct" /\ Go(t, "send")
  <2>0. Wrote(th[t])
    BY <1>2, <1>4 DEF Wrote, ByHand
  <2>1. \E r \in Thread : Turn(t, r) /\ Same(r, th[t]) /\ Placed(t, r)
                          /\ r.pc \in {"f", "send"}
    <3>1. CASE Read(t, "endpoint") \/ Read(t, "load")
      <4>1. PICK r \in Thread : Turn(t, r) /\ Same(r, th[t]) /\ r.pc = "f"
        BY <1>1, <3>1, ReadFacts DEF Reads
      <4> QED BY <1>1, <4>1 DEF Placed, Same
    <3>2. CASE Go(t, "send")
      <4>1. PICK r \in Thread : /\ Turn(t, r) /\ Same(r, th[t])
                                /\ r.pc = "send" /\ r.why = th[t].why
        BY <1>1, <3>2, GoFacts DEF Pcs
      <4> QED BY <1>1, <1>2, <2>0, <4>1 DEF Placed, Same, Wrote
    <3> QED BY <1>4, <3>1, <3>2
  <2>2. PICK r \in Thread : Quiet(t, r)
    BY <1>2, <1>4, <2>0, <2>1 DEF Quiet, Same, StoreInv, StoreTypeOK
  <2> QED BY <2>2, QuietStep
<1> QED BY <1>3, <1>4 DEF Verify

(* The endpoint: tunnel_token_save decides on it after the secret,
   configure_direct_tunnel before. *)
LEMMA EndpointKeeps ==
  ASSUME StoreInv, NEW t \in Threads, Endpoint(t)
  PROVE  StoreInv'
<1>1. /\ th[t] \in Thread /\ th \in [Threads -> Thread] /\ Placed(t, th[t])
      /\ endpoint \in Urls \cup {None}
  BY DEF StoreInv, StoreTypeOK
<1>2. UNCHANGED <<files, history, lock, used, watch>> /\ th[t].why = "endpoint"
  BY <1>1 DEF Endpoint, files, history, counters, Fault
<1>2d. CASE Done(t) /\ UNCHANGED endpoint
  BY <1>1, <1>2, <1>2d, QuietDone DEF StoreInv, StoreTypeOK
<1> DEFINE u == IF Loaded(t).url = None THEN DefaultUrl ELSE Loaded(t).url
           p == IF th[t].cmd = "save" THEN "send" ELSE "url"
           r == [th[t] EXCEPT !.url = u, !.pc = p]
<1>3. u \in Urls \cup {None}
  BY LoadedType, StoreAssumption DEF StoreInv
<1>4. SUFFICES ASSUME th' = [th EXCEPT ![t].url = u, ![t].pc = p],
                      endpoint' = u \/ endpoint' = endpoint
               PROVE  StoreInv'
  BY <1>2d DEF Endpoint
<1> HIDE DEF u
<1>5. p \in Pcs /\ p \notin {"files", "remove", "delete"}
      /\ (p = "send" => th[t].cmd = "save")
  BY DEF Pcs
<1> HIDE DEF p
<1>6. Turn(t, r)
  BY <1>1, <1>4 DEF Turn
<1>7. r \in Thread /\ Same(r, th[t]) /\ r.why = "endpoint" /\ r.pc = p
  BY <1>1, <1>2, <1>3, <1>5 DEF Thread, Same
<1>8. PICK q \in Thread : q = r
  BY <1>7
<1>9. Quiet(t, q)
  <2>1. Placed(t, q) /\ q.pc \notin {"files", "remove"}
    BY <1>1, <1>5, <1>7, <1>8 DEF Placed, Same, Wrote, ByHand
  <2>2. Wrote(q) => Wrote(th[t]) /\ q.secret = th[t].secret
    BY <1>2, <1>7, <1>8 DEF Same, Wrote
  <2> HIDE DEF r
  <2> QED BY <1>1, <1>2, <1>3, <1>4, <1>6, <1>8, <2>1, <2>2 DEF Quiet, StoreInv, StoreTypeOK
<1> QED BY <1>9, QuietStep

(* Three ways a command ends without touching the credential. *)
LEMMA EndsKeep ==
  ASSUME StoreInv, NEW t \in Threads, WriteUrlFails(t) \/ SendFresh(t) \/ Peeked(t)
  PROVE  StoreInv'
<1>1. UNCHANGED <<files, history, lock, used, endpoint>> /\ Done(t)
  BY DEF WriteUrlFails, SendFresh, Peeked, files, durable, history, counters, Fault
<1>2. watch' \in [url : Urls \cup {None}, token : Secrets \cup {None}]
  BY LoadedType DEF WriteUrlFails, SendFresh, Peeked, StoreInv, StoreTypeOK
<1> QED BY <1>1, <1>2, QuietDone DEF StoreInv, StoreTypeOK

(* proxy_enable looks at the credential before the engine starts. *)
LEMMA EnableCheckedKeeps ==
  ASSUME StoreInv, NEW t \in Threads, EnableChecked(t)
  PROVE  StoreInv'
<1>1. UNCHANGED <<files, history, lock, used, endpoint, watch>>
  BY DEF EnableChecked, files, durable, history, counters
<1>2. CASE Done(t)
  BY <1>1, <1>2, QuietDone DEF StoreInv, StoreTypeOK
<1>3. CASE Read(t, "fresh")
  <2>1. PICK r \in Thread : /\ Turn(t, r) /\ Same(r, th[t])
                            /\ r.pc = "f" /\ r.why = "fresh"
    BY <1>3, ReadFacts DEF Reads, StoreInv, StoreTypeOK
  <2>2. Placed(t, r) /\ ~Wrote(r)
    BY <2>1 DEF Placed, Same, Wrote, StoreInv
  <2>3. Quiet(t, r)
    BY <1>1, <2>1, <2>2 DEF Quiet, StoreInv, StoreTypeOK
  <2> QED BY <2>3, QuietStep
<1> QED BY <1>2, <1>3 DEF EnableChecked

(* Every command that begins, in one form. *)
LEMMA BeginKeeps ==
  ASSUME StoreInv, NEW t \in Threads, NEW r \in Thread, Begin(t, r),
         used' \in BOOLEAN, Placed(t, r), ~Wrote(r),
         r.pc \notin {"files", "remove"}
  PROVE  StoreInv'
<1>1. Quiet(t, r)
  BY DEF Quiet, Begin, Turn, files, durable, history, StoreInv, StoreTypeOK
<1> QED BY <1>1, QuietStep

(* A command of the window, or proxy_enable, begins. *)
LEMMA CommandKeeps ==
  ASSUME StoreInv, NEW t \in Threads, WindowCommand(t) \/ proxy_enable(t)
  PROVE  StoreInv'
<1> DEFINE Begins == \E r \in Thread :
                       /\ Begin(t, r) /\ Placed(t, r) /\ ~Wrote(r)
                       /\ r.pc \notin {"files", "remove"} /\ used' \in BOOLEAN
<1>1. Begins
  <2> USE DEF Thread, Commands, Pcs, Reads, Placed, Wrote, ByHand
  <2>0. used \in BOOLEAN /\ endpoint \in Urls \cup {None}
    BY DEF StoreInv, StoreTypeOK
  <2>1. ASSUME NEW s \in Secrets, tunnel_token_save(t, s) PROVE Begins
    <3> DEFINE r == [Idle EXCEPT !.cmd = "save", !.pc = "keyring", !.secret = s]
    <3>1. Begin(t, r) /\ used' = used /\ t = "ui"
      BY <2>1 DEF tunnel_token_save, Start
    <3>2. r \in Thread /\ Placed(t, r) /\ ~Wrote(r) /\ r.pc = "keyring"
      BY <3>1 DEF Idle
    <3> QED BY <2>0, <3>1, <3>2
  <2>2. ASSUME NEW s \in Secrets, configure_direct_tunnel(t, s) PROVE Begins
    <3>1. Begin(t, Direct(s)) /\ used' = used /\ t = "ui"
      BY <2>2 DEF configure_direct_tunnel, Start
    <3>2. Direct(s) \in Thread /\ Placed(t, Direct(s)) /\ ~Wrote(Direct(s)) /\ Direct(s).pc = "f"
      BY <3>1 DEF Idle, Direct
    <3> QED BY <2>0, <3>1, <3>2
  <2>3. ASSUME NEW u \in Urls \cup {None}, NEW s \in Secrets \cup {None},
               tunnel_config_set(t, u, s) \/ tunnel_connect_code_import(t, u, s)
        PROVE Begins
    <3> DEFINE p == IF u = None THEN "kept" ELSE endpoint
               c == IF u # None THEN "url" ELSE "keyring"
               r == [Idle EXCEPT !.cmd = "config", !.secret = s, !.url = u,
                                 !.prev = p, !.pc = c]
    <3>1. Begin(t, r) /\ used' = used /\ t = "ui"
      BY <2>3 DEF tunnel_config_set, tunnel_connect_code_import, Start
    <3>2. p \in Urls \cup {None, "kept"} /\ c \in {"url", "keyring"}
      BY <2>0
    <3> HIDE DEF p, c
    <3>3. r \in Thread /\ Placed(t, r) /\ ~Wrote(r) /\ r.pc = c
      BY <3>1, <3>2 DEF Idle
    <3> QED BY <2>0, <3>1, <3>2, <3>3
  <2>4. ASSUME NEW s \in Secrets \cup {None}, proxy_import_sync(t, s) PROVE Begins
    <3>1. /\ Look \in Thread /\ Placed(t, Look) /\ ~Wrote(Look) /\ Look.pc = "f"
      BY DEF Idle, Look
    <3>2. t = "ui" /\ used' = TRUE
      BY <2>4 DEF proxy_import_sync
    <3>3. Direct(s) \in Thread /\ Placed(t, Direct(s)) /\ ~Wrote(Direct(s)) /\ Direct(s).pc = "f"
      BY <3>2 DEF Idle, Direct
    <3>4. Begin(t, Direct(s)) \/ Begin(t, Look)
      BY <2>4 DEF proxy_import_sync
    <3> QED BY <3>1, <3>2, <3>3, <3>4
  <2>5. ASSUME NEW u \in Urls, proxy_tunnel_set_url(t, u) PROVE Begins
    <3> DEFINE r == [Idle EXCEPT !.cmd = "url", !.pc = "url", !.url = u]
    <3>1. Begin(t, r) /\ used' = used
      BY <2>5 DEF proxy_tunnel_set_url, Start
    <3>2. r \in Thread /\ Placed(t, r) /\ ~Wrote(r) /\ r.pc = "url"
      BY DEF Idle
    <3> QED BY <2>0, <3>1, <3>2
  <2>6. ASSUME tunnel_token_clear(t) PROVE Begins
    <3> DEFINE r == [Idle EXCEPT !.cmd = "clear", !.pc = "delete"]
    <3>1. Begin(t, r) /\ used' = used /\ t = "ui"
      BY <2>6 DEF tunnel_token_clear, Start
    <3>2. r \in Thread /\ Placed(t, r) /\ ~Wrote(r) /\ r.pc = "delete"
      BY <3>1 DEF Idle
    <3> QED BY <2>0, <3>1, <3>2
  <2>7. ASSUME Peek(t) PROVE Begins
    <3>1. /\ Look \in Thread /\ Placed(t, Look) /\ ~Wrote(Look) /\ Look.pc = "f"
      BY DEF Idle, Look
    <3> QED BY <2>0, <2>7, <3>1 DEF Peek, Start
  <2>8. ASSUME proxy_enable(t) PROVE Begins
    <3> DEFINE r == [Idle EXCEPT !.cmd = "enable", !.pc = "f", !.why = "check"]
    <3>1. Begin(t, r) /\ used' = used
      BY <2>8 DEF proxy_enable
    <3>2. r \in Thread /\ Placed(t, r) /\ ~Wrote(r) /\ r.pc = "f"
      BY DEF Idle
    <3> QED BY <2>0, <3>1, <3>2
  <2> QED BY <2>1, <2>2, <2>3, <2>4, <2>5, <2>6, <2>7, <2>8 DEF WindowCommand
<1> QED BY <1>1, BeginKeeps

(* The threads of a step of t that holds the lock, finds it free, or leaves it
   and what a writer relies on alone. *)
LEMMA ThreadsKeep ==
  ASSUME StoreInv, NEW t \in Threads, NEW r \in Thread, Turn(t, r),
         Placed(t, r), Writing(t, r)',
         \/ lock \in {Free, t}
         \/ UNCHANGED <<lock, cleared>> /\ (t = "ui" \/ UNCHANGED saved)
  PROVE  /\ th' \in [Threads -> Thread] /\ th'[t] = r
         /\ \A u \in Threads \ {t} : th'[u] = th[u]
         /\ \A u \in Threads : Placed(u, th[u])' /\ Writing(u, th[u])'
<1>1. /\ th' \in [Threads -> Thread] /\ th'[t] = r
      /\ \A u \in Threads \ {t} : th'[u] = th[u]
  BY TurnFacts DEF StoreInv, StoreTypeOK
<1>2. ASSUME NEW u \in Threads
      PROVE  Placed(u, th[u])' /\ Writing(u, th[u])'
  <2>1. CASE u = t
    <3>1. Writing(u, th[u])'
      BY <1>1, <2>1 DEF Writing
    <3> QED BY <1>1, <2>1, <3>1 DEF Placed, Wrote
  <2>2. CASE u # t
    <3>1. Placed(u, th[u]) /\ Writing(u, th[u]) /\ th'[u] = th[u]
      BY <1>1, <2>2 DEF StoreInv
    <3>2. Writing(u, th[u])'
      BY <3>1, <2>2, StoreAssumption DEF Writing
    <3> QED BY <3>1, <3>2 DEF Placed, Wrote
  <2> QED BY <2>1, <2>2
<1> QED BY <1>1, <1>2

(* Only "ui" runs a command by hand, so only "ui" can have written. *)
LEMMA WroteOnUi ==
  ASSUME StoreInv, NEW u \in Threads, Wrote(th[u])
  PROVE  u = "ui"
BY DEF StoreInv, Placed, Wrote

(* The repair of two differing copies, under the lock
   (cred_self_heal_locked): it makes no file where there is none, and one
   that a person wrote it replaces only with doubt. *)
LEMMA SelfHealKeeps ==
  ASSUME StoreInv, NEW t \in Threads, cred_self_heal_locked(t)
  PROVE  StoreInv'
<1>1. PICK r \in Thread : /\ Turn(t, r) /\ Same(r, th[t])
                          /\ r.pc = "act" /\ r.why = th[t].why
  BY GoFacts DEF cred_self_heal_locked, StoreInv, StoreTypeOK, Pcs
<1>2. Placed(t, r) /\ Writing(t, r)' /\ (Wrote(r) => Wrote(th[t]))
  BY <1>1 DEF StoreInv, Placed, Writing, Wrote, Same
<1>3. /\ th' \in [Threads -> Thread] /\ th'[t] = r
      /\ \A u \in Threads \ {t} : th'[u] = th[u]
      /\ \A u \in Threads : Placed(u, th[u])' /\ Writing(u, th[u])'
  BY <1>1, <1>2, ThreadsKeep DEF cred_self_heal_locked
<1>4. /\ th[t].k \in Secrets \cup {None}
      /\ UNCHANGED <<keyring, endpoint, watch, lock, saved, cleared, used>>
  BY DEF cred_self_heal_locked, StoreInv, StoreTypeOK, Thread, counters, Fault
<1>5. \/ UNCHANGED <<fallback, meta, doubt>> /\ (UNCHANGED baks \/ (fallback # None /\ baks' = TRUE))
      \/ /\ fallback # None /\ baks' = TRUE /\ fallback' = th[t].k
         /\ meta' = [manual |-> FALSE, fp |-> th[t].k]
         /\ doubt' = (doubt \/ FileWins(fallback, keyring, meta))
  BY DEF cred_self_heal_locked
<1>6. StoreTypeOK'
  <2>1. doubt' \in BOOLEAN
    <3>1. doubt \in BOOLEAN
      BY DEF StoreInv, StoreTypeOK
    <3> QED BY <1>5, <3>1, Zenon
  <2>2. fallback' \in Secrets \cup {None}
    BY <1>4, <1>5 DEF StoreInv, StoreTypeOK
  <2>3. baks' \in BOOLEAN
    BY <1>5 DEF StoreInv, StoreTypeOK
  <2>4. meta' \in [manual : BOOLEAN, fp : Secrets \cup {None}]
    <3>1. meta' = meta \/ meta' = [manual |-> FALSE, fp |-> th[t].k]
      BY <1>5, Zenon
    <3>2. /\ meta \in [manual : BOOLEAN, fp : Secrets \cup {None}]
          /\ th[t].k \in Secrets \cup {None}
      BY <1>4 DEF StoreInv, StoreTypeOK
    <3>3. [manual |-> FALSE, fp |-> th[t].k] \in [manual : BOOLEAN, fp : Secrets \cup {None}]
      BY <3>2
    <3> QED BY <3>1, <3>2, <3>3, Zenon
  <2> QED BY <1>3, <1>4, <2>1, <2>2, <2>3, <2>4 DEF StoreInv, StoreTypeOK
<1>7. RecordInv'
  <2>1. CASE UNCHANGED <<fallback, meta, doubt>>
    BY <1>1, <1>2, <1>3, <1>4, <2>1 DEF StoreInv, RecordInv, Recorded, Same
  <2>2. CASE fallback # None /\ doubt' = (doubt \/ FileWins(fallback, keyring, meta))
    <3> SUFFICES ASSUME ~doubt' PROVE saved' = None /\ \A u \in Threads : ~Wrote(th'[u])
      BY DEF RecordInv
    <3>1. ~doubt /\ \A x : ~Recorded(x)
      BY <2>2 DEF Recorded, FileWins
    <3>2. saved = None /\ \A u \in Threads : ~Wrote(th[u])
      BY <3>1 DEF StoreInv, RecordInv
    <3> QED BY <1>2, <1>3, <1>4, <3>2
  <2> QED BY <1>5, <2>1, <2>2
<1>8. ClearedStaysEmpty'
  BY <1>4, <1>5 DEF StoreInv, ClearedStaysEmpty
<1> QED BY <1>3, <1>6, <1>7, <1>8 DEF StoreInv

(* The first write of cred_set_impl_with_source: the keyring. *)
LEMMA SetKeyringKeeps ==
  ASSUME StoreInv, NEW t \in Threads, SetKeyring(t)
  PROVE  StoreInv'
<1>1. PICK r \in Thread : /\ Turn(t, r) /\ Same(r, th[t])
                          /\ r.pc = "files" /\ r.why = th[t].why
  BY GoFacts DEF SetKeyring, StoreInv, StoreTypeOK, Pcs
<1>2. Placed(t, r) /\ Writing(t, r)' /\ (Wrote(r) => Wrote(th[t]))
  BY <1>1 DEF StoreInv, Placed, Writing, Wrote, Same, SetKeyring
<1>3. /\ th' \in [Threads -> Thread] /\ th'[t] = r
      /\ \A u \in Threads \ {t} : th'[u] = th[u]
      /\ \A u \in Threads : Placed(u, th[u])' /\ Writing(u, th[u])'
  BY <1>1, <1>2, ThreadsKeep DEF SetKeyring
<1>4. th[t].secret \in Secrets \cup {None}
  BY DEF StoreInv, StoreTypeOK, Thread
<1>5. StoreTypeOK'
  BY <1>3, <1>4 DEF StoreInv, StoreTypeOK, SetKeyring, counters
<1>6. RecordInv'
  BY <1>1, <1>2, <1>3 DEF StoreInv, RecordInv, Recorded, Same, SetKeyring
<1>7. ClearedStaysEmpty'
  BY DEF ClearedStaysEmpty, SetKeyring
<1> QED BY <1>3, <1>5, <1>6, <1>7 DEF StoreInv

(* The second: the file and its audit record; written by a command it ends a
   doubt. *)
LEMMA SetFilesKeeps ==
  ASSUME StoreInv, NEW t \in Threads, SetFiles(t)
  PROVE  StoreInv'
<1>0. /\ th[t] \in Thread /\ th \in [Threads -> Thread]
      /\ lock = t /\ ~cleared /\ (t = "ui" => saved = None) /\ Placed(t, th[t])
  BY DEF StoreInv, StoreTypeOK, SetFiles, Writing, At
<1>1. PICK r \in Thread : Turn(t, r) /\ Same(r, th[t]) /\ Placed(t, r) /\ r.pc \in {"send", "f"}
  <2>1. CASE th[t].cmd = "heal" /\ Go(t, "send")
    <3>1. PICK r \in Thread : Turn(t, r) /\ Same(r, th[t]) /\ r.pc = "send"
      BY <1>0, <2>1, GoFacts DEF Pcs
    <3> QED BY <1>0, <2>1, <3>1 DEF Placed, Same
  <2>2. CASE Read(t, "verify")
    <3>1. PICK r \in Thread : Turn(t, r) /\ Same(r, th[t]) /\ r.pc = "f"
      BY <1>0, <2>2, ReadFacts DEF Reads
    <3> QED BY <1>0, <3>1 DEF Placed, Same
  <2> QED BY <2>1, <2>2 DEF SetFiles
<1>2. /\ th' \in [Threads -> Thread] /\ th'[t] = r
      /\ \A u \in Threads \ {t} : th'[u] = th[u]
      /\ \A u \in Threads : Placed(u, th[u])' /\ Writing(u, th[u])'
  BY <1>0, <1>1, ThreadsKeep DEF Writing
<1>3. /\ UNCHANGED <<keyring, baks, endpoint, watch, saved, cleared, used>>
      /\ lock' = Free /\ fallback' = th[t].secret
      /\ \/ meta' = [manual |-> Manual(t), fp |-> th[t].secret] /\ doubt' = ~Manual(t)
         \/ UNCHANGED meta /\ doubt' = TRUE
  BY DEF SetFiles, counters, Fault
<1>4. StoreTypeOK'
  <2>1. th[t].secret \in Secrets \cup {None} /\ Manual(t) \in BOOLEAN
    BY <1>0 DEF Thread, Manual
  <2>2. doubt' \in BOOLEAN
    BY <1>3, <2>1, Zenon
  <2>3. meta' \in [manual : BOOLEAN, fp : Secrets \cup {None}]
    BY <1>3, <2>1 DEF StoreInv, StoreTypeOK
  <2> QED BY <1>2, <1>3, <2>1, <2>2, <2>3 DEF StoreInv, StoreTypeOK
<1>5. RecordInv'
  <2> SUFFICES ASSUME ~doubt' PROVE RecordInv'
    BY DEF RecordInv, Recorded
  <2>1. Manual(t) /\ meta' = [manual |-> TRUE, fp |-> th[t].secret]
    <3>1. Manual(t)
      BY <1>3
    <3> QED BY <1>3, <3>1
  <2>2. t = "ui" /\ saved' = None
    BY <1>0, <1>3, <2>1 DEF Manual, Placed, ByHand
  <2>3. ASSUME NEW u \in Threads, Wrote(th'[u])
        PROVE  fallback' = th'[u].secret
    <3>1. u = t
      BY <1>2, <2>2, <2>3, WroteOnUi
    <3> QED BY <1>1, <1>2, <1>3, <3>1 DEF Same
  <2>4. meta'.manual /\ meta'.fp = fallback'
    BY <1>3, <2>1
  <2> QED BY <2>2, <2>3, <2>4 DEF RecordInv, Recorded, Wrote
<1>6. ClearedStaysEmpty'
  BY <1>0, <1>3 DEF ClearedStaysEmpty
<1> QED BY <1>2, <1>4, <1>5, <1>6 DEF StoreInv

(* The first step of cred_delete_impl_with_source. *)
LEMMA DeleteKeyringKeeps ==
  ASSUME StoreInv, NEW t \in Threads, DeleteKeyring(t)
  PROVE  StoreInv'
<1>1. CASE Done(t) /\ Fault /\ UNCHANGED <<keyring, lock, saved>>
  BY <1>1, QuietDone DEF DeleteKeyring, StoreInv, StoreTypeOK, files, history, Fault
<1>2. CASE /\ keyring' \in {keyring, None} /\ lock' = t /\ saved' = None
           /\ Go(t, "remove") /\ used' = used
  <2>1. PICK r \in Thread : /\ Turn(t, r) /\ Same(r, th[t])
                            /\ r.pc = "remove" /\ r.why = th[t].why
    BY <1>2, GoFacts DEF StoreInv, StoreTypeOK, Pcs
  <2>2. Placed(t, r) /\ Writing(t, r)' /\ (Wrote(r) => Wrote(th[t]))
    BY <1>2, <2>1 DEF StoreInv, Placed, Writing, Wrote, Same, DeleteKeyring, At
  <2>3. /\ th' \in [Threads -> Thread] /\ th'[t] = r
        /\ \A u \in Threads \ {t} : th'[u] = th[u]
        /\ \A u \in Threads : Placed(u, th[u])' /\ Writing(u, th[u])'
    BY <2>1, <2>2, ThreadsKeep DEF DeleteKeyring
  <2>4. StoreTypeOK'
    BY <1>2, <2>3 DEF StoreInv, StoreTypeOK, DeleteKeyring, counters
  <2>5. RecordInv'
    BY <1>2, <2>1, <2>2, <2>3 DEF StoreInv, RecordInv, Recorded, Same, DeleteKeyring
  <2>6. ClearedStaysEmpty'
    BY <1>2 DEF StoreInv, ClearedStaysEmpty, DeleteKeyring
  <2> QED BY <2>3, <2>4, <2>5, <2>6 DEF StoreInv
<1> QED BY <1>1, <1>2 DEF DeleteKeyring, Fault, counters

(* The second (cred_remove_fallback_all, the tombstone): the store counts as
   cleared if everything could be removed. *)
LEMMA DeleteFilesKeeps ==
  ASSUME StoreInv, NEW t \in Threads, DeleteFiles(t)
  PROVE  StoreInv'
<1>0. /\ th[t].cmd = "clear" /\ lock = t /\ t = "ui" /\ saved = None
      /\ Placed(t, th[t])
  BY DEF StoreInv, DeleteFiles, Writing, Placed, At
<1>1. PICK r \in Thread : /\ Turn(t, r) /\ Same(r, th[t])
                          /\ r.pc = "f" /\ r.why = "load"
  BY ReadFacts DEF DeleteFiles, StoreInv, StoreTypeOK, Reads
<1>2. Placed(t, r) /\ Writing(t, r)' /\ ~Wrote(r)
  BY <1>0, <1>1 DEF Placed, Writing, Wrote, Same, ByHand
<1>3. /\ th' \in [Threads -> Thread] /\ th'[t] = r
      /\ \A u \in Threads \ {t} : th'[u] = th[u]
      /\ \A u \in Threads : Placed(u, th[u])' /\ Writing(u, th[u])'
  BY <1>0, <1>1, <1>2, ThreadsKeep
<1>4. StoreTypeOK'
  <2>1. /\ fallback' \in {fallback, None} /\ baks' \in {baks, FALSE}
        /\ meta' \in {meta, NoMeta} /\ cleared' \in BOOLEAN /\ used' = used
    BY DEF DeleteFiles, Fault, counters
  <2>2. NoMeta \in [manual : BOOLEAN, fp : Secrets \cup {None}]
    BY DEF NoMeta
  <2> QED BY <1>3, <2>1, <2>2 DEF StoreInv, StoreTypeOK, DeleteFiles
<1>5. RecordInv'
  <2>1. ASSUME NEW u \in Threads PROVE ~Wrote(th'[u])
    BY <1>0, <1>2, <1>3, WroteOnUi
  <2> QED BY <1>0, <2>1 DEF RecordInv, Recorded, DeleteFiles, Wrote
<1>6. ClearedStaysEmpty'
  BY DEF ClearedStaysEmpty, DeleteFiles
<1> QED BY <1>3, <1>4, <1>5, <1>6 DEF StoreInv

(* A command that is reported done: what it saved, it wrote. *)
LEMMA SentKeeps ==
  ASSUME StoreInv, NEW t \in Threads, Done(t), UNCHANGED <<files, endpoint, lock, cleared, doubt>>,
         used' \in BOOLEAN,
         watch' \in [url : Urls \cup {None}, token : Secrets \cup {None}],
         \/ UNCHANGED saved
         \/ Wrote(th[t]) /\ saved' = th[t].secret
  PROVE  StoreInv'
<1>1. Idle \in Thread /\ Turn(t, Idle) /\ Placed(t, Idle) /\ Writing(t, Idle)' /\ ~Wrote(Idle)
  BY IdleFacts DEF Done, Turn, Writing
<1>2. /\ th' \in [Threads -> Thread] /\ th'[t] = Idle
      /\ \A u \in Threads \ {t} : th'[u] = th[u]
      /\ \A u \in Threads : Placed(u, th[u])' /\ Writing(u, th[u])'
  <2>1. t = "ui" \/ UNCHANGED saved
    BY WroteOnUi
  <2> QED BY <1>1, <2>1, ThreadsKeep
<1>3. StoreTypeOK'
  <2>1. th[t].secret \in Secrets \cup {None}
    BY DEF StoreInv, StoreTypeOK, Thread
  <2> QED BY <1>2, <2>1 DEF StoreInv, StoreTypeOK, files
<1>4. RecordInv'
  BY <1>1, <1>2 DEF StoreInv, RecordInv, Recorded, files
<1>5. ClearedStaysEmpty'
  BY DEF StoreInv, ClearedStaysEmpty, files
<1> QED BY <1>2, <1>3, <1>4, <1>5 DEF StoreInv

(* What a command has written is sent to the engine, and the command reports
   success. *)
LEMMA SendKeeps ==
  ASSUME StoreInv, NEW t \in Threads, Send(t)
  PROVE  StoreInv'
<1>1. /\ th[t].secret \in Secrets \cup {None} /\ th[t].url \in Urls \cup {None}
      /\ used \in BOOLEAN /\ Placed(t, th[t])
  BY DEF StoreInv, StoreTypeOK, Thread
<1>2. \/ UNCHANGED saved
      \/ Wrote(th[t]) /\ saved' = th[t].secret
  BY <1>1 DEF Send, At, Placed, Manual
<1>3. /\ watch' \in [url : Urls \cup {None}, token : Secrets \cup {None}]
      /\ used' = used /\ Done(t) /\ UNCHANGED <<files, endpoint, lock, cleared, doubt>>
  BY <1>1 DEF Send, counters
<1> QED BY <1>1, <1>2, <1>3, SentKeeps

(* What was loaded is sent to the engine. *)
LEMMA SendLoadedKeeps ==
  ASSUME StoreInv, NEW t \in Threads, SendLoaded(t)
  PROVE  StoreInv'
<1>1. used \in BOOLEAN /\ Placed(t, th[t])
  BY DEF StoreInv, StoreTypeOK
<1>2. \/ UNCHANGED saved
      \/ Wrote(th[t]) /\ saved' = th[t].secret
  BY <1>1 DEF SendLoaded, Placed, Wrote, ByHand
<1>3. watch' \in [url : Urls \cup {None}, token : Secrets \cup {None}]
  BY LoadedType DEF SendLoaded, StoreInv
<1>4. used' = used /\ Done(t) /\ UNCHANGED <<files, endpoint, lock, cleared, doubt>>
  BY DEF SendLoaded, counters, Fault
<1> QED BY <1>1, <1>2, <1>3, <1>4, SentKeeps

(* Another program writes the keyring entry. *)
LEMMA OutsideKeeps ==
  ASSUME StoreInv, NEW s \in Secrets, Outside(s)
  PROVE  StoreInv'
<1>1. StoreTypeOK'
  BY DEF StoreInv, StoreTypeOK, Outside, Fault
<1>2. ASSUME NEW u \in Threads PROVE Placed(u, th[u])' /\ Writing(u, th[u])'
  <2>1. Placed(u, th[u])'
    BY DEF StoreInv, Outside, Placed, Wrote
  <2>2. Writing(u, th[u])'
    BY DEF StoreInv, Outside, Writing
  <2> QED BY <2>1, <2>2
<1>3. RecordInv'
  BY DEF StoreInv, Outside, RecordInv, Recorded, Wrote
<1>4. ClearedStaysEmpty'
  BY DEF Outside, ClearedStaysEmpty
<1> QED BY <1>1, <1>2, <1>3, <1>4 DEF StoreInv

(* The process ends and starts again: the lock and every command in progress
   are gone, the files stay. *)
LEMMA CrashKeeps ==
  ASSUME StoreInv, Crash
  PROVE  StoreInv'
<1>1. \A u \in Threads : th'[u] = Idle
  BY DEF Crash
<1>2. StoreTypeOK'
  BY IdleFacts, StoreAssumption DEF StoreInv, StoreTypeOK, Crash, durable, files, NoConfig
<1>3. ASSUME NEW u \in Threads PROVE Placed(u, th[u])' /\ Writing(u, th[u])' /\ ~Wrote(th'[u])
  <2>1. Placed(u, th'[u]) /\ ~Wrote(th'[u])
    BY <1>1, IdleFacts
  <2>2. Writing(u, th[u])'
    BY <1>1, IdleFacts DEF Writing
  <2> QED BY <2>1, <2>2 DEF Placed, Wrote
<1>4. RecordInv'
  BY <1>3 DEF StoreInv, Crash, RecordInv, Recorded, Wrote, durable, files
<1>5. ClearedStaysEmpty'
  BY DEF StoreInv, Crash, ClearedStaysEmpty, durable, files
<1> QED BY <1>2, <1>3, <1>4, <1>5 DEF StoreInv

(* Every step of a thread within the store. *)
LEMMA StoreStepKeeps ==
  ASSUME StoreInv, NEW t \in Threads, StoreStep(t)
  PROVE  StoreInv'
BY ReadKeeps, SelfHealKeeps, SetKeyringKeeps, FailsKeeps, SetFilesKeeps,
   DeleteKeyringKeeps, DeleteFilesKeeps, WriteUrlKeeps, EndsKeep, VerifyKeeps,
   EndpointKeeps, SendKeeps, SendLoadedKeeps, EnableCheckedKeeps
DEF StoreStep

(* The engine's own steps: the reads it begins, and what it does with them. *)
LEMMA ConnKeeps ==
  ASSUME StoreInv, Conn
  PROVE  StoreInv'
<1>0. /\ Worker \in Threads /\ th \in [Threads -> Thread] /\ th[Worker] \in Thread
      /\ used \in BOOLEAN /\ endpoint \in Urls \cup {None}
      /\ watch \in [url : Urls \cup {None}, token : Secrets \cup {None}]
  BY EngineAssumption DEF StoreInv, StoreTypeOK
<1>1. CASE UNCHANGED storeVars
  BY <1>1 DEF StoreInv, storeVars, durable, files, counters, history, StoreTypeOK,
     RecordInv, Recorded, ClearedStaysEmpty, Placed, Writing, Wrote
<1>2. CASE Unauthorized \/ Missing
  <2>1. PICK c \in {"heal", "refresh"} :
          Turn(Worker, [Idle EXCEPT !.cmd = c, !.pc = "f", !.why = "reload"])
    BY <1>2 DEF Unauthorized, Missing, Turn
  <2> DEFINE r == [Idle EXCEPT !.cmd = c, !.pc = "f", !.why = "reload"]
  <2>2. r \in Thread /\ Placed(Worker, r) /\ ~Wrote(r) /\ r.pc = "f"
    BY DEF Idle, Thread, Commands, Pcs, Reads, Placed, Wrote, ByHand
  <2>3. UNCHANGED <<files, history, lock, endpoint, used, watch>>
    BY <1>2 DEF Unauthorized, Missing, durable, counters
  <2> HIDE DEF r
  <2>4. Quiet(Worker, r)
    BY <1>0, <2>1, <2>2, <2>3 DEF Quiet, r
  <2> QED BY <1>0, <2>2, <2>4, QuietStep
<1>3. CASE HealDecide
  <2>1. UNCHANGED <<files, history, lock, endpoint, used, watch>>
    BY <1>3 DEF HealDecide, durable, counters
  <2>2. CASE th' = [th EXCEPT ![Worker] = Idle]
    BY <1>0, <2>1, <2>2, QuietDone DEF Done
  <2>3. CASE th' = [th EXCEPT ![Worker] = [Forget(@) EXCEPT
                      !.pc = "keyring", !.why = "none",
                      !.url = Loaded(Worker).url, !.secret = th[Worker].token]]
    <3> DEFINE u == Loaded(Worker).url
               r == [Forget(th[Worker]) EXCEPT !.pc = "keyring", !.why = "none",
                       !.url = u, !.secret = th[Worker].token]
    <3>1. Turn(Worker, r) /\ u \in Urls \cup {None} /\ th[Worker].cmd = "heal"
      BY <1>0, <1>3, <2>3, LoadedType DEF Turn, HealDecide, Reloaded, StoreInv
    <3> HIDE DEF u
    <3>2. r \in Thread /\ r.cmd = "heal" /\ r.pc = "keyring"
      BY <1>0, <3>1 DEF Thread, Forget, Pcs, Reads
    <3>3. PICK q \in Thread : q = r
      BY <3>2
    <3> HIDE DEF r
    <3>4. Placed(Worker, q) /\ ~Wrote(q)
      BY <3>2, <3>3 DEF Placed, Wrote, ByHand
    <3>5. Quiet(Worker, q)
      BY <1>0, <2>1, <3>1, <3>2, <3>3, <3>4 DEF Quiet
    <3> QED BY <1>0, <3>5, QuietStep
  <2> QED BY <1>3, <2>2, <2>3 DEF HealDecide
<1>4. CASE Refreshed
  <2>1. UNCHANGED <<files, history, lock, endpoint, used>> /\ Done(Worker)
    BY <1>4 DEF Refreshed, durable, counters, Done
  <2>2. watch' \in [url : Urls \cup {None}, token : Secrets \cup {None}]
    BY <1>0, <1>4, LoadedType DEF Refreshed, StoreInv
  <2> QED BY <1>0, <2>1, <2>2, QuietDone
<1> QED BY <1>1, <1>2, <1>3, <1>4
        DEF Conn, Attempt, CooldownOver, connect_and_relay, Established, Unreachable, UnauthorizedCooling,
            HealedDial, MissingCooling

(* The invariant holds in every state the desktop application reaches. *)
LEMMA StoreInductive ==
  Init /\ [][Next]_vars => []StoreInv
<1>1. Init => StoreInv
  <2> SUFFICES ASSUME Init PROVE StoreInv
    OBVIOUS
  <2>1. \A t \in Threads : th[t] = Idle
    BY DEF Init, StoreInit
  <2>2. StoreTypeOK
    <3>1. th \in [Threads -> Thread] /\ watch \in [url : Urls \cup {None}, token : Secrets \cup {None}]
      BY IdleFacts DEF Init, StoreInit, NoConfig
    <3>2. /\ {keyring, fallback, saved} \subseteq Secrets \cup {None}
          /\ {baks, used, cleared, doubt} \subseteq BOOLEAN
          /\ endpoint \in Urls \cup {None} /\ lock \in Threads \cup {Free}
      BY StoreAssumption DEF Init, StoreInit
    <3>3. meta \in [manual : BOOLEAN, fp : Secrets \cup {None}]
      <4>1. meta = NoMeta \/ \E s \in Secrets : meta = [manual |-> TRUE, fp |-> s]
        BY DEF Init, StoreInit
      <4>2. NoMeta \in [manual : BOOLEAN, fp : Secrets \cup {None}]
        BY DEF NoMeta
      <4>3. ASSUME NEW s \in Secrets
            PROVE  [manual |-> TRUE, fp |-> s] \in [manual : BOOLEAN, fp : Secrets \cup {None}]
        OBVIOUS
      <4> QED BY <4>1, <4>2, <4>3, Zenon
    <3> QED BY <3>1, <3>2, <3>3 DEF StoreTypeOK
  <2>3. RecordInv /\ ClearedStaysEmpty
    BY <2>1, IdleFacts DEF Init, StoreInit, RecordInv, Recorded, ClearedStaysEmpty, NoMeta
  <2>4. \A t \in Threads : Placed(t, th[t]) /\ Writing(t, th[t])
    BY <2>1, IdleFacts DEF Writing
  <2> QED BY <2>2, <2>3, <2>4 DEF StoreInv
<1>2. StoreInv /\ [Next]_vars => StoreInv'
  <2> SUFFICES ASSUME StoreInv, [Next]_vars PROVE StoreInv'
    OBVIOUS
  <2>1. CASE UNCHANGED storeVars
    BY <2>1 DEF StoreInv, storeVars, durable, files, counters, history, StoreTypeOK,
       RecordInv, Recorded, ClearedStaysEmpty, Placed, Writing, Wrote
  <2>2. ASSUME NEW t \in Threads, Store(t) PROVE StoreInv'
    BY <2>2, StoreStepKeeps DEF Store
  <2>3. ASSUME NEW t \in Threads, Command(t) PROVE StoreInv'
    BY <2>3, CommandKeeps DEF Command
  <2>4. CASE Conn
    BY <2>4, ConnKeeps
  <2>5. ASSUME NEW s \in Secrets, OutsideWrite(s) PROVE StoreInv'
    BY <2>5, OutsideKeeps DEF OutsideWrite
  <2>6. ASSUME NEW s \in Secrets, Rotate(s) PROVE StoreInv'
    BY <2>6 DEF Rotate, Fault, StoreInv, durable, files, history, StoreTypeOK,
       RecordInv, Recorded, ClearedStaysEmpty, Placed, Writing, Wrote
  <2>7. CASE Crash
    BY <2>7, CrashKeeps
  <2> QED BY <2>1, <2>2, <2>3, <2>4, <2>5, <2>6, <2>7 DEF Next, vars
<1> QED BY <1>1, <1>2, PTL

(* The engine's part of the type invariant. *)
ConnTypeOK ==
  /\ gate \in Secrets /\ rotated \in BOOLEAN
  /\ {strict, cooling} \subseteq BOOLEAN /\ held \in Secrets \cup {None}
  /\ attempt \in 0 .. Retry /\ stage \in Stages

(* The connection task stays within its types; its retries within Retry. *)
LEMMA ConnTypeKeeps ==
  ASSUME StoreTypeOK, ConnTypeOK, [Next]_vars
  PROVE  ConnTypeOK'
<1> USE DEF ConnTypeOK, Stages
<1>0. 0 \in 0 .. Retry /\ (attempt + 1 < Retry => attempt + 1 \in 0 .. Retry)
  BY EngineAssumption
<1>1. CASE UNCHANGED <<world, connVars>>
  BY <1>1 DEF world, connVars
<1>2. CASE UNCHANGED world /\ End /\ cooling' \in BOOLEAN
  BY <1>0, <1>2, Zenon DEF world, End
<1>3. CASE UNCHANGED world /\ Again /\ cooling' \in BOOLEAN
  BY <1>0, <1>2, <1>3 DEF world, Again
<1>4. CASE Conn
  <2>1. ASSUME NEW b \in BOOLEAN, connect_and_relay(b) PROVE ConnTypeOK'
    BY <2>1 DEF connect_and_relay, world
  <2>2. CASE Unauthorized
    BY <2>2 DEF Unauthorized, world, StoreTypeOK
  <2>3. CASE HealDecide
    BY <1>2, <2>3 DEF HealDecide, world
  <2>4. CASE Missing
    BY <2>4 DEF Missing, world
  <2>5. CASE Refreshed
    BY <1>3, <2>5 DEF Refreshed, world
  <2> QED BY <1>2, <1>3, <1>4, <2>1, <2>2, <2>3, <2>4, <2>5
          DEF Conn, Attempt, CooldownOver, Established, Unreachable,
              UnauthorizedCooling, HealedDial, MissingCooling, world
<1>5. ASSUME NEW s \in Secrets, Rotate(s) PROVE ConnTypeOK'
  BY <1>5 DEF Rotate, connVars
<1> QED BY <1>1, <1>2, <1>4, <1>5
        DEF Next, vars, Store, Command, OutsideWrite, Crash

(* Every variable of the store and of the connection task keeps its type,
   the retry counter of connect_and_relay its bound. *)
THEOREM EngineTypeCorrect == Spec => []TypeOK
<1>1. Init => ConnTypeOK
  <2>1. 0 \in 0 .. Retry
    BY EngineAssumption
  <2> QED BY <2>1 DEF Init, ConnTypeOK, Stages
<1>2. StoreInv /\ ConnTypeOK /\ [Next]_vars => ConnTypeOK'
  BY ConnTypeKeeps DEF StoreInv
<1>3. StoreInv /\ ConnTypeOK => TypeOK
  BY DEF StoreInv, TypeOK, ConnTypeOK
<1> QED BY <1>1, <1>2, <1>3, StoreInductive, PTL DEF Spec

(* Once tunnel_token_clear has removed every copy, none comes back through a
   repair that was decided before it, a command that failed or a new start
   (cred_delete_impl_with_source, cred_self_heal_locked), until a secret is
   written again: for every set of threads and secrets and every number of
   commands and faults, removals that fail included. *)
THEOREM ClearedAlwaysEmpty == Spec => []ClearedStaysEmpty
<1>1. StoreInv => ClearedStaysEmpty
  BY DEF StoreInv
<1> QED BY <1>1, StoreInductive, PTL DEF Spec

(* A secret a command reported as saved is what the next start reads,
   whatever another program has put into the keyring since
   (cred_set_impl_with_source, cred_detail_impl), unless a repair decided
   before the save replaced the file after it or the audit record could not
   be written (doubt). *)
THEOREM SavedAlwaysRead == Spec => []SavedIsRead
<1>1. StoreInv => SavedIsRead
  BY DEF StoreInv, RecordInv, Recorded, SavedIsRead, winner, FileWins, StoreTypeOK
<1> QED BY <1>1, StoreInductive, PTL DEF Spec

-----------------------------------------------------------------------------
(* The standby sessions (TunnelPool). *)

(* Dropping the first m elements of a queue. *)
LEMMA DropFront ==
  ASSUME NEW S, NEW q \in Seq(S), NEW m \in Nat, m <= Len(q)
  PROVE  /\ SubSeq(q, m + 1, Len(q)) \in Seq(S)
         /\ Len(SubSeq(q, m + 1, Len(q))) = Len(q) - m
         /\ \A j \in 1..(Len(q) - m) : SubSeq(q, m + 1, Len(q))[j] = q[m + j]
  OBVIOUS

(* Taking one element out of a queue. *)
LEMMA TakeOut ==
  ASSUME NEW S, NEW q \in Seq(S), NEW j \in 1..Len(q)
  PROVE  /\ Without(q, j) \in Seq(S)
         /\ Len(Without(q, j)) = Len(q) - 1
         /\ \A k \in 1..(Len(q) - 1) :
              Without(q, j)[k] = IF k < j THEN q[k] ELSE q[k + 1]
<1>1. /\ SubSeq(q, 1, j - 1) \in Seq(S)
      /\ Len(SubSeq(q, 1, j - 1)) = j - 1
      /\ \A k \in 1..(j - 1) : SubSeq(q, 1, j - 1)[k] = q[k]
  OBVIOUS
<1>2. /\ SubSeq(q, j + 1, Len(q)) \in Seq(S)
      /\ Len(SubSeq(q, j + 1, Len(q))) = Len(q) - j
      /\ \A k \in 1..(Len(q) - j) : SubSeq(q, j + 1, Len(q))[k] = q[j + k]
  OBVIOUS
<1> DEFINE a == SubSeq(q, 1, j - 1)
           b == SubSeq(q, j + 1, Len(q))
<1> HIDE DEF a, b
<1>3. /\ a \in Seq(S) /\ b \in Seq(S) /\ Len(a) = j - 1 /\ Len(b) = Len(q) - j
      /\ \A k \in 1..(j - 1) : a[k] = q[k]
      /\ \A k \in 1..(Len(q) - j) : b[k] = q[j + k]
  BY <1>1, <1>2 DEF a, b
<1>4. a \o b \in Seq(S) /\ Len(a \o b) = Len(q) - 1
  <2>1. a \o b \in Seq(S) /\ Len(a \o b) = Len(a) + Len(b)
    BY <1>3, ConcatProperties
  <2>2. Len(q) \in Nat /\ j \in Nat
    OBVIOUS
  <2> QED BY <1>3, <2>1, <2>2
<1>5. \A k \in 1..(Len(q) - 1) : (a \o b)[k] = IF k < j THEN q[k] ELSE q[k + 1]
  BY <1>3
<1> QED BY <1>4, <1>5 DEF Without, a, b

(* What a step may do to a queue that adds nothing to it. *)
Shrinks(e) ==
  /\ idle'[e] \in Seq(Tokens)
  /\ nold'[e] \in Nat
  /\ nold'[e] <= Len(idle'[e])
  /\ Len(idle'[e]) <= Len(idle[e])
  /\ \A j \in 1..Len(idle'[e]) : \E k \in 1..Len(idle[e]) : idle'[e][j] = idle[e][k]

(* Dropping the expired sessions of a queue shrinks it. *)
LEMMA FreshShrinks ==
  ASSUME PoolTypeOK, AgeInv, NEW e \in Endpoints, idle'[e] = Fresh(e), nold'[e] = 0
  PROVE  Shrinks(e)
<1>1. idle[e] \in Seq(Tokens) /\ nold[e] \in Nat /\ nold[e] <= Len(idle[e])
  BY DEF PoolTypeOK, AgeInv
<1>2. /\ Fresh(e) \in Seq(Tokens)
      /\ Len(Fresh(e)) = Len(idle[e]) - nold[e]
      /\ \A j \in 1..(Len(idle[e]) - nold[e]) : Fresh(e)[j] = idle[e][nold[e] + j]
  BY <1>1, DropFront DEF Fresh
<1>3. ASSUME NEW j \in 1..Len(Fresh(e))
      PROVE  \E k \in 1..Len(idle[e]) : Fresh(e)[j] = idle[e][k]
  <2>1. nold[e] + j \in 1..Len(idle[e]) /\ Fresh(e)[j] = idle[e][nold[e] + j]
    BY <1>1, <1>2
  <2> QED BY <2>1
<1> QED BY <1>1, <1>2, <1>3 DEF Shrinks

(* A queue that is left alone shrinks, trivially; so does one that is emptied. *)
LEMMA SameShrinks ==
  ASSUME PoolTypeOK, AgeInv, NEW e \in Endpoints,
         \/ idle'[e] = idle[e] /\ nold'[e] = nold[e]
         \/ idle'[e] = <<>> /\ nold'[e] = 0
  PROVE  Shrinks(e)
<1>1. idle[e] \in Seq(Tokens) /\ nold[e] \in Nat /\ nold[e] <= Len(idle[e])
  BY DEF PoolTypeOK, AgeInv
<1>2. CASE idle'[e] = idle[e] /\ nold'[e] = nold[e]
  BY <1>1, <1>2 DEF Shrinks
<1>3. CASE idle'[e] = <<>> /\ nold'[e] = 0
  BY <1>1, <1>3 DEF Shrinks
<1> QED BY <1>2, <1>3

(* A queue from which a session is checked out shrinks by that session. *)
LEMMA HitShrinks ==
  ASSUME PoolTypeOK, AgeInv, NEW e \in Endpoints, NEW t, NEW j \in Matches(e, t),
         idle'[e] = Without(idle[e], j), nold'[e] = nold[e]
  PROVE  Shrinks(e)
<1>1. idle[e] \in Seq(Tokens) /\ nold[e] \in Nat /\ nold[e] <= Len(idle[e])
  BY DEF PoolTypeOK, AgeInv
<1>2. j \in nold[e] + 1 .. Len(idle[e])
  BY DEF Matches
<1>3. j \in 1..Len(idle[e]) /\ nold[e] <= Len(idle[e]) - 1
  BY <1>1, <1>2
<1>4. /\ idle'[e] \in Seq(Tokens)
      /\ Len(idle'[e]) = Len(idle[e]) - 1
      /\ \A k \in 1..(Len(idle[e]) - 1) :
           idle'[e][k] = IF k < j THEN idle[e][k] ELSE idle[e][k + 1]
  BY <1>1, <1>3, TakeOut
<1>5. ASSUME NEW k \in 1..Len(idle'[e])
      PROVE  \E m \in 1..Len(idle[e]) : idle'[e][k] = idle[e][m]
  BY <1>1, <1>3, <1>4
<1> QED BY <1>1, <1>3, <1>4, <1>5 DEF Shrinks

(* Callers, the clock and every step of maintain() but a successful connect
   only take sessions out. *)
LEMMA QueueSteps ==
  ASSUME PoolTypeOK, AgeInv, [PoolNext]_poolVars, ~ConnectOk
  PROVE  /\ \A e \in Endpoints : Shrinks(e)
         /\ idle' \in [Endpoints -> Seq(Tokens)]
         /\ nold' \in [Endpoints -> Nat]
<1>0. /\ idle \in [Endpoints -> Seq(Tokens)]
      /\ nold \in [Endpoints -> Nat]
  BY DEF PoolTypeOK
<1>a. ASSUME NEW o \in Orders, NEW t \in Tokens, CheckoutHit(o, t)
      PROVE  /\ \A e \in Endpoints : Shrinks(e)
             /\ idle' = [e \in Endpoints |-> idle'[e]]
             /\ nold' = [e \in Endpoints |-> nold'[e]]
  <2>0. PICK k \in 1..Len(o) :
          /\ \A f \in {o[m] : m \in 1..(k - 1)} : Matches(f, t) = {}
          /\ \E j \in Matches(o[k], t) :
               idle' = [f \in Endpoints |->
                         IF f = o[k] THEN Without(idle[f], j)
                         ELSE IF f \in {o[m] : m \in 1..(k - 1)} THEN Fresh(f)
                         ELSE idle[f]]
          /\ nold' = [f \in Endpoints |->
                       IF f \in {o[m] : m \in 1..(k - 1)} THEN 0 ELSE nold[f]]
    BY <1>a DEF CheckoutHit
  <2> DEFINE before == {o[m] : m \in 1..(k - 1)}
  <2>1. PICK j \in Matches(o[k], t) :
          /\ idle' = [f \in Endpoints |->
                       IF f = o[k] THEN Without(idle[f], j)
                       ELSE IF f \in before THEN Fresh(f) ELSE idle[f]]
          /\ nold' = [f \in Endpoints |-> IF f \in before THEN 0 ELSE nold[f]]
          /\ \A f \in before : Matches(f, t) = {}
    BY <2>0
  <2> HIDE DEF before
  <2>2. o[k] \notin before
    BY <2>1
  <2>3. ASSUME NEW e \in Endpoints
        PROVE  Shrinks(e)
    <3>1. CASE e = o[k]
      <4>1. idle'[e] = Without(idle[e], j) /\ nold'[e] = nold[e]
        BY <2>1, <2>2, <3>1
      <4> QED BY <2>1, <3>1, <4>1, HitShrinks
    <3>2. CASE e # o[k] /\ e \in before
      <4>1. idle'[e] = Fresh(e) /\ nold'[e] = 0
        BY <2>1, <3>2
      <4> QED BY <4>1, FreshShrinks
    <3>3. CASE e # o[k] /\ e \notin before
      <4>1. idle'[e] = idle[e] /\ nold'[e] = nold[e]
        BY <2>1, <3>3
      <4> QED BY <4>1, SameShrinks
    <3> QED BY <3>1, <3>2, <3>3
  <2> QED BY <2>1, <2>3
<1>b. ASSUME NEW o \in Orders, NEW t \in Tokens, CheckoutMiss(o, t)
      PROVE  /\ \A e \in Endpoints : Shrinks(e)
             /\ idle' = [e \in Endpoints |-> idle'[e]]
             /\ nold' = [e \in Endpoints |-> nold'[e]]
  <2> DEFINE seen == {o[m] : m \in 1..Len(o)}
  <2>1. /\ idle' = [f \in Endpoints |-> IF f \in seen THEN Fresh(f) ELSE idle[f]]
        /\ nold' = [f \in Endpoints |-> IF f \in seen THEN 0 ELSE nold[f]]
    BY <1>b DEF CheckoutMiss
  <2> HIDE DEF seen
  <2>2. ASSUME NEW e \in Endpoints
        PROVE  Shrinks(e)
    <3>1. CASE e \in seen
      BY <2>1, <3>1, FreshShrinks
    <3>2. CASE e \notin seen
      BY <2>1, <3>2, SameShrinks
    <3> QED BY <3>1, <3>2
  <2> QED BY <2>1, <2>2
<1>c. CASE Clear
  <2>1. \A e \in Endpoints : idle'[e] = <<>> /\ nold'[e] = 0
    BY <1>c DEF Clear
  <2>2. \A e \in Endpoints : Shrinks(e)
    BY <2>1, SameShrinks
  <2> QED BY <1>c, <2>2 DEF Clear, Shrinks
<1>d. CASE Retain
  <2>1. \A e \in Endpoints : idle'[e] = Fresh(e) /\ nold'[e] = 0
    BY <1>d DEF Retain
  <2>2. \A e \in Endpoints : Shrinks(e)
    BY <2>1, FreshShrinks
  <2> QED BY <1>d, <2>2 DEF Retain, Shrinks
<1>e. CASE UNCHANGED pool
  <2>1. \A e \in Endpoints : idle'[e] = idle[e] /\ nold'[e] = nold[e]
    BY <1>e DEF pool
  <2>2. \A e \in Endpoints : Shrinks(e)
    BY <2>1, SameShrinks
  <2> QED BY <1>0, <1>e, <2>2 DEF pool
<1>f. ASSUME NEW x \in Endpoints, Expire(x)
      PROVE  /\ \A e \in Endpoints : Shrinks(e)
             /\ idle' \in [Endpoints -> Seq(Tokens)]
             /\ nold' \in [Endpoints -> Nat]
  <2>1. idle' = idle /\ nold' = [nold EXCEPT ![x] = @ + 1] /\ nold[x] < Len(idle[x])
    BY <1>f DEF Expire
  <2>2. \A e \in Endpoints : idle[e] \in Seq(Tokens) /\ nold[e] <= Len(idle[e])
    BY <1>0 DEF AgeInv
  <2>3. nold' \in [Endpoints -> Nat]
    BY <1>0, <2>1
  <2>4. \A e \in Endpoints : nold'[e] <= Len(idle[e])
    BY <1>0, <2>1, <2>2
  <2> QED BY <1>0, <2>1, <2>2, <2>3, <2>4 DEF Shrinks
<1>g. CASE maintain
  BY <1>c, <1>d, <1>e, <1>g DEF maintain, Top, Key, KeyMissing, RefillEndpoint,
     EndpointsDone, Connect401, ConnectErr, FuseOver, Wake, WakeUnset
<1>h. CASE Callers
  <2>1. ASSUME /\ \A e \in Endpoints : Shrinks(e)
               /\ idle' = [e \in Endpoints |-> idle'[e]]
               /\ nold' = [e \in Endpoints |-> nold'[e]]
        PROVE  idle' \in [Endpoints -> Seq(Tokens)] /\ nold' \in [Endpoints -> Nat]
    <3>1. \A e \in Endpoints : idle'[e] \in Seq(Tokens) /\ nold'[e] \in Nat
      BY <2>1 DEF Shrinks
    <3> QED BY <2>1, <3>1
  <2> QED BY <1>a, <1>b, <1>c, <1>e, <1>f, <1>h, <2>1
          DEF Callers, invalidate, SendConfig, DropHost
<1> QED BY <1>e, <1>g, <1>h DEF PoolNext, poolVars, pool

-----------------------------------------------------------------------------
(* The variables besides the queues keep their types. *)
LEMMA TypeInductive ==
  ASSUME PoolTypeOK, RoundInv, AgeInv, [PoolNext]_poolVars
  PROVE  PoolTypeOK'
<1>1. CASE ~ConnectOk
  <2>1. idle' \in [Endpoints -> Seq(Tokens)] /\ nold' \in [Endpoints -> Nat]
    BY <1>1, QueueSteps
  <2>2. CASE UNCHANGED poolVars
    BY <2>2 DEF PoolTypeOK, poolVars
  <2>3. CASE Callers
    <3>1. UNCHANGED task
      BY <2>3 DEF Callers, CheckoutHit, CheckoutMiss, invalidate, SendConfig,
         DropHost, Expire, task
    <3>2. cfg' \in Configs \cup {NoPoolConfig} /\ changed' \in BOOLEAN
      BY <2>3 DEF Callers, CheckoutHit, CheckoutMiss, invalidate, SendConfig,
         DropHost, Expire, PoolTypeOK, env
    <3>3. notified' \in BOOLEAN /\ host' \in BOOLEAN
      BY <2>3 DEF Callers, CheckoutHit, CheckoutMiss, invalidate, SendConfig,
         DropHost, Expire, PoolTypeOK, env
    <3> QED BY <2>1, <3>1, <3>2, <3>3 DEF PoolTypeOK, task
  <2>4. CASE RefillEndpoint
    <3>1. need' \in Nat
      BY <2>4, PoolAssumption DEF RefillEndpoint, Deficit, Target, PoolTypeOK, PoolAssumption
    <3> QED BY <2>1, <2>4, <3>1 DEF RefillEndpoint, PoolTypeOK, env, pool
  <2>5. CASE Top \/ Key \/ KeyMissing \/ EndpointsDone
    BY <2>1, <2>5 DEF Top, Key, KeyMissing, EndpointsDone, PoolTypeOK, env
  <2>6. CASE Connect401 \/ ConnectErr \/ FuseOver \/ Wake \/ WakeUnset
    <3>1. /\ UNCHANGED <<cfg, host, cur, lastKey, need>>
          /\ pc' \in {"endpoint", "fused", "top"}
          /\ i' \in Nat \ {0} /\ consec' \in Nat
      BY <2>6 DEF Connect401, ConnectErr, FuseOver, Wake, WakeUnset,
         NextEndpoint, PoolTypeOK, env
    <3>2. changed' \in BOOLEAN /\ notified' \in BOOLEAN
      BY <2>6 DEF Connect401, ConnectErr, FuseOver, Wake, WakeUnset,
         SeeWatch, Timer, PoolTypeOK, env
    <3> QED BY <2>1, <3>1, <3>2 DEF PoolTypeOK
  <2> QED BY <1>1, <2>2, <2>3, <2>4, <2>5, <2>6 DEF PoolNext, maintain
<1>2. CASE ConnectOk
  <2>1. cur.tok \in Tokens
    BY <1>2, PoolAssumption DEF ConnectOk, RoundInv, PoolTypeOK, PoolAssumption, Config
  <2>2. idle' \in [Endpoints -> Seq(Tokens)]
    <3>1. \A e \in Endpoints : Append(idle[e], cur.tok) \in Seq(Tokens)
      BY <2>1, AppendProperties DEF PoolTypeOK
    <3>2. idle' = [idle EXCEPT ![cur.eps[i]] = Append(idle[cur.eps[i]], cur.tok)]
      BY <1>2 DEF ConnectOk
    <3> QED BY <3>1, <3>2 DEF PoolTypeOK
  <2>3. need' \in Nat
    BY <1>2 DEF ConnectOk, RoundInv, PoolTypeOK
  <2> QED BY <1>2, <2>2, <2>3 DEF ConnectOk, PoolTypeOK, env
<1> QED BY <1>1, <1>2

(* A round works from the key it stored, and never past its endpoints. *)
LEMMA RoundInductive ==
  ASSUME PoolTypeOK, RoundInv, [PoolNext]_poolVars
  PROVE  RoundInv'
<1>1. CASE UNCHANGED task
  BY <1>1 DEF task, RoundInv
<1>2. CASE Callers \/ UNCHANGED poolVars
  BY <1>1, <1>2 DEF Callers, CheckoutHit, CheckoutMiss, invalidate, SendConfig,
     DropHost, Expire, task, poolVars
<1>3. CASE RefillEndpoint
  <2>1. need' \in Nat
    BY <1>3, PoolAssumption DEF RefillEndpoint, Deficit, Target, PoolTypeOK, PoolAssumption
  <2> QED BY <1>3, <2>1 DEF RefillEndpoint, RoundInv, PoolTypeOK
<1>4. CASE ConnectOk
  BY <1>4 DEF ConnectOk, RoundInv, PoolTypeOK
<1>5. CASE \/ Top \/ Key \/ KeyMissing \/ EndpointsDone \/ Connect401
          \/ ConnectErr \/ FuseOver \/ Wake \/ WakeUnset
  BY <1>5 DEF Top, Key, KeyMissing, EndpointsDone, Connect401, ConnectErr,
     FuseOver, Wake, WakeUnset, NextEndpoint, RoundInv
<1> QED BY <1>2, <1>3, <1>4, <1>5 DEF PoolNext, maintain

(* The endpoint a round is at is one of the endpoints. *)
LEMMA AtEndpoint ==
  ASSUME PoolTypeOK, RoundInv, pc = "connect"
  PROVE  /\ cur \in Configs /\ cur = lastKey
         /\ cur.eps \in Seq(Endpoints)
         /\ i \in 1..Len(cur.eps)
         /\ cur.eps[i] \in Endpoints
<1>1. cur \in Configs /\ cur = lastKey
  BY DEF PoolTypeOK, RoundInv
<1>2. cur.eps \in Seq(Endpoints)
  BY <1>1, PoolAssumption DEF PoolAssumption, Config
<1>3. i \in 1..Len(cur.eps)
  BY <1>2 DEF RoundInv, PoolTypeOK
<1> QED BY <1>1, <1>2, <1>3

(* The expired sessions of a queue are sessions of that queue. *)
LEMMA AgeInductive ==
  ASSUME PoolTypeOK, RoundInv, AgeInv, [PoolNext]_poolVars
  PROVE  AgeInv'
<1>1. CASE ~ConnectOk
  BY <1>1, QueueSteps DEF Shrinks, AgeInv
<1>2. CASE ConnectOk
  <2> SUFFICES ASSUME NEW e \in Endpoints
               PROVE  nold'[e] <= Len(idle'[e])
    BY DEF AgeInv
  <2>1. nold' = nold /\ idle' = [idle EXCEPT ![cur.eps[i]] = Append(@, cur.tok)]
    BY <1>2 DEF ConnectOk
  <2>2. idle[e] \in Seq(Tokens) /\ nold[e] \in Nat /\ nold[e] <= Len(idle[e])
    BY DEF PoolTypeOK, AgeInv
  <2>3. idle'[e] = idle[e] \/ idle'[e] = Append(idle[e], cur.tok)
    BY <2>1 DEF PoolTypeOK
  <2> QED BY <2>1, <2>2, <2>3
<1> QED BY <1>1, <1>2

(* A key that changes changes with the pool empty. *)
LEMMA KeySteps ==
  ASSUME [PoolNext]_poolVars
  PROVE  lastKey' = lastKey \/ \A e \in Endpoints : idle'[e] = <<>>
<1>1. CASE Key \/ KeyMissing
  BY <1>1 DEF Key, KeyMissing, Clear
<1> QED BY <1>1 DEF PoolNext, maintain, Callers, CheckoutHit, CheckoutMiss,
     invalidate, SendConfig, DropHost, Expire, Top, RefillEndpoint, EndpointsDone,
     ConnectOk, Connect401, ConnectErr, FuseOver, Wake, WakeUnset, task, poolVars

(* No step brings a second credential into the pool. *)
LEMMA CredentialInductive ==
  ASSUME PoolTypeOK, RoundInv, AgeInv, OneCredential, [PoolNext]_poolVars
  PROVE  OneCredential'
<1> SUFFICES ASSUME NEW e \in Endpoints, NEW j \in 1..Len(idle'[e])
             PROVE  lastKey' # NoPoolConfig /\ idle'[e][j] = lastKey'.tok
  BY DEF OneCredential
<1>1. lastKey' = lastKey
  <2>1. CASE idle'[e] = <<>>
    BY <2>1
  <2> QED BY <2>1, KeySteps
<1>2. CASE ~ConnectOk
  <2>1. Shrinks(e)
    BY <1>2, QueueSteps
  <2>2. PICK k \in 1..Len(idle[e]) : idle'[e][j] = idle[e][k]
    BY <2>1 DEF Shrinks
  <2> QED BY <1>1, <2>2 DEF OneCredential
<1>3. CASE ConnectOk
  <2>1. /\ pc = "connect"
        /\ idle' = [idle EXCEPT ![cur.eps[i]] = Append(@, cur.tok)]
    BY <1>3 DEF ConnectOk
  <2>2. cur = lastKey /\ lastKey # NoPoolConfig
    BY <2>1 DEF RoundInv
  <2>3. idle[e] \in Seq(Tokens)
    BY DEF PoolTypeOK
  <2>4. CASE idle'[e] = idle[e]
    BY <1>1, <2>4 DEF OneCredential
  <2>5. CASE idle'[e] = Append(idle[e], cur.tok)
    <3>1. j \in 1..Len(idle[e]) \/ j = Len(idle[e]) + 1
      BY <2>3, <2>5
    <3>2. CASE j \in 1..Len(idle[e])
      BY <1>1, <2>3, <2>5, <3>2 DEF OneCredential
    <3>3. CASE j = Len(idle[e]) + 1
      BY <1>1, <2>2, <2>3, <2>5, <3>3
    <3> QED BY <3>1, <3>2, <3>3
  <2> QED BY <2>1, <2>4, <2>5 DEF PoolTypeOK
<1> QED BY <1>2, <1>3

(* What a round opens fits into what the queues are planned to hold. *)
LEMMA PlanInductive ==
  ASSUME PoolTypeOK, RoundInv, AgeInv, PlanInv, [PoolNext]_poolVars
  PROVE  PlanInv'
<1> SUFFICES ASSUME NEW e \in Endpoints
             PROVE  Len(idle'[e]) + Pending(e)' <= Target(lastKey, e)'
  BY DEF PlanInv
<1>0. /\ Target(lastKey, e) \in Nat /\ Target(lastKey, e)' \in Nat
      /\ Target(cur, e) \in Nat
      /\ need \in Nat /\ Pending(e) \in Nat
      /\ idle[e] \in Seq(Tokens) /\ Len(idle[e]) \in Nat
      /\ Len(idle[e]) + Pending(e) <= Target(lastKey, e)
  BY PoolAssumption DEF PoolAssumption, Target, Pending, PoolTypeOK, PlanInv
<1>1. ASSUME ~ConnectOk, Pending(e)' <= Pending(e), lastKey' = lastKey,
             Pending(e)' \in Nat
      PROVE  Len(idle'[e]) + Pending(e)' <= Target(lastKey, e)'
  <2>1. Shrinks(e)
    BY <1>1, QueueSteps
  <2>2. Len(idle'[e]) \in Nat /\ Len(idle'[e]) <= Len(idle[e])
    BY <2>1 DEF Shrinks
  <2>3. Target(lastKey, e)' = Target(lastKey, e)
    BY <1>1 DEF Target, Uses
  <2> QED BY <1>0, <1>1, <2>2, <2>3
<1>2. CASE UNCHANGED task /\ ~ConnectOk
  <2>1. Pending(e)' = Pending(e) /\ lastKey' = lastKey
    BY <1>2 DEF task, Pending
  <2> QED BY <1>0, <1>1, <1>2, <2>1
<1>3. CASE UNCHANGED poolVars \/ Callers
  <2>1. UNCHANGED task
    BY <1>3 DEF Callers, CheckoutHit, CheckoutMiss, invalidate, SendConfig,
       DropHost, Expire, task, poolVars
  <2>2. ~ConnectOk
    BY <2>1 DEF ConnectOk, task, RoundInv, PoolTypeOK
  <2> QED BY <1>2, <2>1, <2>2
<1>4. CASE Key \/ KeyMissing
  <2>1. pc' # "connect" /\ pc # "connect"
    BY <1>4 DEF Key, KeyMissing
  <2>2. Pending(e)' = 0 /\ Pending(e) = 0 /\ ~ConnectOk
    BY <2>1 DEF Pending, ConnectOk
  <2>3. CASE lastKey' = lastKey
    BY <1>1, <2>2, <2>3
  <2>4. CASE idle'[e] = <<>>
    BY <1>0, <2>2, <2>4
  <2> QED BY <2>3, <2>4, KeySteps
<1>5. CASE \/ Top \/ EndpointsDone \/ Connect401 \/ ConnectErr \/ FuseOver
          \/ Wake \/ WakeUnset
  <2>1. pc' # "connect" /\ lastKey' = lastKey
    BY <1>5 DEF Top, EndpointsDone, Connect401, ConnectErr, FuseOver, Wake,
       WakeUnset, NextEndpoint
  <2>2. Pending(e)' = 0
    BY <2>1 DEF Pending
  <2>3. CASE ~ConnectOk
    BY <1>0, <1>1, <2>1, <2>2, <2>3
  <2>4. CASE ConnectOk
    <3> QED BY <1>5, <2>4 DEF ConnectOk, Top, EndpointsDone, Connect401,
       ConnectErr, FuseOver, Wake, WakeUnset, PoolTypeOK
  <2> QED BY <2>3, <2>4
<1>6. CASE RefillEndpoint
  <2>1. /\ UNCHANGED <<idle, cur, lastKey>>
        /\ pc = "endpoint" /\ cur = lastKey
        /\ need' = Deficit(cur.eps[i])
        /\ pc' = "connect" => i' = i
    BY <1>6 DEF RefillEndpoint, pool, RoundInv
  <2>2. Target(lastKey, e)' = Target(lastKey, e) /\ Pending(e) = 0
    BY <2>1 DEF Target, Uses, Pending
  <2>3. CASE pc' = "connect" /\ e = cur.eps[i]
    <3>1. Pending(e)' = Deficit(e)
      BY <2>1, <2>3 DEF Pending
    <3> QED BY <1>0, <2>1, <2>2, <3>1 DEF Deficit
  <2>4. CASE ~(pc' = "connect" /\ e = cur.eps[i])
    <3>1. Pending(e)' = 0
      BY <2>1, <2>4 DEF Pending
    <3> QED BY <1>0, <2>1, <2>2, <3>1
  <2> QED BY <2>3, <2>4
<1>7. CASE ConnectOk
  <2>1. /\ pc = "connect" /\ cur' = cur /\ lastKey' = lastKey
        /\ idle' = [idle EXCEPT ![cur.eps[i]] = Append(@, cur.tok)]
        /\ need' = need - 1
        /\ need > 0
        /\ IF need = 1 THEN pc' = "endpoint" ELSE pc' = "connect" /\ i' = i
    BY <1>7 DEF ConnectOk, RoundInv
  <2>2. Target(lastKey, e)' = Target(lastKey, e)
    BY <2>1 DEF Target, Uses
  <2>3. cur.eps[i] \in Endpoints
    BY <2>1, AtEndpoint
  <2>4. CASE e = cur.eps[i]
    <3>1. Pending(e) = need /\ Pending(e)' = need - 1
      BY <1>0, <2>1, <2>4 DEF Pending
    <3>2. Len(idle'[e]) = Len(idle[e]) + 1
      BY <1>0, <2>1, <2>3, <2>4 DEF PoolTypeOK
    <3> QED BY <1>0, <2>1, <2>2, <3>1, <3>2
  <2>5. CASE e # cur.eps[i]
    <3>1. Pending(e)' = 0 /\ idle'[e] = idle[e]
      BY <2>1, <2>5 DEF Pending, PoolTypeOK
    <3> QED BY <1>0, <2>2, <3>1
  <2> QED BY <2>4, <2>5
<1> QED BY <1>3, <1>4, <1>5, <1>6, <1>7 DEF PoolNext, maintain

-----------------------------------------------------------------------------
(* The inductive invariant holds of every behaviour of the pool. *)
THEOREM PoolInvariance == PoolSpec => []PoolInv
<1>1. PoolInit => PoolInv
  <2> SUFFICES ASSUME PoolInit PROVE PoolInv
    OBVIOUS
  <2>1. \A e \in Endpoints : idle[e] = <<>> /\ nold[e] = 0 /\ Pending(e) = 0
    BY DEF PoolInit, Pending
  <2>2. \A e \in Endpoints : Target(lastKey, e) = 0
    BY DEF PoolInit, Target, Uses
  <2>3. PoolTypeOK
    <3>1. idle \in [Endpoints -> Seq(Tokens)]
      <4>1. <<>> \in Seq(Tokens)
        OBVIOUS
      <4> QED BY <4>1 DEF PoolInit
    <3>2. nold \in [Endpoints -> Nat] /\ i \in Nat \ {0} /\ need \in Nat
          /\ consec \in Nat
      BY DEF PoolInit
    <3>3. /\ changed \in BOOLEAN /\ notified \in BOOLEAN /\ host \in BOOLEAN
          /\ cfg \in Configs \cup {NoPoolConfig} /\ cur \in Configs \cup {NoPoolConfig}
          /\ lastKey \in Configs \cup {NoPoolConfig}
          /\ pc = "top"
      BY DEF PoolInit
    <3> QED BY <3>1, <3>2, <3>3 DEF PoolTypeOK
  <2>4. RoundInv /\ AgeInv
    BY <2>1 DEF PoolInit, RoundInv, AgeInv
  <2>5. OneCredential /\ PlanInv
    BY <2>1, <2>2 DEF OneCredential, PlanInv
  <2> QED BY <2>3, <2>4, <2>5 DEF PoolInv
<1>2. PoolInv /\ [PoolNext]_poolVars => PoolInv'
  BY TypeInductive, RoundInductive, AgeInductive, CredentialInductive,
     PlanInductive DEF PoolInv
<1> QED BY <1>1, <1>2, PTL DEF PoolSpec

(* Every variable keeps its type. *)
THEOREM PoolTypeCorrect == PoolSpec => []PoolTypeOK
<1>1. PoolInv => PoolTypeOK
  BY DEF PoolInv
<1> QED BY <1>1, PoolInvariance, PTL

(* The sessions of two credentials never share the pool, whatever rotates,
   is invalidated or is being connected. *)
THEOREM PoolHasOneCredential == PoolSpec => []OneCredential
<1>1. PoolInv => OneCredential
  BY DEF PoolInv
<1> QED BY <1>1, PoolInvariance, PTL

(* No endpoint ever holds more standby sessions than its target. *)
THEOREM PoolWithinPlan == PoolSpec => []WithinPlan
<1>1. PoolInv => WithinPlan
  <2> SUFFICES ASSUME PoolInv, NEW e \in Endpoints
               PROVE  Len(idle[e]) <= Target(lastKey, e)
    BY DEF WithinPlan
  <2>1. /\ idle[e] \in Seq(Tokens)
        /\ Pending(e) \in Nat /\ Target(lastKey, e) \in Nat
        /\ Len(idle[e]) + Pending(e) <= Target(lastKey, e)
    BY PoolAssumption DEF PoolInv, PoolTypeOK, PlanInv, Pending, Target, PoolAssumption
  <2> QED BY <2>1
<1> QED BY <1>1, PoolInvariance, PTL
=============================================================================
