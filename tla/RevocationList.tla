--------------------------- MODULE RevocationList ---------------------------
(***************************************************************************)
(* The exit gateway's revocation list (crates/gate-server/src/lib.rs:      *)
(* handle_revoke, load_revoked_tokens and the checks against               *)
(* revoked_tokens).                                                        *)
(*                                                                         *)
(* POST /api/user/revoke puts an identifier into the in-memory set, then   *)
(* appends a line to revoked_tokens.txt and answers 200.  writeln! on an   *)
(* unbuffered File is two writes, the identifier and the line end; each is *)
(* an atomic append, nothing makes the pair one.  At start the set is      *)
(* rebuilt from the lines of the file, if it can be read.                  *)
(***************************************************************************)
EXTENDS Naturals, Sequences, FiniteSets

CONSTANTS Handlers,     \* concurrent requests to /api/user/revoke
          Ids,          \* jti or sub identifiers
          NL,           \* the line end
          NoId,
          MaxFile,      \* bound on the length of the file
          CrashMidCall, \* the process may die while a request is running
          FileMayFail   \* opening, writing or reading the file may fail

ASSUME ListAssumption ==
  /\ NL \notin Ids /\ NoId \notin Ids
  /\ IsFiniteSet(Handlers) /\ MaxFile \in Nat
  /\ CrashMidCall \in BOOLEAN /\ FileMayFail \in BOOLEAN

VARIABLES mem,     \* revoked_tokens
          file,    \* revoked_tokens.txt, as written
          up,
          step,    \* per handler
          target,  \* per handler: the identifier of its request
          blind    \* history: this start could not read the file

listVars == <<mem, file, up, step, target, blind>>

ListTypeOK ==
  /\ mem \subseteq Ids
  /\ file \in Seq(Ids \cup {NL}) /\ Len(file) <= MaxFile
  /\ up \in BOOLEAN /\ blind \in BOOLEAN
  /\ step \in [Handlers -> {"idle", "id", "newline", "answer"}]
  /\ target \in [Handlers -> Ids \cup {NoId}]

(* The lines of the file that are one identifier.  Two identifiers run
   together on a line are no identifier anybody presents. *)
Lines(f) ==
  {f[i] : i \in {j \in 1..Len(f) : /\ f[j] # NL
                                   /\ j = 1 \/ f[j - 1] = NL
                                   /\ j = Len(f) \/ f[j + 1] = NL}}

(* What every door asks of an identifier. *)
Refused(id) == id \in mem

ListInit ==
  /\ mem = {} /\ file = <<>> /\ up = FALSE /\ blind = FALSE
  /\ step = [h \in Handlers |-> "idle"]
  /\ target = [h \in Handlers |-> NoId]

(* load_revoked_tokens at start.  A file that cannot be read, or that a write
   cut short inside a character makes invalid, leaves the set empty, and the
   gateway starts all the same. *)
Load ==
  /\ ~up
  /\ up' = TRUE
  /\ \/ mem' = Lines(file) /\ blind' = FALSE
     \/ FileMayFail /\ mem' = {} /\ blind' = TRUE
  /\ UNCHANGED <<file, step, target>>

(* The process ends: the set and the running requests are gone. *)
Crash ==
  /\ up
  /\ CrashMidCall \/ \A h \in Handlers : step[h] = "idle"
  /\ up' = FALSE
  /\ mem' = {}
  /\ step' = [h \in Handlers |-> "idle"]
  /\ target' = [h \in Handlers |-> NoId]
  /\ UNCHANGED <<file, blind>>

(* Room for the two appends of one more request, next to the running ones. *)
Room == Len(file) + 2 * Cardinality({h \in Handlers : step[h] # "idle"}) + 2 <= MaxFile

(* handle_revoke: into the set (a request that is refused changes nothing) ... *)
Insert(h, id) ==
  /\ up /\ step[h] = "idle" /\ Room
  /\ mem' = mem \cup {id}
  /\ target' = [target EXCEPT ![h] = id]
  /\ step' = [step EXCEPT ![h] = "id"]
  /\ UNCHANGED <<file, up, blind>>

Emit(h, from, to, x) ==
  /\ step[h] = from
  /\ file' = file \o <<x>>
  /\ step' = [step EXCEPT ![h] = to]
  /\ UNCHANGED <<mem, up, target, blind>>

(* ... then the two writes of writeln!, whose outcome is ignored ... *)
AppendId(h) == Emit(h, "id", "newline", target[h])
AppendNewline(h) == Emit(h, "newline", "answer", NL)

WriteFails(h) ==
  /\ FileMayFail
  /\ step[h] \in {"id", "newline"}
  /\ step' = [step EXCEPT ![h] = "answer"]
  /\ UNCHANGED <<mem, file, up, target, blind>>

(* ... then 200. *)
Answer(h) ==
  /\ step[h] = "answer"
  /\ step' = [step EXCEPT ![h] = "idle"]
  /\ target' = [target EXCEPT ![h] = NoId]
  /\ UNCHANGED <<mem, file, up, blind>>

Revoke(h) ==
  \/ \E id \in Ids : Insert(h, id)
  \/ AppendId(h) \/ AppendNewline(h) \/ WriteFails(h) \/ Answer(h)
=============================================================================
