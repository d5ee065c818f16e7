---------------------------- MODULE DesktopEngine ----------------------------
(***************************************************************************)
(* Connections through the tunnel of the desktop engine (desktop/src-tauri *)
(* src/proxy/engine_tunnel.rs), on top of the credential store they reload *)
(* from when a gate refuses the token.                                     *)
(*                                                                         *)
(* The engine takes the token from a watch channel that late or lost sends *)
(* may leave behind the store.  A 401, or a missing token, makes the       *)
(* connection read the store again, unless it is within a cooldown, which  *)
(* a 401 within it starts afresh.  Connections come one after another.     *)
(***************************************************************************)
EXTENDS CredentialStore

CONSTANTS CompliantUrls, \* endpoint strings that name a compliant endpoint
          Retry          \* RETRY: attempts per connection (5)

Worker == "conn"

ASSUME EngineAssumption ==
  Retry \in Nat \ {0} /\ CompliantUrls \subseteq Urls /\ Worker \in Threads

VARIABLES gate,     \* external: the token the gates accept
          rotated,  \* it is not the only one they ever accepted
          strict,   \* the connection's host needs a compliant endpoint
          held,     \* the token the gates refused
          attempt,  \* attempts made
          cooling,  \* LAST_SELF_HEAL is less than SELF_HEAL_COOLDOWN ago
          stage     \* where the connection is

connVars == <<strict, held, attempt, stage, cooling>>
world == <<gate, rotated>>
vars == <<storeVars, world, connVars>>

Stages == {"idle", "dial", "heal", "again"}

TypeOK ==
  /\ StoreTypeOK
  /\ gate \in Secrets /\ rotated \in BOOLEAN
  /\ {strict, cooling} \subseteq BOOLEAN /\ held \in Secrets \cup {None}
  /\ attempt \in 0 .. Retry /\ stage \in Stages

Init ==
  /\ StoreInit
  /\ gate \in Secrets /\ rotated = FALSE
  /\ strict = FALSE /\ held = None /\ attempt = 0 /\ stage = "idle"
  /\ cooling = FALSE

-----------------------------------------------------------------------------
(* engine_tunnel::establish and the attempts of connect_and_relay. *)

connect_and_relay(b) ==
  /\ stage = "idle" /\ At(Worker, "idle")
  /\ stage' = "dial" /\ strict' = b
  /\ UNCHANGED <<storeVars, world, held, attempt, cooling>>

End == stage' = "idle" /\ strict' = FALSE /\ held' = None /\ attempt' = 0

(* 401 and 402 end the connection, everything else is tried again. *)
Again ==
  IF attempt + 1 < Retry
    THEN attempt' = attempt + 1 /\ stage' = "dial" /\ UNCHANGED <<strict, held>>
    ELSE End

Dials == stage = "dial" /\ watch.token # None
Usable == strict => watch.url \in CompliantUrls

(* A gate takes the token, or a standby session opened with it is there; the
   relay is not modelled. *)
Established ==
  /\ Dials /\ Usable
  /\ watch.token = gate \/ rotated
  /\ End
  /\ UNCHANGED <<storeVars, world, cooling>>

(* No gate answers or none is compliant; or the quota is used up (402). *)
Unreachable ==
  /\ Dials
  /\ Again \/ (Usable /\ End)
  /\ UNCHANGED <<storeVars, world, cooling>>

Refused == Dials /\ Usable /\ watch.token # gate

(* A gate refuses the token and the store is read again. *)
Unauthorized ==
  /\ Refused /\ ~cooling
  /\ held' = watch.token
  /\ stage' = "heal"
  /\ th' = [th EXCEPT ![Worker] = [Idle EXCEPT !.cmd = "heal", !.pc = "f",
                                               !.why = "reload"]]
  /\ UNCHANGED <<durable, watch, lock, counters, history, world, strict, attempt,
                 cooling>>

(* The same within SELF_HEAL_COOLDOWN: the cooldown starts afresh. *)
UnauthorizedCooling ==
  /\ Refused /\ cooling
  /\ End
  /\ UNCHANGED <<storeVars, world, cooling>>

(* SELF_HEAL_COOLDOWN has passed without a 401. *)
CooldownOver ==
  /\ cooling /\ cooling' = FALSE
  /\ UNCHANGED <<storeVars, world, strict, held, attempt, stage>>

(* The token read differs from the one refused and from the one in use now:
   it is saved, and sent. *)
Rotated == th[Worker].token \notin {None, held, watch.token}
Reloaded(c) == stage = "heal" /\ th[Worker].cmd = c /\ At(Worker, "act")

(* Seeded fault: what was read is used by this connection and not sent. *)
HealDecideKeeps ==
  /\ Reloaded("heal")
  /\ th' = [th EXCEPT ![Worker] = Idle]
  /\ End /\ cooling' = TRUE
  /\ UNCHANGED <<durable, watch, lock, counters, history, world>>

HealDecide ==
  /\ Reloaded("heal")
  /\ IF Rotated
       THEN /\ th' = [th EXCEPT ![Worker] = [Forget(@) EXCEPT
                        !.pc = "keyring", !.why = "none",
                        !.url = Loaded(Worker).url, !.secret = th[Worker].token]]
            /\ held' = None /\ stage' = "again"
            /\ UNCHANGED <<strict, attempt>>
       ELSE th' = [th EXCEPT ![Worker] = Idle] /\ End
  /\ cooling' = TRUE
  /\ UNCHANGED <<durable, watch, lock, counters, history, world>>

(* One more round with the new token, once it is sent: whether the gates take
   it or not, the connection is over (the first 401 is reported). *)
HealedDial ==
  /\ stage = "again" /\ At(Worker, "idle")
  /\ End
  /\ UNCHANGED <<storeVars, world, cooling>>

(* No token in the watch: the store is read and what it has is sent. *)
Missing ==
  /\ stage = "dial" /\ watch.token = None
  /\ stage' = "heal"
  /\ th' = [th EXCEPT ![Worker] = [Idle EXCEPT !.cmd = "refresh", !.pc = "f",
                                               !.why = "reload"]]
  /\ UNCHANGED <<durable, watch, lock, counters, history, world, strict, held,
                 attempt, cooling>>

(* The same within MISSING_REFRESH_COOLDOWN of the last reading. *)
MissingCooling ==
  /\ stage = "dial" /\ watch.token = None
  /\ Again
  /\ UNCHANGED <<storeVars, world, cooling>>

Refreshed ==
  /\ Reloaded("refresh")
  /\ th' = [th EXCEPT ![Worker] = Idle]
  /\ IF Loaded(Worker) # NoConfig
       THEN watch' = Loaded(Worker) /\ stage' = "dial"
            /\ UNCHANGED <<strict, held, attempt>>
       ELSE UNCHANGED watch /\ Again
  /\ UNCHANGED <<durable, lock, counters, history, world, cooling>>

-----------------------------------------------------------------------------
(* What the rest of the application and the world do. *)

Store(t) == StoreStep(t) /\ UNCHANGED <<world, connVars>>

Command(t) == (WindowCommand(t) \/ proxy_enable(t)) /\ UNCHANGED <<world, connVars>>

OutsideWrite(s) == Outside(s) /\ UNCHANGED <<world, connVars>>

Rotate(s) ==
  /\ Fault /\ s # gate
  /\ gate' = s /\ rotated' = TRUE
  /\ UNCHANGED <<durable, watch, lock, th, history, connVars>>

(* The process dies: what is on disk and in the keyring stays.  The watch is
   filled again by the next start of the proxy. *)
Crash ==
  /\ Trouble /\ used' = FALSE
  /\ th' = [t \in Threads |-> Idle] /\ lock' = Free /\ watch' = NoConfig
  /\ End /\ cooling' = FALSE
  /\ saved' = IF lock = Free THEN saved ELSE None
  /\ UNCHANGED <<durable, cleared, doubt, world>>

(* What an attempt to establish a tunnel may come to. *)
Attempt ==
  \/ Established \/ Unreachable \/ Unauthorized \/ UnauthorizedCooling
  \/ Missing \/ MissingCooling

Conn ==
  \/ \E b \in BOOLEAN : connect_and_relay(b)
  \/ Attempt \/ HealDecide \/ HealedDial \/ Refreshed \/ CooldownOver

Next ==
  \/ \E t \in Threads : Store(t)
  \/ \E t \in Threads \ {Worker} : Command(t)
  \/ Conn
  \/ \E s \in Secrets : OutsideWrite(s) \/ Rotate(s)
  \/ Crash

(* Threads and tasks run; clients keep connecting to hosts that any endpoint
   may serve; of those some meet a gate that answers, and some without a token
   come when MISSING_REFRESH_COOLDOWN is over, which only a reading starts.
   Nothing makes SELF_HEAL_COOLDOWN run out. *)
Fairness ==
  /\ \A t \in Threads : WF_vars(Store(t))
  /\ WF_vars(HealDecide) /\ WF_vars(HealedDial) /\ WF_vars(Refreshed)
  /\ SF_vars(connect_and_relay(FALSE))
  /\ WF_vars(Attempt)
  /\ SF_vars(Unauthorized \/ UnauthorizedCooling) /\ SF_vars(Missing)

Spec == Init /\ [][Next]_vars /\ Fairness

-----------------------------------------------------------------------------
(* Properties. *)

(* The engine is not stuck with a token its gates refuse while the store
   holds the one they take: whatever sends were lost, late or overtaken, the
   reload after a 401 or a missing token gets it there.  Needed for that are
   clients that connect, and pause: the self-heal cooldown has to run out now
   and then, and every 401 within it starts it afresh. *)
EngineConverges ==
  []<>~cooling => []<>(watch.token = gate \/ winner(fallback, keyring, meta) # gate)
=============================================================================
