------------------------------- MODULE HaNode -------------------------------
(***************************************************************************)
(* A cluster node as its clients meet it: the HA forwarder in front        *)
(* (crates/core/src/ha_forwarder.rs), the local engine behind it and a     *)
(* peer's engine to fail over to (crates/engine/src/server.rs, gateway.rs, *)
(* connect.rs; tickets in crates/core/src/cluster_ticket.rs; credentials   *)
(* in crates/core/src/auth.rs).                                            *)
(*                                                                         *)
(* The forwarder authenticates a client by the client token and hands its  *)
(* connection to the local engine, which trusts loopback, or to the peer,  *)
(* which trusts the ticket the forwarder adds.  Whether the local engine   *)
(* is tried at all depends on a flag that the prober and every failed      *)
(* connection write without a lock.                                        *)
(***************************************************************************)
EXTENDS EngineConn

CONSTANTS Clients,      \* what clients may send, see Client
          NoCred, ClientToken, PonyToken, \* credentials other than a user's
          HasClientToken, \* client_token is configured
          AllowLoopback   \* allow_loopback_without_token

(* entry: the port dialled; loop: from 127.0.0.1; proxied: X-Forwarded-For or
   the like is present; cred: the credential; forged: the client sends an
   X-Pony-Cluster-Ticket of its own, copied from an earlier request. *)
Client == [entry : {"forwarder", "engine"}, loop : BOOLEAN,
           proxied : BOOLEAN, forged : BOOLEAN,
           cred : {NoCred, ClientToken, PonyToken} \cup (Users \X Passwords)]

Engines == {"local", "remote"}

ASSUME NodeAssumption ==
  /\ Clients \subseteq Client /\ {HasClientToken, AllowLoopback} \subseteq BOOLEAN

VARIABLES up,        \* the engine listens
          healthy,   \* local_healthy
          prober,    \* where the prober is
          failed,    \* its failed_count
          client,    \* per session: the client
          via,       \* per session: the engine it was connected to
          ticket     \* per session: whose ticket the engine sees, if any

flag == <<healthy, prober, failed>>
sess == <<conn, client, via, ticket>>
caller == <<client, via, ticket>>
vars == <<userVars, up, flag, sess>>

Stages == {"idle", "head", "pick", "local", "trip", "remote", "engine", "target",
           "video", "attempt", "dial", "bind", "relay", "forward", "over"}

TypeOK ==
  /\ UserTypeOK /\ ConnTypeOK
  /\ up \in [Engines -> BOOLEAN]
  /\ healthy \in BOOLEAN /\ failed \in 0 .. 2
  /\ prober \in {"sleep", "reached", "missed"}
  /\ stage \in [Sessions -> Stages] /\ client \in [Sessions -> Clients \cup {None}]
  /\ via \in [Sessions -> Engines \cup {None}]
  /\ ticket \in [Sessions -> {None, "minted", "forged"}]

Init ==
  /\ UserInit /\ ConnInit
  /\ up = [e \in Engines |-> TRUE]
  /\ healthy = TRUE /\ prober = "sleep" /\ failed = 0
  /\ client = [s \in Sessions |-> None]
  /\ via = [s \in Sessions |-> None]
  /\ ticket = [s \in Sessions |-> None]

-----------------------------------------------------------------------------
(* The prober of start_health_prober: every 300 ms a connection is tried; an
   engine that listens may still not answer within 80 ms ... *)
Probe ==
  /\ prober = "sleep"
  /\ \/ up["local"] /\ prober' = "reached"
     \/ prober' = "missed"
  /\ UNCHANGED <<userVars, up, healthy, failed, sess>>

(* Seeded fault: the flag is only set after a failure the prober itself saw. *)
ProbeReachedOnRecovery ==
  /\ prober = "reached"
  /\ healthy' = (healthy \/ failed >= 2)
  /\ failed' = 0
  /\ prober' = "sleep"
  /\ UNCHANGED <<userVars, up, sess>>

(* ... success resets the count and sets the flag; the second miss in a row
   clears it. *)
ProbeReached ==
  /\ prober = "reached"
  /\ failed' = 0
  /\ healthy' = TRUE
  /\ prober' = "sleep"
  /\ UNCHANGED <<userVars, up, sess>>

ProbeMissed ==
  /\ prober = "missed"
  /\ failed' = IF failed < 2 THEN failed + 1 ELSE 2
  /\ healthy' = (healthy /\ failed' < 2)
  /\ prober' = "sleep"
  /\ UNCHANGED <<userVars, up, sess>>

-----------------------------------------------------------------------------
(* The forwarder. *)

Connect(s, c) ==
  /\ stage[s] = "idle"
  /\ client' = [client EXCEPT ![s] = c]
  /\ ticket' = [ticket EXCEPT ![s] = IF c.forged THEN "forged" ELSE None]
  /\ IF c.entry = "forwarder"
       THEN Goto(s, "head") /\ UNCHANGED via
       ELSE /\ up["local"]
            /\ via' = [via EXCEPT ![s] = "local"]
            /\ Goto(s, "engine")
  /\ UNCHANGED <<userVars, up, flag>>

(* With a client token configured, it is asked of everybody, as a token or as
   the password of Basic credentials; without one only loopback may pass.  A
   ticket is no client credential. *)
client_request_allowed(c) ==
  IF HasClientToken THEN c.cred = ClientToken ELSE c.loop /\ AllowLoopback

(* handle_conn: the head is read (10 s), the client is authenticated before
   any upstream is chosen. *)
ReadHead(s) ==
  /\ stage[s] = "head"
  /\ \/ client_request_allowed(client[s]) /\ Goto(s, "pick")
     \/ ~client_request_allowed(client[s]) /\ Answer(s, "407")
     \/ Answer(s, "closed")
  /\ UNCHANGED <<userVars, up, flag, caller>>

(* pick_upstream: read the flag ... *)
ReadFlag(s) ==
  /\ stage[s] = "pick"
  /\ Goto(s, IF healthy THEN "local" ELSE "remote")
  /\ UNCHANGED <<userVars, up, flag, caller>>

(* ... try the local engine, for 80 ms ... *)
TryLocal(s) ==
  /\ stage[s] = "local"
  /\ \/ up["local"] /\ via' = [via EXCEPT ![s] = "local"] /\ Goto(s, "engine")
     \/ Goto(s, "trip") /\ UNCHANGED via
  /\ ticket' = [ticket EXCEPT ![s] = None]
  /\ UNCHANGED <<userVars, up, flag, client>>

(* ... clear the flag, whatever the prober has found meanwhile ... *)
Trip(s) ==
  /\ stage[s] = "trip"
  /\ healthy' = FALSE
  /\ Goto(s, "remote")
  /\ UNCHANGED <<userVars, up, prober, failed, client, via, ticket>>

(* ... then the peer, for 300 ms, or 502.  sanitize_and_inject_ticket drops every
   ticket header of the client and adds one signed now for the peer. *)
TryRemote(s) ==
  /\ stage[s] = "remote"
  /\ \/ up["remote"] /\ via' = [via EXCEPT ![s] = "remote"] /\ Goto(s, "engine")
     \/ Answer(s, "502") /\ UNCHANGED via
  /\ ticket' = [ticket EXCEPT ![s] = "minted"]
  /\ UNCHANGED <<userVars, up, flag, client>>

-----------------------------------------------------------------------------
(* An engine. *)

(* The engine sees the connection come from 127.0.0.1. *)
loopback(s) == via[s] = "local" /\ (client[s].entry = "forwarder" \/ client[s].loop)

(* verify_ticket: the HMAC is right (a copied ticket's is too) and the
   clocks of the two nodes put it within 120 s; `fresh` is that outcome. *)
verify_ticket(s, fresh) == ticket[s] # None /\ fresh

(* verify_connect_credentials: the ticket, then Basic credentials against the
   users or as a token, then the token header. *)
verify_connect_credentials(s, fresh) ==
  \/ verify_ticket(s, fresh)
  \/ client[s].cred = PonyToken
  \/ client[s].cred \in Users \X Passwords
       /\ verify_user(client[s].cred[1], client[s].cred[2])

(* Loopback without a trace of a reverse proxy needs no credential. *)
pure_local(s) == loopback(s) /\ ~client[s].proxied

(* The connection limit is reached, the client sends nothing, or the
   gatekeeper has its address locked out (see DataPlane for the gatekeeper). *)
EngineDrops(s) ==
  /\ stage[s] = "engine"
  /\ Answer(s, "closed") \/ Answer(s, "429")
  /\ UNCHANGED <<userVars, up, flag, caller>>

(* "/", the health check, the profile and the downloads ask nobody. *)
PublicPath(s) ==
  /\ stage[s] = "engine"
  /\ Answer(s, "served")
  /\ UNCHANGED <<userVars, up, flag, caller>>

(* handle_connect_raw and auth_middleware: the credentials. *)
EngineAuth(s, fresh) ==
  /\ stage[s] = "engine"
  /\ IF pure_local(s) \/ verify_connect_credentials(s, fresh)
       THEN Goto(s, "target") ELSE Answer(s, "407")
  /\ UNCHANGED <<userVars, up, flag, caller>>

Close(s) ==
  /\ stage[s] = "over"
  /\ stage' = [stage EXCEPT ![s] = "idle"]
  /\ answer' = [answer EXCEPT ![s] = "none"]
  /\ UNCHANGED tun
  /\ client' = [client EXCEPT ![s] = None]
  /\ via' = [via EXCEPT ![s] = None]
  /\ ticket' = [ticket EXCEPT ![s] = None]
  /\ UNCHANGED <<userVars, up, flag>>

(* An engine goes down with its connections ... *)
EngineDown(e) ==
  /\ up[e]
  /\ up' = [up EXCEPT ![e] = FALSE]
  /\ stage' = [s \in Sessions |-> IF via[s] = e /\ stage[s] # "over"
                                    THEN "over" ELSE stage[s]]
  /\ answer' = [s \in Sessions |-> IF via[s] = e /\ stage[s] # "over"
                                     THEN "closed" ELSE answer[s]]
  /\ tun' = [s \in Sessions |-> IF via[s] = e THEN NoTunnel ELSE tun[s]]
  /\ UNCHANGED <<userVars, flag, client, via, ticket>>

(* ... and starts again: the users are loaded. *)
EngineUp(e) ==
  /\ ~up[e]
  /\ up' = [up EXCEPT ![e] = TRUE]
  /\ IF e = "local" THEN refresh_cache ELSE UNCHANGED userVars
  /\ UNCHANGED <<flag, sess>>

Forward(s) == ReadHead(s) \/ ReadFlag(s) \/ TryLocal(s) \/ Trip(s) \/ TryRemote(s)

Engine(s) ==
  \/ EngineDrops(s) \/ PublicPath(s) \/ (\E fresh \in BOOLEAN : EngineAuth(s, fresh))
  \/ EngineStep(s) /\ UNCHANGED <<userVars, up, flag, caller>>
  \/ Close(s)

Next ==
  \/ Probe \/ ProbeReached \/ ProbeMissed
  \/ \E s \in Sessions : (\E c \in Clients : Connect(s, c)) \/ Forward(s) \/ Engine(s)
  \/ \E e \in Engines : EngineDown(e) \/ EngineUp(e)
  \/ (UserCommand \/ UserClock) /\ UNCHANGED <<up, flag, sess>>

(* The prober is a task that loops for ever; the forwarder bounds the head and
   every connect by a timeout.  Nothing bounds the engine's relay. *)
Fairness == /\ WF_vars(Probe \/ ProbeReached \/ ProbeMissed)
            /\ \A s \in Sessions : WF_vars(Forward(s))

Spec == Init /\ [][Next]_vars /\ Fairness

-----------------------------------------------------------------------------
(* Properties. *)

(* The flag follows the local engine, though the prober and the sessions
   write it without a lock.  Once the engine stays up and answers the prober
   in time the flag is set again and again, whatever late connections clear;
   once it answers these in time too the flag is set for good.  Once it stays
   down the flag is cleared for good. *)
Answers80ms == up["local"] /\ prober # "missed"
FlagFollowsEngine ==
  /\ <>[]Answers80ms => []<>healthy
  /\ <>[](Answers80ms /\ \A s \in Sessions : stage[s] # "trip") => <>[]healthy
  /\ <>[]~up["local"] => <>[]~healthy
=============================================================================
