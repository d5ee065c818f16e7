----------------------------- MODULE DesktopConn -----------------------------
(***************************************************************************)
(* A connection through the desktop engine (desktop/src-tauri/src/proxy/   *)
(* engine.rs, engine_upstream.rs): from a program of this machine that     *)
(* follows the PAC script the system gave it, or from a device of the      *)
(* local network.                                                          *)
(*                                                                         *)
(* The engine reads the rules when the head of the request is there and    *)
(* not when the client fetched its script; a script may be older than the  *)
(* rules and than the process.  One connection at a time is followed.      *)
(***************************************************************************)
EXTENDS HostRules, Naturals

CONSTANTS Visited,   \* hosts the connection may be for
          FixedHosts, GateHosts, \* the release's own hosts; an endpoint's
          Attempts,  \* RETRY: attempts on the upstream (5)
          None

ASSUME ConnAssumption ==
  /\ Attempts \in Nat \ {0}
  /\ Visited \subseteq Seq(STRING)
  /\ None \notin {"direct", "loop"}

VARIABLES
  mode, whitelist,  \* the watches the engine and the script are made from
  bypass,           \* the hosts of tunnel.json, read at every decision
  chained,          \* the watch of the upstream has one
  engine,           \* the task of ENGINE_TASK: none, running, or ended
  script,           \* the rules of the script the system's clients hold
  conn

ruleVars == <<mode, whitelist, bypass, chained, engine>>
connVars == <<script, conn>>

Modes == {"whitelist", "global"}
(* collect_bypass_hosts: without and with an endpoint in tunnel.json. *)
Bypasses == {FixedHosts} \cup {FixedHosts \cup {g} : g \in GateHosts}
Rules == <<whitelist, mode, bypass>>
NoConn == [at |-> "none", from |-> None, host |-> None, via |-> None,
           told |-> None, stale |-> FALSE, tries |-> 0]

(* The rules are made of these whitelists. *)
ConnTypeOK(lists) ==
  /\ mode \in Modes /\ whitelist \in lists /\ bypass \in Bypasses /\ chained \in BOOLEAN
  /\ engine \in {"no", "up", "ended"}
  /\ script \in lists \X Modes \X Bypasses
  /\ conn \in [at : {"none", "head", "dial", "relay"},
               from : {None, "loop", "lan"}, host : Visited \cup {None},
               via : {None, "direct", "upstream", "tunnel"},
               told : (lists \X Modes \X Bypasses) \cup {None}, stale : BOOLEAN,
               tries : 0 .. Attempts]

(* Clients hold a script from before, made in another mode. *)
ConnInit ==
  /\ mode = "whitelist" /\ whitelist = {} /\ bypass = FixedHosts
  /\ chained = FALSE /\ engine = "no"
  /\ script = <<{}, "global", bypass>> /\ conn = NoConn

(* handle_conn of a request for /pac, by the client that connects next. *)
FetchPac ==
  /\ engine = "up" /\ conn = NoConn
  /\ script' = Rules
  /\ UNCHANGED <<conn, ruleVars>>

(* run: a client connects to a host its script sends to the engine. *)
Accept(h) ==
  /\ engine = "up" /\ conn = NoConn
  /\ generate_pac(h, script[1], script[2], script[3]) = "PROXY"
  /\ conn' = [NoConn EXCEPT !.at = "head", !.from = "loop", !.host = h, !.told = script]
  /\ UNCHANGED <<script, ruleVars>>

(* lan_accept_loop: a device connects, whatever it knows of the rules. *)
LanAccept(h) ==
  /\ conn = NoConn
  /\ conn' = [NoConn EXCEPT !.at = "head", !.from = "lan", !.host = h]
  /\ UNCHANGED <<script, ruleVars>>

Ends == conn' = NoConn /\ UNCHANGED <<script, ruleVars>>
Goes(at) == conn' = [conn EXCEPT !.at = at] /\ UNCHANGED <<script, ruleVars>>

(* read_head: the head does not come in time, or it is none (400). *)
HeadRefused == conn.at = "head" /\ Ends

(* handle_lan_conn: a device without the token in use is refused (407); one
   that asks for its configuration gets it, or 401. *)
LanUnauthorized == conn.at = "head" /\ conn.from = "lan" /\ Ends
LanSubscription == conn.at = "head" /\ conn.from = "lan" /\ Ends

(* dispatch: the rules are read, then the upstream; an upstream goes before
   the tunnel, and neither is asked for a direct host. *)
dispatch ==
  LET d == decide(conn.host, whitelist, mode, bypass) IN
  /\ conn.at = "head"
  /\ conn' = [conn EXCEPT !.at = "dial", !.told = None, !.stale = (conn.told # Rules),
                !.via = IF d = "tunnel" /\ chained THEN "upstream" ELSE d]
  /\ UNCHANGED <<script, ruleVars>>

Dialling(v) == conn.at = "dial" /\ conn.via = v

(* direct_relay: connected, or 502. *)
direct_relay == Dialling("direct") /\ (Goes("relay") \/ Ends)

(* try_establish: connected, and for CONNECT answered with 2xx. *)
Upstreamed == Dialling("upstream") /\ Goes("relay")

(* Seeded fault: an upstream that does not answer is passed over. *)
FallBack ==
  /\ Dialling("upstream")
  /\ conn' = [conn EXCEPT !.tries = @ + 1,
                !.via = IF @ = "upstream" /\ conn.tries + 1 = Attempts THEN "direct" ELSE @]
  /\ UNCHANGED <<script, ruleVars>>

(* A timeout or a refused dial is tried again, after a pause; 502 in the end. *)
UpstreamSilent ==
  /\ Dialling("upstream")
  /\ IF conn.tries + 1 < Attempts
       THEN conn' = [conn EXCEPT !.tries = @ + 1] /\ UNCHANGED <<script, ruleVars>>
       ELSE Ends

(* Any other answer or error is final. *)
UpstreamRefuses == Dialling("upstream") /\ Ends

(* engine_tunnel::connect_and_relay, which DesktopEngine models. *)
Tunnelled == Dialling("tunnel") /\ (Goes("relay") \/ Ends)

(* relay_bidir_with_stats returns: both ends are done, one fails, or a limit
   that only devices have is reached. *)
RelayEnds == conn.at = "relay" /\ Ends

(* wait_cancelled: the listener's switch ends the sessions it accepted. *)
LanCancelled == IF conn.from = "lan" THEN NoConn ELSE conn

ConnStep ==
  \/ HeadRefused \/ LanUnauthorized \/ LanSubscription
  \/ dispatch \/ direct_relay
  \/ Upstreamed \/ UpstreamSilent \/ UpstreamRefuses \/ Tunnelled \/ RelayEnds
=============================================================================
