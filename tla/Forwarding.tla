----------------------------- MODULE Forwarding -----------------------------
(***************************************************************************)
(* A forwarded HTTP request, from the authentication layer to the end of   *)
(* its response stream (auth_middleware and forward_handler of             *)
(* crates/server/src/gateway.rs, EdgeClient of crates/core/src/edge.rs),   *)
(* over the route table that management calls change meanwhile.            *)
(*                                                                         *)
(* The handler reads the route table twice: at resolve, and again for the  *)
(* backup once the primary has failed, up to minutes later.                *)
(***************************************************************************)
EXTENDS RouteTable, Sequences

CONSTANTS Tokens,           \* plaintexts with the pony_ prefix
          LiveTokens,       \* those TokenService::verify accepts
          Reqs,             \* requests
          Targets,          \* request targets, see Target
          PrimaryAttempts,  \* PRIMARY_ATTEMPTS
          BackupAttempts,   \* attempts on the backup
          MaxChunks         \* bound on the chunks of a response

(* What auth_middleware looks at: an absolute-form URI, an open path (/,
   /clash, /dsk/...), the leading path segments, the X-Pony-Token header. *)
Target == [absolute : BOOLEAN, open : BOOLEAN,
           path : Seq(Tokens \cup Names \cup {BadInput}),
           header : Tokens \cup {None}]

ASSUME ForwardAssumption ==
  /\ Targets \subseteq Target
  /\ LiveTokens \subseteq Tokens
  /\ PrimaryAttempts \in Nat \ {0} /\ BackupAttempts \in Nat \ {0}
  /\ MaxChunks \in Nat

(* GET, HEAD and OPTIONS; any method with an idempotency key; the rest. *)
Methods == {"safe", "keyed", "bare"}

VARIABLES stage,    \* where the request's handler is
          method,   \* its method, as far as retries tell them apart
          ctx,      \* AuthContext: the token and the route
          edge,     \* the upstream it is being sent to
          onBackup, \* it has failed over
          attempt,  \* attempt of execute_with_attempts
          last,     \* outcome of the last attempt
          sends,    \* history: how often it may have reached an edge, and which
          counted,  \* calls of record_request for it
          chunks,   \* chunks passed to the client
          metered,  \* calls of record_bytes_out for it
          answer    \* status class of the answer

reqVars == <<stage, method, ctx, edge, onBackup, attempt, last, sends, counted,
             chunks, metered, answer>>
vars == <<routeVars, reqVars>>

(* How often a request may have reached an edge (3 is three or more), and the
   edges. *)
Deliveries == [times : 0 .. 3, edges : SUBSET Upstreams]
NotSent == [times |-> 0, edges |-> {}]
Sent(d, u) == [times |-> IF d.times = 3 THEN 3 ELSE d.times + 1, edges |-> d.edges \cup {u}]

NoCtx == [token |-> None, route |-> None]
Outcomes == {"none", "ok", "gateway", "server", "connect", "error", "timeout"}
Answers == {"none", "info", "501", "401", "404", "413", "502", "upstream"}

TypeOK ==
  /\ RouteTypeOK
  /\ stage \in [Reqs -> {"new", "routed", "send", "judge", "stream", "done"}]
  /\ method \in [Reqs -> Methods]
  /\ ctx \in [Reqs -> [token : Tokens \cup {None},
                       route : Tokens \cup Names \cup {BadInput, None}]]
  /\ edge \in [Reqs -> Upstreams \cup {None}]
  /\ onBackup \in [Reqs -> BOOLEAN]
  /\ attempt \in [Reqs -> Nat]
  /\ last \in [Reqs -> Outcomes]
  /\ sends \in [Reqs -> Deliveries]
  /\ counted \in [Reqs -> Nat] /\ chunks \in [Reqs -> Nat]
  /\ metered \in [Reqs -> Nat]
  /\ answer \in [Reqs -> Answers]

Init ==
  /\ RouteInit
  /\ stage = [r \in Reqs |-> "new"]
  /\ method = [r \in Reqs |-> "safe"]
  /\ ctx = [r \in Reqs |-> NoCtx]
  /\ edge = [r \in Reqs |-> None]
  /\ onBackup = [r \in Reqs |-> FALSE]
  /\ attempt = [r \in Reqs |-> 0]
  /\ last = [r \in Reqs |-> "none"]
  /\ sends = [r \in Reqs |-> NotSent]
  /\ counted = [r \in Reqs |-> 0] /\ chunks = [r \in Reqs |-> 0]
  /\ metered = [r \in Reqs |-> 0]
  /\ answer = [r \in Reqs |-> "none"]

Answer(r, a) == /\ answer' = [answer EXCEPT ![r] = a]
                /\ stage' = [stage EXCEPT ![r] = "done"]
Goto(r, s) == stage' = [stage EXCEPT ![r] = s] /\ UNCHANGED answer

-----------------------------------------------------------------------------
(* Authentication. *)

(* A first segment with the token prefix is the token and the route follows;
   otherwise the header holds the token and the first segment is the route. *)
credentials(t) ==
  IF t.path # <<>> /\ t.path[1] \in Tokens
    THEN [token |-> t.path[1],
          route |-> IF Len(t.path) > 1 THEN t.path[2] ELSE None]
    ELSE [token |-> t.header,
          route |-> IF t.path # <<>> THEN t.path[1] ELSE None]

auth_middleware(t) ==
  LET c == credentials(t) IN
  IF t.absolute THEN "501"
  ELSE IF t.open THEN "info"
  ELSE IF c.token = None \/ c.route = None \/ c.token \notin LiveTokens
    THEN "401"
  ELSE "admitted"

Refused(r, t, m) ==
  /\ stage[r] = "new"
  /\ auth_middleware(t) # "admitted"
  /\ method' = [method EXCEPT ![r] = m]
  /\ Answer(r, auth_middleware(t))
  /\ UNCHANGED <<routeVars, ctx, edge, onBackup, attempt, last, sends, counted,
                 chunks, metered>>

(* ... and forward_handler's first step: resolve against the map.  A route
   that is unknown or disabled is answered 404. *)
Arrive(r, t, m) ==
  LET c == credentials(t) IN
  /\ stage[r] = "new"
  /\ auth_middleware(t) = "admitted"
  /\ method' = [method EXCEPT ![r] = m]
  /\ ctx' = [ctx EXCEPT ![r] = c]
  /\ IF resolvable(table, c.route)
       THEN /\ edge' = [edge EXCEPT ![r] = pick_upstream(table[c.route])]
            /\ Goto(r, "routed")
       ELSE Answer(r, "404") /\ UNCHANGED edge
  /\ UNCHANGED <<routeVars, onBackup, attempt, last, sends, counted, chunks,
                 metered>>

-----------------------------------------------------------------------------
(* forward_handler. *)

(* The body is over 32 MB or breaks off: 413, not counted. *)
BodyRefused(r) ==
  /\ stage[r] = "routed"
  /\ Answer(r, "413")
  /\ UNCHANGED <<routeVars, method, ctx, edge, onBackup, attempt, last, sends,
                 counted, chunks, metered>>

(* The body is read and counted; an upstream without a client ends in 502. *)
BodyRead(r) ==
  /\ stage[r] = "routed"
  /\ counted' = [counted EXCEPT ![r] = @ + 1]
  /\ IF edge[r] \in Edges THEN Goto(r, "send") ELSE Answer(r, "502")
  /\ UNCHANGED <<routeVars, method, ctx, edge, onBackup, attempt, last, sends,
                 chunks, metered>>

max_attempts(r) == IF onBackup[r] THEN BackupAttempts ELSE PrimaryAttempts

(* Seeded fault: any transport error is retried. *)
retryable_any_error(r, o) ==
  /\ attempt[r] + 1 < max_attempts(r)
  /\ \/ o \in {"connect", "error"}
     \/ o = "gateway" /\ method[r] # "bare"

(* 502/503/504 only for repeatable requests, a transport error if nothing
   was sent or the request is repeatable, a timeout never. *)
retryable(r, o) ==
  /\ attempt[r] + 1 < max_attempts(r)
  /\ \/ o = "connect"
     \/ o \in {"error", "gateway"} /\ method[r] # "bare"

(* One round of execute_with_attempts: the request goes out, its outcome is
   known, and the loop backs off and goes on or returns.  A connection that
   could not be built carried nothing; any other outcome leaves open whether
   the edge acted on the request. *)
execute_attempt(r, o) ==
  /\ stage[r] = "send"
  /\ o \in Outcomes \ {"none"}
  /\ sends' = IF o = "connect" THEN sends
               ELSE [sends EXCEPT ![r] = Sent(@, edge[r])]
  /\ IF retryable(r, o)
       THEN attempt' = [attempt EXCEPT ![r] = @ + 1] /\ UNCHANGED <<stage, last>>
       ELSE /\ attempt' = [attempt EXCEPT ![r] = 0]
            /\ last' = [last EXCEPT ![r] = o]
            /\ stage' = [stage EXCEPT ![r] = "judge"]
  /\ UNCHANGED <<routeVars, method, ctx, edge, onBackup, counted, chunks,
                 metered, answer>>

should_failover(r) ==
  /\ ~onBackup[r]
  /\ last[r] \in {"connect", "error", "timeout", "gateway", "server"}

(* The backup is the one the map names now, not at resolve. *)
FailsOver(r) == should_failover(r) /\ backup_upstream(ctx[r].route) \in Edges

(* Seeded fault: a route without a backup fails over to the worker. *)
FailoverToAny(r) ==
  /\ stage[r] = "judge"
  /\ should_failover(r)
  /\ edge' = [edge EXCEPT ![r] = "worker"]
  /\ onBackup' = [onBackup EXCEPT ![r] = TRUE]
  /\ Goto(r, "send")
  /\ UNCHANGED <<routeVars, method, ctx, attempt, last, sends, counted, chunks,
                 metered>>

(* Seeded fault: a failover is not remembered and may be repeated. *)
FailoverForgotten(r) ==
  /\ stage[r] = "judge"
  /\ FailsOver(r)
  /\ edge' = [edge EXCEPT ![r] = backup_upstream(ctx[r].route)]
  /\ Goto(r, "send")
  /\ UNCHANGED <<routeVars, method, ctx, onBackup, attempt, last, sends, counted,
                 chunks, metered>>

Failover(r) ==
  /\ stage[r] = "judge"
  /\ FailsOver(r)
  /\ edge' = [edge EXCEPT ![r] = backup_upstream(ctx[r].route)]
  /\ onBackup' = [onBackup EXCEPT ![r] = TRUE]
  /\ Goto(r, "send")
  /\ UNCHANGED <<routeVars, method, ctx, attempt, last, sends, counted, chunks,
                 metered>>

Finish(r) ==
  /\ stage[r] = "judge"
  /\ ~FailsOver(r)
  /\ IF last[r] \in {"ok", "gateway", "server"}
       THEN /\ answer' = [answer EXCEPT ![r] = "upstream"]
            /\ stage' = [stage EXCEPT ![r] = "stream"]
       ELSE Answer(r, "502")
  /\ UNCHANGED <<routeVars, method, ctx, edge, onBackup, attempt, last, sends,
                 counted, chunks, metered>>

(* The counting stream: a chunk is metered, then handed on. *)
StreamChunk(r) ==
  /\ stage[r] = "stream"
  /\ chunks[r] < MaxChunks
  /\ metered' = [metered EXCEPT ![r] = @ + 1]
  /\ chunks' = [chunks EXCEPT ![r] = @ + 1]
  /\ UNCHANGED <<routeVars, stage, method, ctx, edge, onBackup, attempt, last,
                 sends, counted, answer>>

(* The stream ends: the body is complete, broke off, or the client left. *)
StreamEnd(r) ==
  /\ stage[r] = "stream"
  /\ Goto(r, "done")
  /\ UNCHANGED <<routeVars, method, ctx, edge, onBackup, attempt, last, sends,
                 counted, chunks, metered>>

(* What the handler does on its own: send() is cut off after 120 s and the
   pauses between attempts are timers. *)
Serve(r) ==
  \/ \E o \in Outcomes : execute_attempt(r, o)
  \/ Failover(r) \/ Finish(r)

(* Nothing bounds the reading of a body or the passing on of a response. *)
Handle(r) ==
  \/ BodyRefused(r) \/ BodyRead(r)
  \/ Serve(r)
  \/ StreamChunk(r) \/ StreamEnd(r)

Next ==
  \/ \E w \in Workers : Manage(w) /\ UNCHANGED reqVars
  \/ \E r \in Reqs :
       \/ \E t \in Targets, m \in Methods : Refused(r, t, m) \/ Arrive(r, t, m)
       \/ Handle(r)

(* A handler is a task of the runtime: it is polled when its timer fires. *)
Spec == Init /\ [][Next]_vars /\ \A r \in Reqs : WF_vars(Serve(r))

-----------------------------------------------------------------------------
(* Properties. *)

(* A request that may not be repeated (no idempotency key, not GET, HEAD or
   OPTIONS) reaches an edge at most once per edge it is handed to: the retry
   loop never repeats it, only the failover to a backup does. *)
ResendOnlyByFailover ==
  \A r \in Reqs : method[r] = "bare" =>
    sends[r].times <= IF onBackup[r] THEN 2 ELSE 1

(* A request goes only where some version of its route's row pointed: to its
   upstream, or to its backup; deleting or editing the route in flight never
   sends it to an edge the route has not named. *)
SentWhereRouted ==
  \A r \in Reqs : \A u \in sends[r].edges :
    \E t \in history : /\ t[ctx[r].route] # NoRow
                       /\ u \in {pick_upstream(t[ctx[r].route]),
                                 t[ctx[r].route].backup}

(* A request whose body was read gets an answer or the head of one, however
   many attempts fail on both edges and whatever becomes of its route
   meanwhile.  (A body that never comes and a response that never ends hold
   the handler for ever: neither has a timeout.) *)
RequestAnswered ==
  \A r \in Reqs : (stage[r] = "send") ~> (stage[r] \in {"stream", "done"})
=============================================================================
