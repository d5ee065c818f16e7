----------------------------- MODULE GateAccess -----------------------------
(***************************************************************************)
(* The doors of the exit gateway: what a request needs to be let in, and   *)
(* where CONNECT may go (crates/gate-server/src/lib.rs: handle_ws,         *)
(* handle_user_profile, handle_clash_subscription, handle_proxy, main;     *)
(* connect_proxy.rs: read_head, authenticate, principal_for_token,         *)
(* resolve_target), composed with the revocation list they read.           *)
(*                                                                         *)
(* A user token is refused when its jti or its sub is in the set; the two  *)
(* are looked up one after the other while revocations arrive.  What an    *)
(* admitted session does is module GateServer.                             *)
(***************************************************************************)
EXTENDS RevocationList, SequencesExt, FiniteSetsExt

CONSTANTS Clients,    \* connections to the gateway
          Tokens,     \* usr_live_ tokens that pass verify_token
          JtiOf, SubOf,
          Password,   \* what TUNNEL_TOKEN_HASH is the hash of
          Secret,     \* PROXY_SECRET
          Nobody,
          KeySets,    \* the settings found in the environment at a start
          Requests,   \* what clients ask: [door, headers, host]
          Base,       \* values of one byte of an address (256)
          IsPublic(_),\* of a v4 address, as a number
          Answers     \* what a lookup may return: sequences of v4 addresses

Settings == {"verifier", "hash", "secret"}
Ip4(n) == [form |-> "mapped", v |-> n]
NoAddr == [form |-> "none"]
Denied == [form |-> "denied"]

ASSUME AccessAssumption ==
  /\ JtiOf \in [Tokens -> Ids \cup {NoId}] /\ SubOf \in [Tokens -> Ids \cup {NoId}]
  /\ KeySets \subseteq SUBSET Settings
  /\ {Password, Secret, Nobody} \cap Tokens = {}
  /\ Base \in Nat \ {0}
  /\ Answers \subseteq Seq(0..(Base^4 - 1))

VARIABLES keys,   \* which settings the running process was started with
          ask     \* per client: its request and how far it has come

accessVars == <<keys, ask>>
allVars == <<listVars, accessVars>>

NoRequest == [at |-> "idle", door |-> "none", creds |-> <<>>, host |-> <<>>,
              who |-> Nobody, addr |-> NoAddr, sure |-> {}]

AccessInit ==
  /\ ListInit
  /\ keys = {}
  /\ ask = [c \in Clients |-> NoRequest]

-----------------------------------------------------------------------------
(* Where a CONNECT may go.  A host is [form, v]: a number of one to four
   segments ("v4", as inet_aton reads it), a v4 address mapped into v6 (which
   also stands for the v4 address itself), a v6 address of which only the
   verdict matters, or a name (v: is_domain_host and is_valid_host accept it). *)

(* Every segment but the last is one byte; the last takes what is left. *)
parse_legacy_ipv4(s) ==
  LET n == Len(s)
      fits == /\ n \in 1..4
              /\ \A i \in 1..(n - 1) : s[i] < Base
              /\ s[n] < Base^(5 - n)
  IN  IF fits THEN Ip4(s[n] + MapThenSumSet(LAMBDA i : s[i] * Base^(4 - i), 1..(n - 1)))
              ELSE NoAddr

is_public_ip(a) == IF a.form = "mapped" THEN IsPublic(a.v) ELSE a.v

(* The address to dial, Denied, or NoAddr.  A number that does not parse is
   looked up as a name. *)
resolve_target(h, answer) ==
  LET literal == IF h.form = "v4" THEN parse_legacy_ipv4(h.v) ELSE h
      Checked(a) == IF is_public_ip(a) THEN a ELSE Denied
  IN  CASE literal.form \in {"mapped", "v6"} -> Checked(literal)
        [] h.form = "name" /\ ~h.v          -> Denied
        [] OTHER -> CASE answer = <<>> -> NoAddr
                      [] \E i \in 1..Len(answer) : ~IsPublic(answer[i]) -> Denied
                      [] OTHER -> Ip4(answer[1])

-----------------------------------------------------------------------------
(* The credentials a request presents, in the order in which they are tried:
   CONNECT tries up to three, a subscription takes the query's before the
   header's, every other door looks at one header. *)
Header(r, n) == IF n \in DOMAIN r.headers THEN <<r.headers[n]>> ELSE <<>>
ConnectCredentials(r) == Header(r, "pony") \o Header(r, "user") \o Header(r, "pass")
SubscriptionCredential(r) ==
  IF "query" \in DOMAIN r.headers THEN Header(r, "query") ELSE Header(r, "bearer")

Presented(r) ==
  CASE r.door = "connect" -> ConnectCredentials(r)
    [] r.door = "clash"   -> SubscriptionCredential(r)
    [] r.door = "proxy"   -> Header(r, "secret")
    [] OTHER              -> Header(r, "bearer")

(* The secret that opens the door d without a user: the tunnel password, for
   the fetch proxy its own, for the profile none. *)
Opens(d, cred) ==
  \/ d = "proxy" /\ cred = Secret /\ "secret" \in keys
  \/ d \in {"ws", "clash", "connect"} /\ cred = Password /\ "hash" \in keys

verify_token(d, cred) == d # "proxy" /\ "verifier" \in keys /\ cred \in Tokens

(* Lines that were written whole, on which nobody can write any more. *)
WholeLines == {file[j] : j \in {i \in 1..(Len(file) - 1) :
                 file[i] # NL /\ (i = 1 \/ file[i - 1] = NL) /\ file[i + 1] = NL}}

(* What a request is to be judged by: the set, and the whole lines of a file
   that this start could read. *)
Known == mem \cup (IF blind THEN {} ELSE WholeLines)

Move(c, r) == ask' = [ask EXCEPT ![c] = r] /\ UNCHANGED <<listVars, keys>>
Leave(c) == Move(c, NoRequest)
Advance(c, p) == Move(c, [ask[c] EXCEPT !.at = p])

(* A request comes in.  On the CONNECT port its head is still to be read. *)
Arrive(c, r) ==
  /\ up /\ ask[c].at = "idle"
  /\ Move(c, [NoRequest EXCEPT !.at = IF r.door = "connect" THEN "head" ELSE "creds",
                               !.door = r.door, !.host = r.host,
                               !.creds = Presented(r),
                               !.sure = Known])

(* read_head and parse_connect_head: the head is there, or it is too slow, too
   long or malformed, or the client is gone. *)
HeadRead(c) == ask[c].at = "head" /\ Advance(c, "creds")
HeadFails(c) == ask[c].at = "head" /\ Leave(c)

(* On to what the door is for: CONNECT looks at its target first. *)
Admit(c, p) ==
  Move(c, [ask[c] EXCEPT !.who = p,
                         !.at = IF ask[c].door = "connect" THEN "target" ELSE "open"])

(* CONNECT tries the next credential it was shown; every other door refuses. *)
NextCredential(c) ==
  IF ask[c].door = "connect"
    THEN Move(c, [ask[c] EXCEPT !.at = "creds", !.creds = Tail(@)])
    ELSE Leave(c)

(* principal_for_token: the signature, the secret, and jti ... *)
CheckCredential(c) ==
  LET r == ask[c]  cred == Head(r.creds)
  IN  /\ r.at = "creds" /\ r.creds # <<>>
      /\ CASE verify_token(r.door, cred) /\ ~Refused(JtiOf[cred]) -> Advance(c, "sub")
           [] Opens(r.door, cred) -> Admit(c, cred)
           [] OTHER -> NextCredential(c)

(* Seeded fault: the token's sub is not looked up. *)
CheckSubOmitted(c) == ask[c].at = "sub" /\ Admit(c, Head(ask[c].creds))

(* ... then sub. *)
CheckSub(c) ==
  LET cred == Head(ask[c].creds)
  IN  /\ ask[c].at = "sub"
      /\ IF Refused(SubOf[cred]) THEN NextCredential(c) ELSE Admit(c, cred)

(* 401 or 407. *)
NoCredential(c) == ask[c].at = "creds" /\ ask[c].creds = <<>> /\ Leave(c)

(* CONNECT: another port than 443 is refused; the target is resolved once. *)
PortDenied(c) == ask[c].at = "target" /\ Leave(c)

Resolve(c, answer) ==
  LET a == resolve_target(ask[c].host, answer)
  IN  /\ ask[c].at = "target"
      /\ IF a.form \in {"denied", "none"} THEN Leave(c)
         ELSE Move(c, [ask[c] EXCEPT !.at = "dial", !.addr = a])

(* Past the quota check, the checked address itself is dialled. *)
Dial(c) == ask[c].at = "dial" /\ Advance(c, "open")

(* The quota is used up, or the dial fails or takes too long. *)
DialFails(c) == ask[c].at = "dial" /\ Leave(c)

(* What the doors are for: the account's state, the subscription (it carries
   the credential that was presented), a page fetched on the caller's behalf
   unless its URL, its body or the fetch is at fault, and tunnels that end. *)
Finish(c, doors) == ask[c].at = "open" /\ ask[c].door \in doors /\ Leave(c)
ProfileSent(c) == Finish(c, {"profile"})
SubscriptionSent(c) == Finish(c, {"clash"})
Fetched(c) == Finish(c, {"proxy"})
TunnelEnds(c) == Finish(c, {"ws", "connect"})

Visit(c) ==
  \/ \E r \in Requests : Arrive(c, r)
  \/ HeadRead(c) \/ HeadFails(c) \/ CheckCredential(c) \/ CheckSub(c)
  \/ NoCredential(c) \/ PortDenied(c)
  \/ \E a \in Answers : Resolve(c, a)
  \/ Dial(c) \/ DialFails(c)
  \/ ProfileSent(c) \/ SubscriptionSent(c) \/ Fetched(c) \/ TunnelEnds(c)

(* A start reads the settings, loads the list, then listens. *)
Start ==
  /\ Load
  /\ keys' \in KeySets
  /\ UNCHANGED ask

Stop ==
  /\ Crash
  /\ ask' = [c \in Clients |-> NoRequest]
  /\ keys' = {}

Revoking ==
  /\ \E h \in Handlers : Revoke(h)
  /\ UNCHANGED accessVars

AccessNext == Start \/ Stop \/ Revoking \/ \E c \in Clients : Visit(c)

AccessSpec == AccessInit /\ [][AccessNext]_allVars

-----------------------------------------------------------------------------
AccessTypeOK ==
  /\ ListTypeOK
  /\ keys \subseteq Settings
  /\ \A c \in Clients :
       /\ ask[c].at \in {"idle", "head", "creds", "sub", "target", "dial", "open"}
       /\ ask[c].who \in Tokens \cup {Password, Secret, Nobody}
       /\ ask[c].sure \subseteq Ids

(* Who is let in.  A token gets in at no door once its jti or its sub was
   revoked before the request came: while the process runs because the set
   holds it, and after any number of restarts because its whole line is
   loaded - whatever happened to other lines, whichever of the credentials
   presented next to it was tried first, and although jti and sub are looked
   up apart.  Two exceptions, which the code makes silently: a line that was
   torn or ran together with another one is lost at the next start, and a
   start that cannot read the file forgets all of it.  And a CONNECT dials
   only an address that resolve_target found public, in whatever spelling or
   by whichever lookup it came. *)
AdmittedSoundly ==
  \A c \in Clients :
    LET r == ask[c]
    IN  /\ r.who \in Tokens => {JtiOf[r.who], SubOf[r.who]} \cap r.sure = {}
        /\ r.door = "connect" /\ r.at = "open" => is_public_ip(r.addr)
=============================================================================
