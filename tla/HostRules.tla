------------------------------ MODULE HostRules ------------------------------
(***************************************************************************)
(* Which hosts the desktop application proxies: the whitelist             *)
(* (desktop/src-tauri/src/proxy/whitelist.rs), the PAC script the system   *)
(* is given (pac.rs) and the decision of the engine (engine.rs decide).    *)
(*                                                                         *)
(* A host is the sequence of its labels, in lower case and without final   *)
(* dots, as all three make it before they compare.                         *)
(***************************************************************************)
EXTENDS Sequences, SequencesExt, FiniteSetsExt

CONSTANTS Builtin,     \* BUILTIN_GFW_DOMAINS
          Google,      \* the entry google.com
          Aliases,     \* GOOGLE_ALIASES
          Regions,     \* labels of two or three letters
          LocalNames,  \* localhost and the loopback addresses
          LocalZones,  \* ts.net, local, internal
          PrivateIps   \* other addresses isPrivateHost knows

suffix_match(h, e) == IsSuffix(e, h)

RegionOf(h, e) ==
  /\ e = Google /\ Len(h) > 1
  /\ Last(h) \in Regions /\ suffix_match(Front(h), e)

alias_match(h, e) ==
  \/ e = Google /\ \E a \in Aliases : suffix_match(h, a)
  \/ RegionOf(h, e)

matches(h, entries) ==
  \E e \in Builtin \cup entries : suffix_match(h, e) \/ alias_match(h, e)

expand_entries(entries) ==
  LET all == Builtin \cup entries
  IN all \cup (IF Google \in all THEN Aliases ELSE {})

InZone(h) == \E z \in LocalZones : h # z /\ suffix_match(h, z)

(* The engine's decision. *)
decide(h, entries, mode, bypass) ==
  IF h \in LocalNames \cup bypass \/ InZone(h) THEN "direct"
  ELSE IF mode = "global" \/ matches(h, entries) THEN "tunnel" ELSE "direct"

(* The script's: plain names and private addresses first, then everything
   below a bypass host. *)
generate_pac(h, entries, mode, bypass) ==
  IF \/ Len(h) = 1 \/ h \in LocalNames \cup PrivateIps \/ InZone(h)
     \/ \E b \in bypass : suffix_match(h, b)
    THEN "DIRECT"
  ELSE IF \/ mode = "global"
          \/ \E e \in expand_entries(entries) : suffix_match(h, e) \/ RegionOf(h, e)
    THEN "PROXY" ELSE "DIRECT"

-----------------------------------------------------------------------------
(* proxy_whitelist_set (lib.rs). *)

is_valid_domain(e) == Len(e) >= 2 /\ e \notin LocalNames \cup PrivateIps

Accepts(req, existing, bypass) ==
  /\ \A e \in req : is_valid_domain(e)
  /\ \A b \in bypass : ~matches(b, req)
  /\ \A e \in req \ existing : ~matches(e, existing)

(* One entry at a time: skipped when covered, else what it covers goes. *)
minimal(req) ==
  FoldSet(LAMBDA cand, kept :
            IF matches(cand, kept) THEN kept
            ELSE {ex \in kept : ~matches(ex, {cand})} \cup {cand},
          {}, req)
=============================================================================
