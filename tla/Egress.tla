------------------------------- MODULE Egress -------------------------------
(* Which gates a tunnel may use and in which order (transport/src/route.rs):
   used by the server's data plane and by the engine. *)
EXTENDS Naturals, Sequences

CONSTANTS Hosts,      \* targets of CONNECT that parse and have port 443
          Compliant,  \* requires_compliant_egress(host)
          StrictAi,   \* is_strict_ai_host(host)
          Video,      \* is_youtube_host(host), with PPROXY_YOUTUBE_PROXY set
          Endpoints,  \* gate URLs
          Class       \* classify_egress(url)

ASSUME EgressAssumption ==
  /\ Compliant \subseteq Hosts /\ StrictAi \subseteq Hosts /\ Video \subseteq Hosts
  /\ Class \in [Endpoints -> {"vps", "vercel", "cf"}]

Rotate(q, n) ==
  [i \in 1..Len(q) |-> q[((i - 1 + n) % Len(q)) + 1]]

(* The entries of q that are in S, in their order. *)
Only(q, S) ==
  LET kept[i \in 0..Len(q)] ==
        IF i = 0 THEN <<>>
        ELSE IF q[i] \in S THEN Append(kept[i - 1], q[i]) ELSE kept[i - 1]
  IN  kept[Len(q)]

OfClass(q, k) == Only(q, {e \in Endpoints : Class[e] = k})

(* order_endpoints_with_offset, with PPROXY_CONSERVE_VERCEL at its default. *)
ordered_gate_urls(urls, h, n) ==
  LET cf == Rotate(OfClass(urls, "cf"), n)
      vercel == Rotate(OfClass(urls, "vercel"), n)
  IN  Rotate(OfClass(urls, "vps"), n) \o
        IF h \in Compliant \cup StrictAi THEN vercel \o cf ELSE cf \o vercel

compliant_egress_endpoints(q) == Only(q, {e \in Endpoints : Class[e] # "cf"})
=============================================================================
