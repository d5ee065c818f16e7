---------------------------- MODULE MCTunnelPool ----------------------------
(* TunnelPool with an Anycast endpoint "cf", a Vercel one and a native VPS. *)
EXTENDS TunnelPool

MCConfigs == {[eps |-> <<"cf", "vercel">>, tok |-> "A"],
              [eps |-> <<"cf", "vercel">>, tok |-> "B"],
              [eps |-> <<"cf", "vps">>, tok |-> "A"]}
MCOrders == {<<"cf", "vps">>, <<"vps", "cf">>}
MCAnswers == [e \in Endpoints |-> {"ok", "401", "err"}]
=============================================================================
