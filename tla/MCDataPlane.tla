---------------------------- MODULE MCDataPlane ----------------------------
(* DataPlane with a Cloudflare gate, a Vercel one and a native VPS, or with the
   Cloudflare gate only. *)
EXTENDS DataPlane

CONSTANTS c1, c2

MCConns == {c1, c2}
MCGateLists == {<<"cf", "vc", "rn">>, <<"cf">>}
MCClass == [e \in {"cf", "vc", "rn"} |->
              CASE e = "cf" -> "cf" [] e = "vc" -> "vercel" [] e = "rn" -> "vps"]
=============================================================================
