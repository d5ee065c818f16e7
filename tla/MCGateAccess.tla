---------------------------- MODULE MCGateAccess ----------------------------
(* GateAccess with bytes of two values, so that addresses have four bits and
   the private ones are those whose first byte is 0: one address in three
   spellings, a public one, and one past the end. *)
EXTENDS GateAccess

CONSTANTS h1, h2, i1, i2, c1, t1, t2

MCHandlers == {h1, h2}
MCIds == {i1, i2}
MCClients == {c1}
MCTokens == {t1, t2}

(* The first token can be revoked by jti or by user, the other not at all. *)
MCJtiOf == [t \in Tokens |-> IF t = t1 THEN i1 ELSE NoId]
MCSubOf == [t \in Tokens |-> IF t = t1 THEN i2 ELSE NoId]

MCIsPublic(a) == a >= 8
MCAnswers == {<<>>, <<9>>, <<9, 1>>}
MCKeySets == {{"verifier", "hash"}, {"secret"}}

V4(s) == [form |-> "v4", v |-> s]
Site == [form |-> "name", v |-> TRUE]
Ask(d, h, to) == [door |-> d, headers |-> h, host |-> to]
MCRequests ==
  {Ask("ws", [bearer |-> t1], Site), Ask("profile", [bearer |-> t1], Site),
   Ask("clash", [query |-> t1, bearer |-> Password], Site),
   Ask("proxy", [secret |-> Secret], Site),
   Ask("connect", [pony |-> t1, user |-> t2, pass |-> t2], Site),
   Ask("connect", [user |-> t1, pass |-> Password], V4(<<1, 0, 0, 1>>))}
  \cup {Ask("connect", [pony |-> Password], to) :
          to \in {V4(<<0, 0, 0, 1>>), V4(<<1>>), V4(<<0, 0, 1>>), V4(<<9>>), V4(<<16>>),
                  [form |-> "mapped", v |-> 1], [form |-> "v6", v |-> TRUE],
                  [form |-> "name", v |-> FALSE]}}
=============================================================================
