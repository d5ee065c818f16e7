---------------------------- MODULE MCDesktopProxy ----------------------------
(* Instances for TLC: see the README, section 3. *)
EXTENDS DesktopProxy

MCGoogle == <<"google", "com">>
MCBuiltin == {MCGoogle}
MCAliases == {<<"google", "de">>}
MCRegions == {"hk", "de"}
MCLocalNames == {<<"localhost">>}
MCLocalZones == {<<"local">>}
MCPrivateIps == {<<"10", "0", "0", "1">>}
MCFixedHosts == {<<"gate", "com">>}
MCGateHosts == {<<"site", "com">>}
MCHosts ==
  { MCGoogle, <<"mail", "google", "com">>, <<"google", "com", "hk">>,
    <<"www", "google", "de">>, <<"google", "hk">>, <<"site", "com">>,
    <<"www", "site", "com">>, <<"nas", "local">>, <<"gate", "com">>,
    <<"x", "gate", "com">>, <<"plain">>, <<"localhost">>,
    <<"10", "0", "0", "1">> }
MCVisited == {<<"google", "de">>, <<"site", "com">>}
MCOwn == { [pac |-> "own", enable |-> TRUE] }
MCRequests ==
  { {<<"www", "site", "com">>, <<"site", "com">>}, {<<"gate", "com">>},
    {MCGoogle, <<"plain", "com">>} }
=============================================================================
