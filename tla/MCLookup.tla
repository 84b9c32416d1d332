------------------------------- MODULE MCLookup -------------------------------
(* Two hosts, two protocols, and one more port; configurations of several  *)
(* networks and engines.                                                   *)
EXTENDS Pinger
CONSTANTS a, b

Key(proto, host, port) == [proto |-> proto, host |-> host, port |-> port]
fa == Key("ftp", a, 0)
ga == Key("ftp", a, 8080)
ha == Key("http", a, 8080)
fb == Key("ftp", b, 0)
MCKeys == {fa, fb, ga, ha}
MCEmpty == {fa}

E(class, net, hosts, shares) ==
  [class |-> class, net |-> net, hosts |-> hosts, shares |-> shares,
   zone |-> class = "DNSZoneKeys", free |-> class = "ManualShares"]
\* ftp is the one protocol with a default port
Default(class, net, hosts) == E(class, net, hosts, {<<Key("ftp", h, 0), None>> : h \in hosts})

MCConfigs == {
  \* a share with its scantype given, and an engine that has nothing to do with it
  <<E("ManualShares", "n", {}, {<<ga, "-M">>}), Default("StandardHosts", "n", {a, b})>>,
  \* both networks want the same host, another is skipped
  <<E("SkipHosts", "n", {b}, {}), Default("StandardHosts", "n", {a}), Default("DNSZoneKeys", "m", {a, b})>>,
  \* two shares on a port, and one found by a later engine whose scantype is kept
  <<E("ManualShares", "n", {}, {<<ga, None>>, <<ha, None>>}), E("KeepDBShares", "n", {a}, {<<ga, Stored>>})>> }
=============================================================================
