--------------------------- MODULE MCSocksDispatch ---------------------------
EXTENDS SocksDispatch

\* What normalizeBypassDomain makes of the names and the configured domains.
MCCanonical ==
    ("WWW.Example.com." :> <<"www", "example", "com">>) @@
    ("badexample.com" :> <<"badexample", "com">>) @@
    ("example.com:443" :> <<"example", "com">>) @@
    ("10.0.0.0/8" :> <<>>)
MCNames == {"WWW.Example.com.", "badexample.com"}

Base == [mode |-> "l3", remoteDNS |-> TRUE, dns |-> Servers, bypassDomain |-> {},
         proxyTCPPort |-> {}, blockUDP443 |-> TRUE, l4UDP |-> "", l4PoolSize |-> 0]
Bypass == {"example.com:443", "10.0.0.0/8"}

MCRawConfigs == {
    [Base EXCEPT !.bypassDomain = Bypass],
    [Base EXCEPT !.bypassDomain = Bypass, !.proxyTCPPort = {443}, !.dns = {}],
    [Base EXCEPT !.remoteDNS = FALSE, !.blockUDP443 = FALSE, !.proxyTCPPort = {80}],
    [Base EXCEPT !.proxyTCPPort = {80, 70000}],
    [Base EXCEPT !.mode = "l4", !.bypassDomain = Bypass],
    [Base EXCEPT !.mode = "l4", !.l4UDP = "direct", !.l4PoolSize = 3, !.proxyTCPPort = {443}],
    [Base EXCEPT !.mode = "l4", !.l4UDP = "tunnel", !.l4PoolSize = 9, !.bypassDomain = Bypass],
    [Base EXCEPT !.mode = "l4", !.l4UDP = "other"],
    [Base EXCEPT !.mode = "socks"]}

MCClientHash == [c \in Callers |-> IF c = CHOOSE d \in Callers : TRUE THEN 2 ELSE 7]
=============================================================================
