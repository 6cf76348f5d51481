-------------------------- MODULE MCProxyDiscovery --------------------------
(* ProxyDiscovery with two callers and three requests.                       *)
EXTENDS ProxyDiscovery

CONSTANTS t1, t2, r1, r2, r3
=============================================================================
