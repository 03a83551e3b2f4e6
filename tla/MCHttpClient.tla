---------------------------- MODULE MCHttpClient ----------------------------
EXTENDS HttpClient

CONSTANTS c1, c2, c3, u1, u2

\* Two URLs of different endpoints share the provider's guard and nothing else.
MCEndpointOf == [u \in Urls |-> IF u = u1 THEN "tokens" ELSE "search"]
=============================================================================
