--------------------------- MODULE MCIngestClient ---------------------------
(***************************************************************************)
(* The three state machines below ResilientHttpClient: the request path    *)
(* itself, its token bucket and its caches.  They share no variable, so    *)
(* every order in which their steps could be interleaved shows the same;   *)
(* an instance runs one of them.                                           *)
(***************************************************************************)
EXTENDS HttpClient, TokenBucket, ResponseCache

CONSTANTS c1, c2, c3, u1, u2, r1, r2

VARIABLE part  \* which of the machines runs

\* Two URLs of different endpoints share the provider's guard and nothing else.
MCEndpointOf == [u \in Urls |-> IF u = u1 THEN "tokens" ELSE "search"]

\* The readers share one process: a page that another one has evicted, or that
\* has expired, comes from Redis as it would to another process.
MCProcessOf == [r \in Readers |-> "api"]

MCVars == <<part, vars, bucketVars, cacheVars>>

MCInit ==
    /\ part \in {"client", "bucket", "cache"}
    /\ Init
    /\ BucketInit
    /\ CacheInit

MCNext ==
    /\ UNCHANGED part
    /\ \/ part = "client" /\ Next /\ UNCHANGED <<bucketVars, cacheVars>>
       \/ part = "bucket" /\ BucketNext /\ UNCHANGED <<vars, cacheVars>>
       \/ part = "cache" /\ CacheNext /\ UNCHANGED <<vars, bucketVars>>

\* Only the request path is asked to get on: what the bucket and the caches
\* promise is safety.
MCSpec ==
    /\ MCInit
    /\ [][MCNext]_MCVars
    /\ \A c \in Callers : WF_vars(part = "client" /\ Proceed(c))
=============================================================================
