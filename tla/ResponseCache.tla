--------------------------- MODULE ResponseCache ---------------------------
(***************************************************************************)
(* ResponseCacheStore (ingestion/resilience/cache_store.py) in front of    *)
(* get_json: the local LRU of each process, and the Redis all of them      *)
(* share.  A lookup suspends while Redis is asked, and comes back with an  *)
(* answer that may have been true some time ago; it then gives what it got *)
(* a whole new TTL in its process.                                         *)
(*                                                                         *)
(* A payload stands for the time at which the provider gave it.  A lookup  *)
(* takes no answer of Redis after redis_timeout_seconds: wait_for gives    *)
(* up, and every failure of Redis counts as a miss.  A SETEX that is       *)
(* given up is not taken back: Redis may apply it at any later time, or    *)
(* never.  So each copy says how late Redis applied the SETEX it comes     *)
(* from.  With a TTL of 0 both methods return at once and there is         *)
(* nothing to model.                                                       *)
(***************************************************************************)
EXTENDS Integers, Sequences, FiniteSets

CONSTANTS
    Processes,      \* each has its own client and local cache
    Readers,        \* tasks that call get_json, over and over
    ProcessOf,      \* the process of each reader
    Pages,          \* URLs
    CacheTtl,       \* ttl_seconds, in ticks
    TicksPerSecond,
    MaxEntries,     \* max_entries of the local cache
    RedisTimeout,   \* redis_timeout_seconds, in ticks
    MaxUnderWay,    \* bound of the commands on their way
    CacheHorizon    \* bound of the clock

ASSUME CacheAssumption ==
    /\ ProcessOf \in [Readers -> Processes]
    /\ CacheTtl \in Nat \ {0}
    /\ TicksPerSecond \in Nat \ {0}
    /\ MaxEntries \in Nat \ {0}
    /\ RedisTimeout \in Nat
    /\ MaxUnderWay \in Nat
    /\ CacheHorizon \in Nat

VARIABLES
    cacheNow, \* monotonic(), in ticks
    local,    \* local[p]: _response_cache, the least recently used entry first
    redis,    \* redis[u]: what Redis holds of u, until it expires
    sent,     \* SETEX commands on their way; equal ones count as one
    lookup,   \* lookup[r]: where r is inside get_json
    \* history, read by the properties only
    served    \* the age of the payload the last step gave a caller, if any, and its delay

cacheVars == <<cacheNow, local, redis, sent, lookup, served>>

\* SETEX takes whole seconds, and at least one.
RedisTtl ==
    TicksPerSecond * (IF CacheTtl < TicksPerSecond THEN 1 ELSE CacheTtl \div TicksPerSecond)

\* late: how long after its birth the payload came into Redis, if it comes from there.
Entry == [url : Pages, born : Nat, late : Nat, expires : Nat]
\* A key that Redis does not hold.
Nothing == [born |-> 0, late |-> 0, expires |-> 0]
NoLookup == [pc |-> "idle"]
Lookup ==
    {NoLookup} \cup
    [pc : {"asking", "answered", "fetching", "writing"}, url : Pages, since : Nat,
     born : Nat, late : Nat]

CacheTypeOK ==
    /\ cacheNow \in Nat
    /\ local \in [Processes -> Seq(Entry)]
    /\ redis \in [Pages -> [born : Nat, late : Nat, expires : Nat]]
    /\ sent \subseteq [url : Pages, born : Nat]
    /\ lookup \in [Readers -> Lookup]
    /\ served \in [age : Nat, late : Nat]

CacheInit ==
    /\ cacheNow = 0
    /\ local = [p \in Processes |-> <<>>]
    /\ redis = [u \in Pages |-> Nothing]
    /\ sent = {}
    /\ lookup = [r \in Readers |-> NoLookup]
    /\ served = [age |-> 0, late |-> 0]

Serve(payload) == served' = [age |-> cacheNow - payload.born, late |-> payload.late]
ServeNothing == served' = [age |-> 0, late |-> 0]

\* Redis drops what has expired.  A command stays on its way, however long.
CacheTick ==
    /\ cacheNow < CacheHorizon
    /\ cacheNow' = cacheNow + 1
    /\ redis' = [u \in Pages |-> IF redis[u].expires <= cacheNow + 1 THEN Nothing ELSE redis[u]]
    /\ UNCHANGED <<local, sent, lookup>>
    /\ ServeNothing

-----------------------------------------------------------------------------
(***************************************************************************)
(* The local cache, an OrderedDict.                                        *)
(***************************************************************************)
At(p, u) == {i \in 1 .. Len(local[p]) : local[p][i].url = u}

Without(s, i) == SubSeq(s, 1, i - 1) \o SubSeq(s, i + 1, Len(s))

Popped(p, u) ==
    IF At(p, u) = {} THEN local[p] ELSE Without(local[p], CHOOSE i \in At(p, u) : TRUE)

\* _compact_locked
Compacted(s) == IF Len(s) > MaxEntries THEN SubSeq(s, Len(s) - MaxEntries + 1, Len(s)) ELSE s

\* Assigning to a key that is present leaves it at its place in the order.
Assigned(p, e) ==
    IF At(p, e.url) = {} THEN Append(local[p], e)
    ELSE [local[p] EXCEPT ![CHOOSE i \in At(p, e.url) : TRUE] = e]

NewEntry(u, birth, delay) ==
    [url |-> u, born |-> birth, late |-> delay, expires |-> cacheNow + CacheTtl]

-----------------------------------------------------------------------------
(***************************************************************************)
(* get, and what get_json does with a miss.                                *)
(***************************************************************************)
\* Broken variant: the entry is not asked for its expiry.
LocalHitUnexpiring(r, u) ==
    LET p == ProcessOf[r] IN
    /\ lookup[r] = NoLookup
    /\ \E i \in At(p, u) :
          /\ local' = [local EXCEPT ![p] = Append(Without(@, i), @[i])]
          /\ Serve(local[p][i])
    /\ UNCHANGED <<cacheNow, redis, sent, lookup>>

LocalHit(r, u) ==
    LET p == ProcessOf[r] IN
    /\ lookup[r] = NoLookup
    /\ \E i \in At(p, u) :
          /\ local[p][i].expires > cacheNow
          /\ local' = [local EXCEPT ![p] = Append(Without(@, i), @[i])]
          /\ Serve(local[p][i])
    /\ UNCHANGED <<cacheNow, redis, sent, lookup>>

\* Nothing, or something expired that is dropped: Redis is asked.
AskRedis(r, u) ==
    LET p == ProcessOf[r] IN
    /\ lookup[r] = NoLookup
    /\ \A i \in At(p, u) : local[p][i].expires <= cacheNow
    /\ local' = [local EXCEPT ![p] = Popped(p, u)]
    /\ lookup' = [lookup EXCEPT ![r] =
                      [pc |-> "asking", url |-> u, since |-> cacheNow, born |-> 0, late |-> 0]]
    /\ UNCHANGED <<cacheNow, redis, sent>>
    /\ ServeNothing

\* A later answer is not taken.
RedisAnswers(r) ==
    /\ lookup[r].pc = "asking"
    /\ cacheNow <= lookup[r].since + RedisTimeout
    /\ LET held == redis[lookup[r].url] IN
          /\ held.expires > cacheNow
          /\ lookup' = [lookup EXCEPT ![r].pc = "answered", ![r].born = held.born, ![r].late = held.late]
    /\ UNCHANGED <<cacheNow, local, redis, sent>>
    /\ ServeNothing

\* The lookup resumes with Redis's answer: into the local cache it goes.
RedisHit(r) ==
    LET p == ProcessOf[r]
        e == NewEntry(lookup[r].url, lookup[r].born, lookup[r].late)
    IN
    /\ lookup[r].pc = "answered"
    /\ cacheNow <= lookup[r].since + RedisTimeout
    /\ local' = [local EXCEPT ![p] = Compacted(Assigned(p, e))]
    /\ lookup' = [lookup EXCEPT ![r] = NoLookup]
    /\ Serve(lookup[r])
    /\ UNCHANGED <<cacheNow, redis, sent>>

Leading(p, u) ==
    \E q \in Readers :
        ProcessOf[q] = p /\ lookup[q].pc \in {"fetching", "writing"} /\ lookup[q].url = u

\* No answer, an error or a timeout.  r leads the request, unless another task
\* of its process does: then it gets that one's result (HttpClient).
Miss(r) ==
    /\ lookup[r].pc \in {"asking", "answered"}
    /\ lookup' = IF Leading(ProcessOf[r], lookup[r].url)
                 THEN [lookup EXCEPT ![r] = NoLookup]
                 ELSE [lookup EXCEPT ![r].pc = "fetching", ![r].since = 0, ![r].born = 0, ![r].late = 0]
    /\ UNCHANGED <<cacheNow, local, redis, sent>>
    /\ ServeNothing

(***************************************************************************)
(* set, called by the leader with a payload that has just come.  The SETEX *)
(* goes out, or fails before it does.                                      *)
(***************************************************************************)
Fetched(r) ==
    LET p == ProcessOf[r]
        u == lookup[r].url
    IN
    /\ lookup[r].pc = "fetching"
    /\ local' = [local EXCEPT ![p] = Compacted(Append(Popped(p, u), NewEntry(u, cacheNow, 0)))]
    /\ \/ sent' = sent
       \/ /\ Cardinality(sent) < MaxUnderWay
          /\ sent' = sent \cup {[url |-> u, born |-> cacheNow]}
    /\ lookup' = [lookup EXCEPT ![r].pc = "writing"]
    /\ UNCHANGED <<cacheNow, redis>>
    /\ ServeNothing

\* Whether the task that sent c still waits for it or not.
RedisApplies(c) ==
    /\ redis' = [redis EXCEPT ![c.url] =
                     [born |-> c.born, late |-> cacheNow - c.born, expires |-> cacheNow + RedisTtl]]
    /\ sent' = sent \ {c}
    /\ UNCHANGED <<cacheNow, local, lookup>>
    /\ ServeNothing

RedisLoses(c) ==
    /\ sent' = sent \ {c}
    /\ UNCHANGED <<cacheNow, local, redis, lookup>>
    /\ ServeNothing

\* The end of a call that does not change the caches: set has returned, or has
\* given up waiting, with its command applied, lost or on its way; the request has
\* failed; or the caller is cancelled, at any await.
Leave(r) ==
    /\ lookup[r] # NoLookup
    /\ lookup' = [lookup EXCEPT ![r] = NoLookup]
    /\ UNCHANGED <<cacheNow, local, redis, sent>>
    /\ ServeNothing

CacheNext ==
    \/ CacheTick
    \/ \E r \in Readers :
          \/ \E u \in Pages : LocalHit(r, u) \/ AskRedis(r, u)
          \/ RedisAnswers(r)
          \/ RedisHit(r)
          \/ Miss(r)
          \/ Fetched(r)
          \/ Leave(r)
    \/ \E c \in sent : RedisApplies(c) \/ RedisLoses(c)

CacheSpec == CacheInit /\ [][CacheNext]_cacheVars

-----------------------------------------------------------------------------
(***************************************************************************)
(* How old a payload can be when a caller is given it from a cache.  Both  *)
(* TTLs add up, as the local cache counts a new one from Redis's answer,   *)
(* and so does the lookup's wait for that answer; but they add up once     *)
(* only, however many processes and tasks hand the payload on, write it    *)
(* over newer ones or time out.  A SETEX that Redis applies after set has  *)
(* given up on it, to whatever Redis then holds, adds the time it was      *)
(* under way, once, and nothing else.  Each TTL ends before its last tick  *)
(* is over.                                                                *)
(***************************************************************************)
StalenessBounded == served.age <= served.late + (CacheTtl - 1) + (RedisTtl - 1) + RedisTimeout
=============================================================================
