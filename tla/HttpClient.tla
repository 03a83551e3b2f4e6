----------------------------- MODULE HttpClient -----------------------------
(***************************************************************************)
(* ResilientHttpClient.get_json (ingestion/resilience): the callers of one *)
(* provider and chain, after both caches have missed (a hit returns before *)
(* anything below and changes nothing here; see ResponseCache).            *)
(*                                                                         *)
(* Callers of the same URL share one request: the first leads, the others  *)
(* await its future.  Only the leader asks the backoff guard (one for the  *)
(* provider) and the breaker (one per endpoint) and sends requests.        *)
(*                                                                         *)
(* As in ResilientExecutor an action is what happens between two awaits    *)
(* that suspend.  A future that is done ends its followers' calls at once: *)
(* what is left to them is to return, and a cancellation that comes in     *)
(* between only changes how.                                               *)
(***************************************************************************)
EXTENDS CircuitBreaker, BackoffGuard, FiniteSets

CONSTANTS
    Callers,        \* tasks that call get_json, over and over
    Urls,           \* what they ask for
    Endpoints,      \* groups of URLs with a breaker of their own
    EndpointOf,     \* the endpoint argument that comes with each URL
    NoCaller,       \* no leader
    RetryAttempts,  \* get_retry_attempts
    MaxTime         \* bound of the clock

ASSUME HttpAssumption ==
    /\ IsFiniteSet(Callers)
    /\ NoCaller \notin Callers
    /\ EndpointOf \in [Urls -> Endpoints]
    /\ RetryAttempts \in Nat \ {0}
    /\ MaxTime \in Nat

VARIABLES
    now,      \* monotonic(), in ticks
    breaker,  \* breaker[e]: AsyncCircuitBreaker of provider, chain and endpoint
    guard,    \* BackoffGuard of provider and chain
    leader,   \* leader[u]: whose future _inflight_requests holds for u
    severed,  \* URLs whose future a follower has cancelled
    call,     \* call[c]: where c is inside get_json
    \* history, read by the properties only
    probes,   \* probes[e]: callers that hold a slot of the half-open period of e
    leaked    \* leaked[e]: slots whose call is gone, unrecorded

vars == <<now, breaker, guard, leader, severed, call, probes, leaked>>

Idle == [pc |-> "idle", attempt |-> 0]

\* What c asks for is read off its call; an idle caller asks for nothing.
Call ==
    {Idle} \cup
    [pc : {"following", "attempting", "sleeping", "storing"}, url : Urls, attempt : 0 .. RetryAttempts]

TypeOK ==
    /\ now \in Nat
    /\ breaker \in [Endpoints -> Breaker]
    /\ guard \in Guard
    /\ leader \in [Urls -> Callers \cup {NoCaller}]
    /\ severed \subseteq Urls
    /\ call \in [Callers -> Call]
    /\ probes \in [Endpoints -> SUBSET Callers]
    /\ leaked \in [Endpoints -> Nat]

Init ==
    /\ now = 1
    /\ breaker = [e \in Endpoints |-> NewBreaker]
    /\ guard = NewGuard
    /\ leader = [u \in Urls |-> NoCaller]
    /\ severed = {}
    /\ call = [c \in Callers |-> Idle]
    /\ probes = [e \in Endpoints |-> {}]
    /\ leaked = [e \in Endpoints |-> 0]

Tick ==
    /\ now < MaxTime
    /\ now' = now + 1
    /\ UNCHANGED <<breaker, guard, leader, severed, call, probes, leaked>>

-----------------------------------------------------------------------------
(***************************************************************************)
(* SingleFlightGroup.acquire.                                              *)
(***************************************************************************)
Follow(c, u) ==
    /\ call[c] = Idle
    /\ leader[u] # NoCaller
    /\ u \notin severed
    /\ call' = [call EXCEPT ![c] = [pc |-> "following", url |-> u, attempt |-> 0]]
    /\ UNCHANGED <<now, breaker, guard, leader, severed, probes, leaked>>

\* The future is cancelled already: awaiting it raises at once.
FollowSevered(c, u) ==
    /\ call[c] = Idle
    /\ leader[u] # NoCaller
    /\ u \in severed
    /\ UNCHANGED vars

Requesting(c) == call[c].pc \in {"attempting", "sleeping", "storing"}

Admitted(e) == GuardAllows(guard, now) /\ Allows(breaker[e], now)

\* The leader is refused: it sets the result None and releases, with no await
\* in between that suspends.
Refuse(c, u) ==
    /\ call[c] = Idle
    /\ leader[u] = NoCaller
    /\ ~Admitted(EndpointOf[u])
    /\ UNCHANGED vars

Lead(c, u) ==
    LET e == EndpointOf[u] IN
    /\ call[c] = Idle
    /\ leader[u] = NoCaller
    /\ Admitted(e)
    /\ breaker' = [breaker EXCEPT ![e] = AfterAllow(@, now)]
    /\ leader' = [leader EXCEPT ![u] = c]
    /\ call' = [call EXCEPT ![c] = [pc |-> "attempting", url |-> u, attempt |-> 1]]
    /\ probes' = IF breaker[e].state = "closed" THEN probes
                 ELSE [probes EXCEPT ![e] = @ \cup {c}]
    /\ UNCHANGED <<now, guard, severed, leaked>>

Followers(u) == {d \in Callers : call[d].pc = "following" /\ call[d].url = u}

\* Broken variant: the future is dropped without being set.
FinishForgetsFollowers(c) ==
    LET u == call[c].url IN
    /\ call' = [call EXCEPT ![c] = Idle]
    /\ leader' = [leader EXCEPT ![u] = NoCaller]
    /\ severed' = severed \ {u}

(***************************************************************************)
(* The end of a leader's call, by a result or an exception: its future is  *)
(* done, unless a follower has cancelled it, and its entry is released.    *)
(***************************************************************************)
Finish(c) ==
    LET u == call[c].url IN
    /\ call' = [d \in Callers |-> IF d \in {c} \cup Followers(u) THEN Idle ELSE call[d]]
    /\ leader' = [leader EXCEPT ![u] = NoCaller]
    /\ severed' = severed \ {u}

-----------------------------------------------------------------------------
(***************************************************************************)
(* _request_json_uncached, once it has been let through.                   *)
(***************************************************************************)
\* Any outcome that is recorded settles the half-open period of the endpoint.
Settle(e) ==
    /\ probes' = [probes EXCEPT ![e] = {}]
    /\ leaked' = [leaked EXCEPT ![e] = 0]

\* A JSON object: recorded with breaker and guard before it is stored.
Succeed(c) ==
    LET e == EndpointOf[call[c].url] IN
    /\ call[c].pc = "attempting"
    /\ breaker' = [breaker EXCEPT ![e] = AfterSuccess(@)]
    /\ guard' = GuardAfterSuccess(guard)
    /\ call' = [call EXCEPT ![c].pc = "storing"]
    /\ Settle(e)
    /\ UNCHANGED <<now, leader, severed>>

\* cache.set returns, whatever Redis says.
Stored(c) ==
    /\ call[c].pc = "storing"
    /\ Finish(c)
    /\ UNCHANGED <<now, breaker, guard, probes, leaked>>

\* An error that is not retryable, or any on the last attempt: one failure.
Fail(c) ==
    LET e == EndpointOf[call[c].url] IN
    /\ call[c].pc = "attempting"
    /\ breaker' = [breaker EXCEPT ![e] = AfterFailure(@, now)]
    /\ guard' = GuardAfterFailure(guard, now)
    /\ Settle(e)
    /\ Finish(c)
    /\ UNCHANGED now

\* Broken variant: the last attempt is retried too.
RetryLaterUnbounded(c) ==
    /\ call[c].pc = "attempting"
    /\ call' = [call EXCEPT ![c].pc = "sleeping"]
    /\ UNCHANGED <<now, breaker, guard, leader, severed, probes, leaked>>

RetryLater(c) ==
    /\ call[c].pc = "attempting"
    /\ call[c].attempt < RetryAttempts
    /\ call' = [call EXCEPT ![c].pc = "sleeping"]
    /\ UNCHANGED <<now, breaker, guard, leader, severed, probes, leaked>>

WakeUp(c) ==
    /\ call[c].pc = "sleeping"
    /\ call' = [call EXCEPT ![c].pc = "attempting", ![c].attempt = @ + 1]
    /\ UNCHANGED <<now, breaker, guard, leader, severed, probes, leaked>>

\* Broken variant: "except Exception" where the code has "except BaseException".
LeaveUnrecordedSilently(c) ==
    LET e == EndpointOf[call[c].url] IN
    /\ Requesting(c)
    /\ FinishForgetsFollowers(c)
    /\ probes' = [probes EXCEPT ![e] = @ \ {c}]
    /\ leaked' = [leaked EXCEPT ![e] = IF c \in probes[e] THEN @ + 1 ELSE @]
    /\ UNCHANGED <<now, breaker, guard>>

\* The leader leaves by an exception that records nothing: it is cancelled, or
\* the client raises something that is neither HTTPError nor ValueError.
LeaveUnrecorded(c) ==
    LET e == EndpointOf[call[c].url] IN
    /\ Requesting(c)
    /\ Finish(c)
    /\ probes' = [probes EXCEPT ![e] = @ \ {c}]
    /\ leaked' = [leaked EXCEPT ![e] = IF c \in probes[e] THEN @ + 1 ELSE @]
    /\ UNCHANGED <<now, breaker, guard>>

\* Broken variant: the follower that cancels the future releases its entry too.
CancelFollowerReleases(c) ==
    LET u == call[c].url IN
    /\ call[c].pc = "following"
    /\ call' = [d \in Callers |-> IF d \in Followers(u) THEN Idle ELSE call[d]]
    /\ leader' = [leader EXCEPT ![u] = NoCaller]
    /\ UNCHANGED <<now, breaker, guard, severed, probes, leaked>>

(***************************************************************************)
(* A follower is cancelled while it awaits the leader's future.  The       *)
(* cancellation of a task cancels the future it awaits, and with it every  *)
(* other call that awaits the same; the leader works on.                   *)
(***************************************************************************)
CancelFollower(c) ==
    LET u == call[c].url IN
    /\ call[c].pc = "following"
    /\ call' = [d \in Callers |-> IF d \in Followers(u) THEN Idle ELSE call[d]]
    /\ severed' = severed \cup {u}
    /\ UNCHANGED <<now, breaker, guard, leader, probes, leaked>>

-----------------------------------------------------------------------------
Ask(c, u) == Follow(c, u) \/ FollowSevered(c, u) \/ Refuse(c, u) \/ Lead(c, u)

Proceed(c) ==
    \/ Succeed(c)
    \/ Stored(c)
    \/ Fail(c)
    \/ RetryLater(c)
    \/ WakeUp(c)
    \/ LeaveUnrecorded(c)

Next ==
    \/ Tick
    \/ \E c \in Callers :
          \/ \E u \in Urls : Ask(c, u)
          \/ Proceed(c)
          \/ CancelFollower(c)

Spec == Init /\ [][Next]_vars

(***************************************************************************)
(* A request ends and a sleep is over (both have timeouts).  Followers     *)
(* have nothing of their own to be fair to: they depend on their leader.   *)
(***************************************************************************)
FairSpec == Spec /\ \A c \in Callers : WF_vars(Proceed(c))

-----------------------------------------------------------------------------
(***************************************************************************)
(* At any time at most one caller works on a URL: it is the one whose      *)
(* future is registered, however many followers were cancelled meanwhile.  *)
(***************************************************************************)
OneFlightPerUrl ==
    \A c \in Callers, u \in Urls : Requesting(c) /\ call[c].url = u <=> leader[u] = c

(***************************************************************************)
(* Nobody waits in vain: behind every follower there is a leader at work   *)
(* that will set the future it awaits.                                     *)
(***************************************************************************)
FollowersAreAwaited ==
    \A c \in Callers : call[c].pc = "following" =>
        /\ leader[call[c].url] # NoCaller
        /\ Requesting(leader[call[c].url])
        /\ call[c].url \notin severed

(***************************************************************************)
(* The slots of an endpoint's half-open period: each is held by a leader   *)
(* that still tries, or was lost by one that recorded nothing.             *)
(***************************************************************************)
SlotsOf(e) ==
    /\ \A c \in probes[e] : call[c].pc \in {"attempting", "sleeping"} /\ EndpointOf[call[c].url] = e
    /\ breaker[e].state = "half_open" =>
          /\ breaker[e].halfOpenCalls = Cardinality(probes[e]) + leaked[e]
          /\ breaker[e].halfOpenCalls \in 1 .. HalfOpenMax
    /\ breaker[e].state # "half_open" => probes[e] = {} /\ leaked[e] = 0

SlotsAccounted == \A e \in Endpoints : SlotsOf(e)

(***************************************************************************)
(* Every call returns, a follower's too: the leader's work is bounded, and *)
(* each way it can end releases the followers.                             *)
(***************************************************************************)
CallsReturn == \A c \in Callers : call[c] # Idle ~> call[c] = Idle

(***************************************************************************)
(* What the guide says of singleflight: a follower waits for the leader's  *)
(* result.  A step cancels one caller only; so when the calls of two       *)
(* followers end in one step, it is the leader's that has ended.           *)
(***************************************************************************)
FollowersShareResult ==
    [][\A u \in Urls : \A c, d \in Followers(u) :
          c # d /\ call'[c] = Idle /\ call'[d] = Idle => call'[leader[u]] = Idle]_vars
=============================================================================
