------------------------------ MODULE HttpApi ------------------------------
(***************************************************************************)
(* The API process (app/main.py) as its callers see it: the middleware     *)
(* that counts requests per address and path in a sliding window, the      *)
(* sweeping of these windows by age and by number, the second window in    *)
(* front of replay, and the endpoints with the services they look up.      *)
(*                                                                         *)
(* The middleware and the replay guard do not await, so each is one step;  *)
(* between them (call_next) other requests come in.  What a service does   *)
(* with a request is PipelineRuns and Backtest.                            *)
(***************************************************************************)
EXTENDS Integers, Sequences, FiniteSets

CONSTANTS
    Keys,            \* pairs of a caller's address and a path
    Endpoint,        \* Endpoint[k]: "open", "pipeline", "replay" or "backtest"
    ChainOf,         \* the chain in the path of each key
    ReplayAllowed,   \* replay_allowed_chains
    Supported,       \* supported_chains
    Limit,           \* rate_limit_per_minute + rate_limit_burst, at least 1
    ReplayLimit,     \* the same for replay
    Window,          \* 60 seconds, in ticks
    SweepInterval,   \* _RL_SWEEP_INTERVAL_SECONDS
    KeyTtl,          \* rate_limit_bucket_key_ttl_seconds
    MaxKeys,         \* rate_limit_bucket_max_keys
    MaxInside,       \* bound: requests of a key between middleware and endpoint
    ApiHorizon       \* bound of the clock

ASSUME ApiAssumption ==
    /\ IsFiniteSet(Keys)
    /\ Endpoint \in [Keys -> {"open", "pipeline", "replay", "backtest"}]
    /\ Limit \in Nat \ {0} /\ ReplayLimit \in Nat \ {0}
    /\ Window \in Nat \ {0} /\ SweepInterval \in Nat \ {0} /\ KeyTtl \in Nat
    /\ MaxKeys \in Nat \ {0} /\ MaxInside \in Nat
    /\ ApiHorizon \in Nat

VARIABLES
    apiNow,       \* monotonic(), in ticks
    stamps,       \* stamps[k]: _RL_BUCKET, the times of the requests let in
    seen,         \* seen[k]: _RL_LAST_SEEN
    sweptAt,      \* _RL_LAST_SWEEP_AT
    replayStamps, \* _REPLAY_RL_BUCKET
    replaySeen,   \* _REPLAY_RL_LAST_SEEN
    replaySweptAt,
    inside,       \* inside[k]: requests between the middleware and the endpoint
    services,     \* what pipeline_services and backtest_services hold
    answer,       \* the last answer: to whom, and what
    \* history, read by the properties only
    granted,      \* granted[k]: when requests were let in, since k was evicted,
                  \* not older than a window when the last one was
    replayGranted \* the same for replays, never evicted

apiVars == <<apiNow, stamps, seen, sweptAt, replayStamps, replaySeen, replaySweptAt, inside, services,
             answer, granted, replayGranted>>

replayVars == <<replayStamps, replaySeen, replaySweptAt, replayGranted>>
windowVars == <<stamps, seen, sweptAt, granted>>

Unseen == -1  \* not in _RL_LAST_SEEN
NoAnswer == [told |-> "none"]
Moments == 0 .. ApiHorizon

ApiTypeOK ==
    /\ apiNow \in Moments
    /\ stamps \in [Keys -> Seq(Moments)] /\ granted \in [Keys -> Seq(Moments)]
    /\ replayStamps \in [Keys -> Seq(Moments)] /\ replayGranted \in [Keys -> Seq(Moments)]
    /\ seen \in [Keys -> Moments \cup {Unseen}] /\ replaySeen \in [Keys -> Moments \cup {Unseen}]
    /\ sweptAt \in Moments /\ replaySweptAt \in Moments
    /\ inside \in [Keys -> 0 .. MaxInside]
    /\ services \subseteq {"pipeline", "backtest"} \X Supported
    /\ answer \in {NoAnswer} \cup [key : Keys, told : {"unauthorized", "limited", "forbidden", "invalid", "failed", "done"}]

ApiInit ==
    /\ apiNow = 0
    /\ stamps = [k \in Keys |-> <<>>] /\ granted = [k \in Keys |-> <<>>]
    /\ replayStamps = [k \in Keys |-> <<>>] /\ replayGranted = [k \in Keys |-> <<>>]
    /\ seen = [k \in Keys |-> Unseen] /\ replaySeen = [k \in Keys |-> Unseen]
    /\ sweptAt = 0 /\ replaySweptAt = 0
    /\ inside = [k \in Keys |-> 0]
    /\ services = {}
    /\ answer = NoAnswer

ApiTick ==
    /\ apiNow < ApiHorizon
    /\ apiNow' = apiNow + 1
    /\ UNCHANGED <<windowVars, replayVars, inside, services, answer>>

-----------------------------------------------------------------------------
(***************************************************************************)
(* _sweep_rate_limit_bucket.                                               *)
(***************************************************************************)
StaleBefore == apiNow - (IF KeyTtl > Window THEN KeyTtl ELSE Window)

\* Broken variant: a key is forgotten when it was quiet for half a window.
StaleEarly(last) == {k \in Keys : last[k] # Unseen /\ last[k] < apiNow - Window \div 2}

Stale(last) == {k \in Keys : last[k] # Unseen /\ last[k] < StaleBefore}

\* The keys beyond max_keys: those seen longest ago, in any order among equals.
Overflows ==
    LET alive == {k \in Keys : seen[k] # Unseen} \ Stale(seen)
    IN  {E \in SUBSET alive :
            /\ Cardinality(E) = IF Cardinality(alive) > MaxKeys THEN Cardinality(alive) - MaxKeys ELSE 0
            /\ \A e \in E, k \in alive \ E : seen[e] <= seen[k]}

Without(f, K, none) == [k \in Keys |-> IF k \in K THEN none ELSE f[k]]

\* The first time that is not before a moment, or the place after the last one.
FirstSince(times, moment) ==
    CHOOSE i \in 1 .. Len(times) + 1 : /\ \A j \in 1 .. (i - 1) : times[j] < moment
                                       /\ i <= Len(times) => times[i] >= moment

\* "while timestamps and timestamps[0] < cutoff: popleft()".
Since(times, moment) == SubSeq(times, FirstSince(times, moment), Len(times))

\* What a window still holds: a request exactly a window ago counts.
Recent(times) == Since(times, apiNow - Window)

-----------------------------------------------------------------------------
(***************************************************************************)
(* auth_and_rate_limit_middleware.                                         *)
(***************************************************************************)
Told(k, what) == answer' = [key |-> k, told |-> what]

Unauthorized(k) ==
    /\ Told(k, "unauthorized")
    /\ UNCHANGED <<apiNow, windowVars, replayVars, inside, services>>

SweepDue == apiNow - sweptAt >= SweepInterval

\* The window of k as the middleware finds it, after the sweep if one is due.
Enter(k) ==
    /\ inside[k] < MaxInside
    /\ \E E \in (IF SweepDue THEN Overflows ELSE {{}}) :
        LET gone == IF SweepDue THEN E \cup Stale(seen) ELSE {}
            recent == Recent(Without(stamps, gone, <<>>)[k])
            admitted == Len(recent) < Limit
        IN  /\ stamps' = [Without(stamps, gone, <<>>) EXCEPT
                             ![k] = IF admitted THEN Append(recent, apiNow) ELSE recent]
            /\ seen' = [Without(seen, gone, Unseen) EXCEPT ![k] = apiNow]
            /\ granted' = [Without(granted, E, <<>>) EXCEPT
                              ![k] = IF admitted THEN Append(Recent(@), apiNow) ELSE @]
            /\ IF admitted THEN inside' = [inside EXCEPT ![k] = @ + 1] /\ UNCHANGED answer
                           ELSE Told(k, "limited") /\ UNCHANGED inside
    /\ sweptAt' = IF SweepDue THEN apiNow ELSE sweptAt
    /\ UNCHANGED <<apiNow, replayVars, services>>

-----------------------------------------------------------------------------
(***************************************************************************)
(* The endpoints.                                                          *)
(***************************************************************************)
Leaves(k, what) ==
    /\ inside[k] > 0
    /\ inside' = [inside EXCEPT ![k] = @ - 1]
    /\ Told(k, what)
    /\ UNCHANGED <<apiNow, windowVars>>

(***************************************************************************)
(* _get_pipeline_service and the endpoint behind it.  For a chain that is  *)
(* not supported it raises; for every other it returns None, as the lines  *)
(* that look the service up stand behind the raise: the call on None fails *)
(* and the endpoint answers 500.                                           *)
(***************************************************************************)
PipelineAnswer(k) == IF ChainOf[k] \in Supported THEN "failed" ELSE "invalid"

\* What an endpoint can answer: _get_backtest_service raises for a chain that
\* is not supported, and its service does, fails or finds nothing; healthz and
\* metrics need none.
Answers(k) ==
    CASE Endpoint[k] = "open" -> {"done"}
      [] Endpoint[k] = "backtest" /\ ChainOf[k] \in Supported -> {"done", "failed", "invalid"}
      [] Endpoint[k] = "backtest" /\ ChainOf[k] \notin Supported -> {"invalid"}
      [] OTHER -> {PipelineAnswer(k)}

\* _get_backtest_service keeps one service for each supported chain it is asked for.
ServicesAfter(k) ==
    services \cup (({Endpoint[k]} \cap {"backtest"}) \X ({ChainOf[k]} \cap Supported))

Serve(k) ==
    /\ Endpoint[k] # "replay"
    /\ \E what \in Answers(k) : Leaves(k, what)
    /\ services' = ServicesAfter(k)
    /\ UNCHANGED replayVars

\* _enforce_replay_request: the chain or the key is refused, before any count.
ReplayForbidden(k) ==
    /\ Endpoint[k] = "replay"
    /\ Leaves(k, IF ChainOf[k] \in ReplayAllowed THEN "unauthorized" ELSE "forbidden")
    /\ UNCHANGED <<replayVars, services>>

\* Its window, swept by age only, and then the endpoint.
Replay(k) ==
    /\ Endpoint[k] = "replay" /\ ChainOf[k] \in ReplayAllowed
    /\ LET swept == apiNow - replaySweptAt >= SweepInterval
           gone == IF swept THEN Stale(replaySeen) ELSE {}
           recent == Recent(Without(replayStamps, gone, <<>>)[k])
           admitted == Len(recent) < ReplayLimit
       IN  /\ replayStamps' = [Without(replayStamps, gone, <<>>) EXCEPT
                                  ![k] = IF admitted THEN Append(recent, apiNow) ELSE recent]
           /\ replaySeen' = [Without(replaySeen, gone, Unseen) EXCEPT ![k] = apiNow]
           /\ replaySweptAt' = IF swept THEN apiNow ELSE replaySweptAt
           /\ replayGranted' = [replayGranted EXCEPT
                                   ![k] = IF admitted THEN Append(Recent(@), apiNow) ELSE @]
           /\ Leaves(k, IF admitted THEN PipelineAnswer(k) ELSE "limited")
    /\ UNCHANGED services

ApiNext ==
    \/ ApiTick
    \/ \E k \in Keys :
          \/ Unauthorized(k)
          \/ Enter(k)
          \/ Serve(k)
          \/ ReplayForbidden(k)
          \/ Replay(k)

ApiSpec == ApiInit /\ [][ApiNext]_apiVars

-----------------------------------------------------------------------------
(***************************************************************************)
(* The limits: however sweeps, refusals and the requests of other keys     *)
(* fall in between, no more than the limit of a key's requests are let in  *)
(* in any window.  For the middleware this is so as long as the key is not *)
(* evicted for being one too many; the replay window is never evicted.     *)
(***************************************************************************)
InWindow(times) == Cardinality({i \in DOMAIN times : times[i] >= apiNow - Window})

WindowLimitHeld ==
    \A k \in Keys : InWindow(granted[k]) <= Limit /\ InWindow(replayGranted[k]) <= ReplayLimit

(***************************************************************************)
(* What README and tests say of the pipeline endpoints: a request that     *)
(* passes the guards reaches the service of its chain.  A failure can only *)
(* come from a service that exists.                                        *)
(***************************************************************************)
PipelineReachable ==
    answer.told = "failed" =>
        <<IF Endpoint[answer.key] = "backtest" THEN "backtest" ELSE "pipeline", ChainOf[answer.key]>> \in services
=============================================================================
