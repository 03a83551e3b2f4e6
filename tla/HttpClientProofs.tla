-------------------------- MODULE HttpClientProofs --------------------------
(***************************************************************************)
(* Theorems about HttpClient for any callers, URLs and endpoints: one      *)
(* request per URL at a time, a leader at work behind every follower, and  *)
(* half-open slots that are accounted for.  The first two need each other  *)
(* only through the registered leader: a follower joins a URL that has     *)
(* one, and a leader leaves only together with its followers.              *)
(***************************************************************************)
EXTENDS HttpClient, ResilienceLemmas, FiniteSetTheorems

Busy ==
    [pc : {"following", "attempting", "sleeping", "storing"}, url : Urls, attempt : 0 .. RetryAttempts]

\* A caller sleeps only before an attempt that the retry budget still covers.
RetriesLeft == \A c \in Callers : call[c].pc = "sleeping" => call[c].attempt < RetryAttempts

Working == {"attempting", "sleeping", "storing"}

IInv ==
    /\ TypeOK
    /\ RetriesLeft
    /\ OneFlightPerUrl
    /\ FollowersAreAwaited
    /\ SlotsAccounted

-----------------------------------------------------------------------------
(***************************************************************************)
(* A call is idle, or it is a record with a URL.                           *)
(***************************************************************************)
LEMMA CallShape ==
    ASSUME NEW k \in Call
    PROVE  /\ k.pc = "idle" <=> k = Idle
           /\ k.pc # "idle" => k \in Busy
           /\ Idle.pc = "idle" /\ Idle \in Call
           /\ Busy \subseteq Call
BY DEF Call, Busy, Idle

(***************************************************************************)
(* What the steps inside a call do to the calls: one caller's record is    *)
(* replaced, or a set of calls ends.                                       *)
(***************************************************************************)
LEMMA EndedCalls ==
    ASSUME TypeOK, NEW E \in SUBSET Callers,
           call' = [d \in Callers |-> IF d \in E THEN Idle ELSE call[d]]
    PROVE  /\ call' \in [Callers -> Call]
           /\ \A d \in Callers : call'[d] = Idle \/ call'[d] = call[d]
           /\ \A d \in Callers \ E : call'[d] = call[d]
           /\ \A d \in E : call'[d] = Idle
BY DEF TypeOK, Call

LEMMA InitInv == Init => IInv
<1> SUFFICES ASSUME Init PROVE IInv
  OBVIOUS
<1>1. TypeOK
  BY HttpAssumption
     DEF Init, TypeOK, Breaker, BreakerStates, NewBreaker, Guard, NewGuard, Call
<1>2. RetriesLeft /\ FollowersAreAwaited
  BY DEF Init, RetriesLeft, FollowersAreAwaited, Idle
<1>3. OneFlightPerUrl
  BY HttpAssumption DEF Init, OneFlightPerUrl, Requesting, Idle
<1>4. SlotsAccounted
  BY DEF Init, SlotsAccounted, SlotsOf, NewBreaker
<1> QED
  BY <1>1, <1>2, <1>3, <1>4 DEF IInv

(***************************************************************************)
(* Types.                                                                  *)
(***************************************************************************)
LEMMA TypeStep == IInv /\ [Next]_vars => TypeOK' /\ RetriesLeft'
<1> DEFINE Goal == TypeOK' /\ RetriesLeft'
<1> SUFFICES ASSUME IInv, [Next]_vars PROVE Goal
  OBVIOUS
<1> USE HttpAssumption DEF TypeOK, RetriesLeft
<1>a. TypeOK /\ RetriesLeft
  BY DEF IInv
<1>1. CASE Tick
  BY <1>1, <1>a DEF Tick
<1>2. ASSUME NEW c \in Callers, NEW u \in Urls, Follow(c, u) PROVE Goal
  <2> DEFINE r == [pc |-> "following", url |-> u, attempt |-> 0]
  <2>1. r \in Call
    BY DEF Call
  <2>2. call' = [call EXCEPT ![c] = r]
    BY <1>2 DEF Follow
  <2> QED
    BY <1>2, <1>a, <2>1, <2>2 DEF Follow
<1>3. ASSUME NEW c \in Callers, NEW u \in Urls, Lead(c, u) PROVE Goal
  <2> DEFINE r == [pc |-> "attempting", url |-> u, attempt |-> 1]
  <2> DEFINE e == EndpointOf[u]
  <2>1. r \in Call
    BY DEF Call
  <2>2. call' = [call EXCEPT ![c] = r]
    BY <1>3 DEF Lead
  <2>3. call' \in [Callers -> Call] /\ RetriesLeft'
    BY <1>a, <2>1, <2>2
  <2>4. e \in Endpoints /\ breaker' = [breaker EXCEPT ![e] = AfterAllow(breaker[e], now)]
    BY <1>3 DEF Lead
  <2>5. breaker' \in [Endpoints -> Breaker]
    BY <1>a, <2>4, BreakerType
  <2> QED
    BY <1>3, <1>a, <2>3, <2>4, <2>5 DEF Lead
<1>4. ASSUME NEW c \in Callers, call[c].pc # "idle"
      PROVE  call[c] \in Busy /\ call[c].url \in Urls /\ EndpointOf[call[c].url] \in Endpoints
  BY <1>4, <1>a, CallShape DEF Busy
<1>5. ASSUME NEW c \in Callers, Succeed(c) PROVE Goal
  <2> DEFINE e == EndpointOf[call[c].url]
  <2>1. e \in Endpoints /\ call[c] \in Busy
    BY <1>5, <1>4 DEF Succeed
  <2>2. call' = [call EXCEPT ![c].pc = "storing"]
    BY <1>5 DEF Succeed
  <2>3. [call[c] EXCEPT !.pc = "storing"] \in Busy
    BY <2>1 DEF Busy
  <2>4. call' \in [Callers -> Call] /\ RetriesLeft'
    BY <1>a, <2>2, <2>3, CallShape DEF Busy
  <2>5. breaker' \in [Endpoints -> Breaker]
    BY <1>5, <1>a, <2>1, BreakerType DEF Succeed
  <2>6. guard' \in Guard
    BY <1>5, <1>a, GuardType DEF Succeed
  <2> QED
    BY <1>5, <1>a, <2>1, <2>4, <2>5, <2>6 DEF Succeed, Settle
<1>6. ASSUME NEW c \in Callers, call[c].pc # "idle", Finish(c)
      PROVE  /\ call' \in [Callers -> Call] /\ RetriesLeft'
             /\ leader' \in [Urls -> Callers \cup {NoCaller}]
             /\ severed' \subseteq Urls
  <2>1. \A d \in Callers : call'[d] = Idle \/ call'[d] = call[d]
    BY <1>6, <1>a DEF Finish
  <2>2. call' \in [Callers -> Call] /\ RetriesLeft'
    BY <1>6, <1>a, <2>1, EndedCalls DEF Finish, Followers, Idle, Call
  <2> QED
    BY <1>6, <1>a, <2>2, <1>4 DEF Finish
<1>7. ASSUME NEW c \in Callers, Stored(c) PROVE Goal
  BY <1>7, <1>a, <1>6 DEF Stored
<1>8. ASSUME NEW c \in Callers, Fail(c) PROVE Goal
  <2> DEFINE e == EndpointOf[call[c].url]
  <2>1. e \in Endpoints
    BY <1>8, <1>4 DEF Fail
  <2>2. breaker' \in [Endpoints -> Breaker]
    BY <1>8, <1>a, <2>1, BreakerType DEF Fail
  <2>3. guard' \in Guard
    BY <1>8, <1>a, GuardType DEF Fail
  <2> QED
    BY <1>8, <1>a, <1>6, <2>1, <2>2, <2>3 DEF Fail, Settle
<1>9. ASSUME NEW c \in Callers, RetryLater(c) \/ WakeUp(c) PROVE Goal
  <2>1. call[c] \in Busy
    BY <1>9, <1>4 DEF RetryLater, WakeUp
  <2>2. CASE RetryLater(c)
    <3>1. [call[c] EXCEPT !.pc = "sleeping"] \in Busy
      BY <2>1 DEF Busy
    <3>2. call' = [call EXCEPT ![c] = [call[c] EXCEPT !.pc = "sleeping"]]
      BY <2>2 DEF RetryLater
    <3>3. call' \in [Callers -> Call] /\ RetriesLeft'
      BY <3>1, <3>2, <2>1, <2>2, <1>a, CallShape DEF Busy, RetryLater
    <3> QED
      BY <3>3, <2>2, <1>a DEF RetryLater
  <2>3. CASE WakeUp(c)
    <3> DEFINE r == [call[c] EXCEPT !.pc = "attempting", !.attempt = call[c].attempt + 1]
    <3>1. call[c].attempt + 1 \in 0 .. RetryAttempts
      BY <2>1, <2>3, <1>a DEF WakeUp, Busy
    <3>2. r \in Busy /\ r.pc = "attempting"
      BY <2>1, <3>1 DEF Busy
    <3>3. call' = [call EXCEPT ![c] = r]
      BY <2>3 DEF WakeUp
    <3>4. call' \in [Callers -> Call] /\ RetriesLeft'
      BY <3>2, <3>3, <1>a, CallShape
    <3> QED
      BY <3>4, <2>3, <1>a DEF WakeUp
  <2> QED
    BY <1>9, <2>2, <2>3
<1>10. ASSUME NEW c \in Callers, LeaveUnrecorded(c) PROVE Goal
  <2> DEFINE e == EndpointOf[call[c].url]
  <2>1. call[c].pc # "idle" /\ e \in Endpoints
    BY <1>10, <1>4 DEF LeaveUnrecorded, Requesting
  <2>2. probes' \in [Endpoints -> SUBSET Callers] /\ leaked' \in [Endpoints -> Nat]
    BY <1>10, <1>a, <2>1 DEF LeaveUnrecorded
  <2> QED
    BY <1>10, <1>a, <1>6, <2>1, <2>2 DEF LeaveUnrecorded
<1>11. ASSUME NEW c \in Callers, CancelFollower(c) PROVE Goal
  <2>1. \A d \in Callers : call'[d] = Idle \/ call'[d] = call[d]
    BY <1>11, <1>a DEF CancelFollower
  <2>2. call' \in [Callers -> Call] /\ RetriesLeft'
    BY <1>11, <1>a, <2>1, EndedCalls DEF CancelFollower, Followers, Idle, Call
  <2> QED
    BY <1>11, <1>a, <1>4, <2>2 DEF CancelFollower
<1>12. CASE UNCHANGED vars
  BY <1>12, <1>a DEF vars
<1> QED
  BY <1>1, <1>2, <1>3, <1>5, <1>7, <1>8, <1>9, <1>10, <1>11, <1>12
     DEF Next, Ask, Proceed, FollowSevered, Refuse

(***************************************************************************)
(* Leaders and followers.                                                  *)
(***************************************************************************)
LEMMA FlightStep == IInv /\ [Next]_vars => OneFlightPerUrl' /\ FollowersAreAwaited'
<1> DEFINE Goal == OneFlightPerUrl' /\ FollowersAreAwaited'
<1> SUFFICES ASSUME IInv, [Next]_vars PROVE Goal
  OBVIOUS
<1> USE HttpAssumption DEF Requesting, Working
<1>a. TypeOK /\ OneFlightPerUrl /\ FollowersAreAwaited
  BY DEF IInv
<1>b. Idle.pc = "idle"
  BY DEF Idle
<1>1. CASE Tick \/ UNCHANGED vars
  BY <1>1, <1>a DEF Tick, vars, OneFlightPerUrl, FollowersAreAwaited, Requesting
<1>2. ASSUME NEW c \in Callers, NEW u \in Urls, Follow(c, u) PROVE Goal
  <2>1. /\ call'[c].pc = "following" /\ call'[c].url = u
        /\ \A d \in Callers \ {c} : call'[d] = call[d]
        /\ leader' = leader /\ severed' = severed
        /\ leader[u] # NoCaller /\ u \notin severed /\ call[c] = Idle
    BY <1>2, <1>a DEF Follow, TypeOK
  <2>2. leader[u] \in Callers /\ call[leader[u]].pc \in Working
    BY <2>1, <1>a DEF TypeOK, OneFlightPerUrl
  <2>3. \A d \in Callers : call'[d].pc \in Working <=> call[d].pc \in Working
    BY <2>1, <1>b DEF Requesting
  <2>4. OneFlightPerUrl'
    BY <2>1, <2>3, <1>a, <1>b DEF OneFlightPerUrl, Requesting
  <2>5. FollowersAreAwaited'
    <3> SUFFICES ASSUME NEW d \in Callers, call'[d].pc = "following"
                 PROVE  /\ leader'[call'[d].url] # NoCaller
                        /\ call'[leader'[call'[d].url]].pc \in Working
                        /\ call'[d].url \notin severed'
      BY <2>1 DEF FollowersAreAwaited
    <3>1. CASE d = c
      BY <3>1, <2>1, <2>2, <2>3
    <3>2. CASE d # c
      <4>1. leader[call[d].url] \in Callers
        BY <3>2, <2>1, <1>a, CallShape DEF FollowersAreAwaited, TypeOK, Busy
      <4> QED
        BY <3>2, <4>1, <2>1, <2>3, <1>a DEF FollowersAreAwaited
    <3> QED
      BY <3>1, <3>2
  <2> QED
    BY <2>4, <2>5
<1>3. ASSUME NEW c \in Callers, NEW u \in Urls, Lead(c, u) PROVE Goal
  <2>1. /\ call'[c].pc = "attempting" /\ call'[c].url = u
        /\ \A d \in Callers \ {c} : call'[d] = call[d]
        /\ leader' = [leader EXCEPT ![u] = c] /\ severed' = severed
        /\ leader[u] = NoCaller /\ call[c] = Idle
    BY <1>3, <1>a DEF Lead, TypeOK
  <2>2. /\ leader'[u] = c
        /\ \A v \in Urls \ {u} : leader'[v] = leader[v]
    BY <2>1, <1>a DEF TypeOK
  <2>3. call[c].pc \notin Working /\ call'[c].pc \in Working
    BY <2>1, <1>b DEF Requesting
  <2>4. OneFlightPerUrl'
    <3> SUFFICES ASSUME NEW d \in Callers, NEW v \in Urls
                 PROVE  call'[d].pc \in Working /\ call'[d].url = v <=> leader'[v] = d
      BY DEF OneFlightPerUrl
    <3> QED
      BY <2>1, <2>2, <2>3, <1>a DEF OneFlightPerUrl, Requesting
  <2>5. FollowersAreAwaited'
    <3> SUFFICES ASSUME NEW d \in Callers, call'[d].pc = "following"
                 PROVE  /\ leader'[call'[d].url] # NoCaller
                        /\ call'[leader'[call'[d].url]].pc \in Working
                        /\ call'[d].url \notin severed'
      BY DEF FollowersAreAwaited, Requesting
    <3>1. d # c /\ call'[d] = call[d] /\ call[d].url \in Urls
      BY <2>1, <1>a, CallShape DEF TypeOK, Busy
    <3>2. /\ leader[call[d].url] # NoCaller
          /\ call[leader[call[d].url]].pc \in Working
          /\ call[d].url \notin severed
      BY <3>1, <1>a DEF FollowersAreAwaited
    <3>3. call[d].url # u /\ leader'[call[d].url] = leader[call[d].url]
      BY <3>1, <3>2, <2>1, <2>2
    <3>4. leader[call[d].url] \in Callers \ {c}
      BY <3>1, <3>2, <2>3, <1>a DEF TypeOK
    <3> QED
      BY <3>1, <3>2, <3>3, <3>4, <2>1 DEF Requesting
  <2> QED
    BY <2>4, <2>5
<1>4. ASSUME NEW c \in Callers, Succeed(c) \/ RetryLater(c) \/ WakeUp(c) PROVE Goal
  <2>1. /\ call[c].pc \in {"attempting", "sleeping"}
        /\ leader' = leader /\ severed' = severed
    BY <1>4 DEF Succeed, RetryLater, WakeUp
  <2>2. call[c] \in Busy
    BY <2>1, <1>a, CallShape DEF TypeOK
  <2>3. /\ call'[c].pc \in {"attempting", "sleeping", "storing"}
        /\ call'[c].url = call[c].url
        /\ \A d \in Callers \ {c} : call'[d] = call[d]
    BY <1>4, <1>a, <2>2 DEF Succeed, RetryLater, WakeUp, TypeOK, Busy
  <2>4. \A d \in Callers : /\ call'[d].pc \in Working <=> call[d].pc \in Working
                           /\ call'[d].url = call[d].url
                           /\ call'[d].pc = "following" <=> call[d].pc = "following"
    BY <2>1, <2>3 DEF Requesting
  <2>5. OneFlightPerUrl'
    BY <2>1, <2>4, <1>a DEF OneFlightPerUrl
  <2>6. FollowersAreAwaited'
    <3> SUFFICES ASSUME NEW d \in Callers, call'[d].pc = "following"
                 PROVE  /\ leader'[call'[d].url] # NoCaller
                        /\ call'[leader'[call'[d].url]].pc \in Working
                        /\ call'[d].url \notin severed'
      BY DEF FollowersAreAwaited, Requesting
    <3>1. call[d].pc = "following" /\ call[d].url \in Urls
      BY <2>4, <1>a, CallShape DEF TypeOK, Busy
    <3>2. leader[call[d].url] \in Callers
      BY <3>1, <1>a DEF FollowersAreAwaited, TypeOK
    <3>3. call'[leader[call[d].url]].pc \in Working
      BY <3>1, <3>2, <2>4, <1>a DEF FollowersAreAwaited
    <3> QED
      BY <3>1, <3>3, <2>1, <2>4, <1>a DEF FollowersAreAwaited, Requesting
  <2> QED
    BY <2>5, <2>6
<1>5. ASSUME NEW c \in Callers, call[c].pc \in Working, Finish(c) PROVE Goal
  <2> DEFINE u == call[c].url
  <2>1. u \in Urls /\ leader[u] = c
    BY <1>5, <1>a, CallShape DEF Requesting, TypeOK, Busy, OneFlightPerUrl
  <2>2. /\ leader' = [leader EXCEPT ![u] = NoCaller]
        /\ severed' = severed \ {u}
        /\ \A d \in {c} \cup Followers(u) : call'[d] = Idle
        /\ \A d \in Callers \ ({c} \cup Followers(u)) : call'[d] = call[d]
    BY <1>5, <1>a DEF Finish, Followers
  <2>3. /\ leader'[u] = NoCaller
        /\ \A v \in Urls \ {u} : leader'[v] = leader[v]
    BY <2>1, <2>2, <1>a DEF TypeOK
  <2>4. \A d \in Followers(u) : call[d].pc \notin Working
    BY DEF Followers, Requesting
  <2>5. \A d \in Callers : call'[d].pc \in Working => d # c /\ call[d].pc \in Working /\ call'[d] = call[d]
    BY <2>2, <2>4, <1>b DEF Requesting
  <2>6. \A d \in Callers \ {c} : call[d].pc \in Working => call'[d] = call[d] /\ call'[d].pc \in Working
    BY <2>2, <2>4 DEF Requesting
  <2>7. OneFlightPerUrl'
    <3> SUFFICES ASSUME NEW d \in Callers, NEW v \in Urls
                 PROVE  call'[d].pc \in Working /\ call'[d].url = v <=> leader'[v] = d
      BY DEF OneFlightPerUrl
    <3>1. CASE v = u
      BY <3>1, <2>1, <2>3, <2>5, <1>a DEF OneFlightPerUrl
    <3>2. CASE v # u /\ d = c
      BY <3>2, <2>1, <2>3, <2>5, <1>a, <1>5 DEF OneFlightPerUrl
    <3>3. CASE v # u /\ d # c
      BY <3>3, <2>3, <2>5, <2>6, <1>a DEF OneFlightPerUrl
    <3> QED
      BY <3>1, <3>2, <3>3
  <2>8. FollowersAreAwaited'
    <3> SUFFICES ASSUME NEW d \in Callers, call'[d].pc = "following"
                 PROVE  /\ leader'[call'[d].url] # NoCaller
                        /\ call'[leader'[call'[d].url]].pc \in Working
                        /\ call'[d].url \notin severed'
      BY DEF FollowersAreAwaited, Requesting
    <3>1. d \notin {c} \cup Followers(u) /\ call'[d] = call[d]
      BY <2>2, <1>b
    <3>2. call[d].pc = "following" /\ call[d].url \in Urls \ {u}
      BY <3>1, <1>a, CallShape DEF TypeOK, Busy, Followers
    <3>3. /\ leader[call[d].url] # NoCaller
          /\ call[leader[call[d].url]].pc \in Working
          /\ call[d].url \notin severed
      BY <3>2, <1>a DEF FollowersAreAwaited
    <3>4. leader[call[d].url] \in Callers \ {c}
      BY <3>2, <3>3, <2>1, <1>a DEF TypeOK, OneFlightPerUrl
    <3>5. call'[leader[call[d].url]].pc \in Working
      BY <3>3, <3>4, <2>6
    <3> QED
      BY <3>1, <3>2, <3>3, <3>5, <2>2, <2>3 DEF Requesting
  <2> QED
    BY <2>7, <2>8
<1>6. ASSUME NEW c \in Callers, Stored(c) \/ Fail(c) \/ LeaveUnrecorded(c) PROVE Goal
  BY <1>5, <1>6 DEF Stored, Fail, LeaveUnrecorded, Requesting
<1>7. ASSUME NEW c \in Callers, CancelFollower(c) PROVE Goal
  <2> DEFINE u == call[c].url
  <2>1. /\ leader' = leader /\ severed' = severed \cup {u}
        /\ \A d \in Followers(u) : call'[d] = Idle
        /\ \A d \in Callers \ Followers(u) : call'[d] = call[d]
    BY <1>7, <1>a DEF CancelFollower, Followers
  <2>2. \A d \in Followers(u) : call[d].pc \notin Working /\ call'[d].pc \notin Working
    BY <2>1, <1>b DEF Followers, Requesting
  <2>3. \A d \in Callers : /\ call'[d].pc \in Working <=> call[d].pc \in Working
                           /\ call[d].pc \in Working => call'[d] = call[d]
    BY <2>1, <2>2 DEF Requesting
  <2>4. OneFlightPerUrl'
    BY <2>1, <2>3, <1>a DEF OneFlightPerUrl
  <2>5. FollowersAreAwaited'
    <3> SUFFICES ASSUME NEW d \in Callers, call'[d].pc = "following"
                 PROVE  /\ leader'[call'[d].url] # NoCaller
                        /\ call'[leader'[call'[d].url]].pc \in Working
                        /\ call'[d].url \notin severed'
      BY DEF FollowersAreAwaited, Requesting
    <3>1. d \notin Followers(u) /\ call'[d] = call[d]
      BY <2>1, <1>b
    <3>2. call[d].pc = "following" /\ call[d].url \in Urls \ {u}
      BY <3>1, <1>a, CallShape DEF TypeOK, Busy, Followers
    <3>3. leader[call[d].url] \in Callers
      BY <3>2, <1>a DEF FollowersAreAwaited, TypeOK
    <3>4. call'[leader[call[d].url]].pc \in Working
      BY <3>2, <3>3, <2>3, <1>a DEF FollowersAreAwaited
    <3> QED
      BY <3>1, <3>2, <3>4, <2>1, <1>a DEF FollowersAreAwaited, Requesting
  <2> QED
    BY <2>4, <2>5
<1> QED
  BY <1>1, <1>2, <1>3, <1>4, <1>6, <1>7 DEF Next, Ask, Proceed, FollowSevered, Refuse

(***************************************************************************)
(* The slots of one endpoint: a leader enters as a probe exactly when      *)
(* half_open_calls goes up, and only the outcomes of that endpoint settle  *)
(* its period.                                                             *)
(***************************************************************************)
LEMMA SlotsStep == IInv /\ [Next]_vars => SlotsAccounted'
<1> SUFFICES ASSUME IInv, [Next]_vars, NEW e \in Endpoints PROVE SlotsOf(e)'
  BY DEF SlotsAccounted
<1> USE HttpAssumption
<1>a. TypeOK /\ SlotsOf(e) /\ TypeOK'
  BY TypeStep DEF IInv, SlotsAccounted
<1>b. /\ IsFiniteSet(probes[e]) /\ Cardinality(probes[e]) \in Nat
      /\ leaked[e] \in Nat /\ breaker[e] \in Breaker
  BY <1>a, FS_Subset, FS_CardinalityType DEF TypeOK
<1>c. ASSUME UNCHANGED <<breaker, probes, leaked>>, \A c \in probes[e] : call'[c] = call[c]
      PROVE  SlotsOf(e)'
  BY <1>c, <1>a DEF SlotsOf
<1>d. ASSUME NEW d \in Callers, call[d].pc # "idle"
      PROVE  call[d] \in Busy /\ call[d].url \in Urls /\ EndpointOf[call[d].url] \in Endpoints
  BY <1>d, <1>a, CallShape DEF TypeOK, Busy
<1>e. \A c \in probes[e] : c \in Callers /\ call[c].pc \in {"attempting", "sleeping"}
                           /\ EndpointOf[call[c].url] = e
  BY <1>a DEF TypeOK, SlotsOf
<1>1. CASE Tick \/ UNCHANGED vars
  BY <1>1, <1>c DEF Tick, vars
<1>2. ASSUME NEW c \in Callers, NEW u \in Urls, Follow(c, u) PROVE SlotsOf(e)'
  <2>1. c \notin probes[e]
    BY <1>2, <1>e DEF Follow, Idle
  <2>2. \A d \in Callers \ {c} : call'[d] = call[d]
    BY <1>2, <1>a DEF Follow, TypeOK
  <2> QED
    BY <1>2, <1>c, <1>e, <2>1, <2>2 DEF Follow
<1>3. ASSUME NEW c \in Callers, NEW u \in Urls, Lead(c, u) PROVE SlotsOf(e)'
  <2>1. c \notin probes[e]
    BY <1>3, <1>e DEF Lead, Idle
  <2>2. /\ \A d \in Callers \ {c} : call'[d] = call[d]
        /\ call'[c].pc = "attempting" /\ call'[c].url = u
        /\ leaked' = leaked
    BY <1>3, <1>a DEF Lead, TypeOK
  <2>3. CASE EndpointOf[u] # e
    <3>1. breaker'[e] = breaker[e] /\ probes'[e] = probes[e]
      BY <1>3, <1>a, <2>3 DEF Lead, TypeOK
    <3> QED
      BY <3>1, <2>1, <2>2, <1>a, <1>e DEF SlotsOf
  <2>4. CASE EndpointOf[u] = e
    <3>1. /\ breaker'[e] = AfterAllow(breaker[e], now) /\ Allows(breaker[e], now)
          /\ probes'[e] = IF breaker[e].state = "closed" THEN probes[e] ELSE probes[e] \cup {c}
      BY <1>3, <1>a, <2>4 DEF Lead, Admitted, TypeOK
    <3>2. CASE breaker[e].state = "closed"
      <4>1. breaker'[e] = breaker[e] /\ probes'[e] = probes[e]
        BY <3>1, <3>2 DEF AfterAllow, RecoveryElapsed
      <4> QED
        BY <4>1, <2>1, <2>2, <1>a, <1>e DEF SlotsOf
    <3>3. CASE breaker[e].state = "open"
      <4>1. /\ breaker'[e].state = "half_open" /\ breaker'[e].halfOpenCalls = 1
            /\ probes'[e] = probes[e] \cup {c}
        BY <3>1, <3>3, <1>b DEF Allows, AfterAllow, Breaker
      <4>2. probes[e] = {} /\ leaked[e] = 0
        BY <3>3, <1>a DEF SlotsOf
      <4>3. probes'[e] = {c}
        BY <4>1, <4>2
      <4>4. Cardinality(probes'[e]) = 1
        BY <4>3, FS_Singleton, Zenon
      <4> QED
        BY <4>1, <4>2, <4>3, <4>4, <2>2, <2>4, BreakerAssumption DEF SlotsOf
    <3>4. CASE breaker[e].state = "half_open"
      <4>1. /\ breaker'[e].state = "half_open"
            /\ breaker'[e].halfOpenCalls = breaker[e].halfOpenCalls + 1
            /\ breaker[e].halfOpenCalls < HalfOpenMax
            /\ probes'[e] = probes[e] \cup {c}
        BY <3>1, <3>4, <1>b DEF Allows, AfterAllow, RecoveryElapsed, Breaker
      <4>2. Cardinality(probes'[e]) = Cardinality(probes[e]) + 1
        BY <4>1, <2>1, <1>b, FS_AddElement
      <4>3. /\ breaker[e].halfOpenCalls = Cardinality(probes[e]) + leaked[e]
            /\ breaker[e].halfOpenCalls \in 1 .. HalfOpenMax
        BY <3>4, <1>a DEF SlotsOf
      <4>4. /\ breaker'[e].halfOpenCalls = Cardinality(probes'[e]) + leaked'[e]
            /\ breaker'[e].halfOpenCalls \in 1 .. HalfOpenMax
        BY <4>1, <4>2, <4>3, <2>2, <1>b, BreakerAssumption
      <4>5. \A d \in probes'[e] : call'[d].pc \in {"attempting", "sleeping"}
                                  /\ EndpointOf[call'[d].url] = e
        BY <4>1, <2>1, <2>2, <2>4, <1>e
      <4> QED
        BY <4>1, <4>4, <4>5 DEF SlotsOf
    <3> QED
      BY <3>2, <3>3, <3>4, <1>b DEF Breaker, BreakerStates
  <2> QED
    BY <2>3, <2>4
<1>4. ASSUME NEW c \in Callers, Succeed(c) \/ Fail(c), EndpointOf[call[c].url] = e
      PROVE  SlotsOf(e)'
  <2>1. probes'[e] = {} /\ leaked'[e] = 0 /\ breaker'[e].state # "half_open"
    BY <1>4, <1>a, <1>b, OutcomeSettles DEF Succeed, Fail, Settle, TypeOK
  <2> QED
    BY <2>1 DEF SlotsOf
<1>5. ASSUME NEW c \in Callers, call[c].pc # "idle", Finish(c)
      PROVE  \A d \in probes[e] \ {c} : call'[d] = call[d]
  BY <1>5, <1>e DEF Finish, Followers
<1>6. ASSUME NEW c \in Callers, Succeed(c) \/ Fail(c), EndpointOf[call[c].url] # e
      PROVE  SlotsOf(e)'
  <2>1. c \notin probes[e] /\ call[c].pc = "attempting"
    BY <1>6, <1>e DEF Succeed, Fail
  <2>2. probes'[e] = probes[e] /\ leaked'[e] = leaked[e] /\ breaker'[e] = breaker[e]
    BY <1>6, <1>a DEF Succeed, Fail, Settle, TypeOK
  <2>3. \A d \in probes[e] : call'[d] = call[d]
    <3>1. CASE Succeed(c)
      BY <3>1, <2>1, <1>a, <1>e DEF Succeed, TypeOK
    <3>2. CASE Fail(c)
      BY <3>2, <2>1, <1>5 DEF Fail
    <3> QED
      BY <3>1, <3>2, <1>6
  <2> QED
    BY <2>2, <2>3, <1>a DEF SlotsOf
<1>7. ASSUME NEW c \in Callers, Stored(c) PROVE SlotsOf(e)'
  <2>1. c \notin probes[e] /\ call[c].pc # "idle"
    BY <1>7, <1>e DEF Stored
  <2> QED
    BY <1>7, <1>c, <1>5, <2>1 DEF Stored
<1>8. ASSUME NEW c \in Callers, RetryLater(c) \/ WakeUp(c) PROVE SlotsOf(e)'
  <2>1. call[c] \in Busy
    BY <1>8, <1>d DEF RetryLater, WakeUp
  <2>2. /\ call'[c].pc \in {"attempting", "sleeping"} /\ call'[c].url = call[c].url
        /\ \A d \in Callers \ {c} : call'[d] = call[d]
    BY <1>8, <1>a, <2>1 DEF RetryLater, WakeUp, TypeOK, Busy
  <2>3. UNCHANGED <<breaker, probes, leaked>>
    BY <1>8 DEF RetryLater, WakeUp
  <2> QED
    BY <2>2, <2>3, <1>a, <1>e DEF SlotsOf
<1>9. ASSUME NEW c \in Callers, LeaveUnrecorded(c) PROVE SlotsOf(e)'
  <2>1. call[c].pc # "idle" /\ Finish(c) /\ breaker' = breaker
    BY <1>9 DEF LeaveUnrecorded, Requesting
  <2>2. CASE c \in probes[e]
    <3>1. probes'[e] = probes[e] \ {c} /\ leaked'[e] = leaked[e] + 1
      BY <1>9, <1>a, <1>e, <2>2 DEF LeaveUnrecorded, TypeOK
    <3>2. Cardinality(probes[e] \ {c}) = Cardinality(probes[e]) - 1
      BY <2>2, <1>b, FS_RemoveElement
    <3>3. \A d \in probes'[e] : call'[d] = call[d]
      BY <3>1, <2>1, <1>5
    <3>4. breaker[e].state = "half_open"
      BY <2>2, <1>a DEF SlotsOf
    <3>5. /\ breaker'[e].halfOpenCalls = Cardinality(probes'[e]) + leaked'[e]
          /\ breaker'[e].halfOpenCalls \in 1 .. HalfOpenMax
      BY <3>1, <3>2, <3>4, <2>1, <1>a, <1>b DEF SlotsOf
    <3> QED
      BY <3>1, <3>3, <3>4, <3>5, <2>1, <1>e DEF SlotsOf
  <2>3. CASE c \notin probes[e]
    <3>1. probes'[e] = probes[e] /\ leaked'[e] = leaked[e]
      <4>1. CASE EndpointOf[call[c].url] = e
        BY <4>1, <1>9, <1>a, <2>3 DEF LeaveUnrecorded, TypeOK
      <4>2. CASE EndpointOf[call[c].url] # e
        BY <4>2, <1>9, <1>a DEF LeaveUnrecorded, TypeOK
      <4> QED
        BY <4>1, <4>2
    <3> QED
      BY <3>1, <2>1, <2>3, <1>5, <1>a DEF SlotsOf
  <2> QED
    BY <2>2, <2>3
<1>10. ASSUME NEW c \in Callers, CancelFollower(c) PROVE SlotsOf(e)'
  <2>1. \A d \in probes[e] : call'[d] = call[d]
    BY <1>10, <1>e DEF CancelFollower, Followers
  <2> QED
    BY <1>10, <1>c, <2>1 DEF CancelFollower
<1> QED
  BY <1>1, <1>2, <1>3, <1>4, <1>6, <1>7, <1>8, <1>9, <1>10
     DEF Next, Ask, Proceed, FollowSevered, Refuse

-----------------------------------------------------------------------------
LEMMA Invariance == Spec => []IInv
<1>1. IInv /\ [Next]_vars => IInv'
  BY TypeStep, FlightStep, SlotsStep DEF IInv
<1> QED
  BY InitInv, <1>1, PTL DEF Spec

(***************************************************************************)
(* The variables of the client keep their types.                           *)
(***************************************************************************)
THEOREM TypeCorrect == Spec => []TypeOK
<1>1. IInv => TypeOK
  BY DEF IInv
<1> QED
  BY Invariance, <1>1, PTL

(***************************************************************************)
(* At any time one caller at most works on a URL, and it is the one the    *)
(* singleflight group has registered.                                      *)
(***************************************************************************)
THEOREM OneRequestPerUrl == Spec => []OneFlightPerUrl
<1>1. IInv => OneFlightPerUrl
  BY DEF IInv
<1> QED
  BY Invariance, <1>1, PTL

(***************************************************************************)
(* Behind every follower of the singleflight group there is a leader still *)
(* at work, whose future nobody has cancelled.                             *)
(***************************************************************************)
THEOREM FollowersHaveLeader == Spec => []FollowersAreAwaited
<1>1. IInv => FollowersAreAwaited
  BY DEF IInv
<1> QED
  BY Invariance, <1>1, PTL

(***************************************************************************)
(* For each endpoint, half_open_calls counts the probes at work and the    *)
(* slots lost to leaders that recorded nothing, and keeps its bound.       *)
(***************************************************************************)
THEOREM EndpointSlots == Spec => []SlotsAccounted
<1>1. IInv => SlotsAccounted
  BY DEF IInv
<1> QED
  BY Invariance, <1>1, PTL
=============================================================================
