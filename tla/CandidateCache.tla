--------------------------- MODULE CandidateCache ---------------------------
(***************************************************************************)
(* The candidates of one chain in the database, as transactions commit     *)
(* them, and the copy PipelineRepository._latest_candidates_cache keeps in *)
(* each process.  A process drops its own copy when it saves candidates,   *)
(* before its transaction commits; no process is told of what another one  *)
(* commits.  A read that misses queries the database and puts the answer   *)
(* into the cache when it has it, whatever happened in between.            *)
(***************************************************************************)
EXTENDS Integers

CONSTANTS
    Processes,
    Readers,       \* the threads that serve GET /candidates
    Home,          \* Home[r]: the process of reader r
    Ttl,           \* candidate_cache_ttl_seconds; 0 switches the cache off
    QueryTime,     \* the longest a query and its reply take (statement_timeout)
    Nothing,       \* no cache entry, no query that is out
    MaxVersion,    \* bound on the commits
    CacheHorizon   \* bound on the clock

ASSUME CandidateAssumption ==
    /\ Home \in [Readers -> Processes]
    /\ Ttl \in Nat /\ QueryTime \in Nat
    /\ Nothing \notin Int \X Int
    /\ MaxVersion \in Nat /\ CacheHorizon \in Nat

VARIABLES
    clock,
    version,   \* how often candidates of the chain were committed
    saving,    \* the processes with candidates in an open transaction
    copy,      \* copy[p]: <<expires_at, version>> or Nothing
    query,     \* query[r]: <<asked at, version>> of the read that is out
    \* history, read by the properties only
    until,     \* until[v]: when version v was replaced
    served     \* the last answer: <<when, version>>

candidateVars == <<clock, version, saving, copy, query, until, served>>

Versions == 0 .. MaxVersion
Moments == 0 .. CacheHorizon

CandidateTypeOK ==
    /\ clock \in Moments /\ version \in Versions
    /\ saving \subseteq Processes
    /\ copy \in [Processes -> {Nothing} \cup (0 .. CacheHorizon + Ttl) \X Versions]
    /\ query \in [Readers -> {Nothing} \cup Moments \X Versions]
    /\ until \in [Versions -> Moments]
    /\ served \in Moments \X Versions

CandidateInit ==
    /\ clock = 0 /\ version = 0 /\ saving = {}
    /\ copy = [p \in Processes |-> Nothing]
    /\ query = [r \in Readers |-> Nothing]
    /\ until = [v \in Versions |-> 0]
    /\ served = <<0, 0>>

-----------------------------------------------------------------------------
PassTime ==
    /\ clock < CacheHorizon
    /\ \A r \in Readers : query[r] # Nothing => clock < query[r][1] + QueryTime
    /\ clock' = clock + 1
    /\ UNCHANGED <<version, saving, copy, query, until, served>>

(***************************************************************************)
(* save_scores_and_candidates in the transaction of _persist_success.      *)
(***************************************************************************)
SaveCandidates(p) ==
    /\ p \notin saving
    /\ saving' = saving \cup {p}
    /\ copy' = [copy EXCEPT ![p] = Nothing]
    /\ UNCHANGED <<clock, version, query, until, served>>

CommitCandidates(p) ==
    /\ p \in saving /\ version < MaxVersion
    /\ saving' = saving \ {p}
    /\ version' = version + 1
    /\ until' = [until EXCEPT ![version] = clock]
    /\ UNCHANGED <<clock, copy, query, served>>

RollBackCandidates(p) ==
    /\ p \in saving
    /\ saving' = saving \ {p}
    /\ UNCHANGED <<clock, version, copy, query, until, served>>

(***************************************************************************)
(* list_latest_candidates.                                                 *)
(***************************************************************************)
\* Broken variant: a hit renews the entry.
ServeCopyRenewed(r) ==
    /\ query[r] = Nothing
    /\ Ttl > 0 /\ copy[Home[r]] # Nothing /\ copy[Home[r]][1] > clock
    /\ served' = <<clock, copy[Home[r]][2]>>
    /\ copy' = [copy EXCEPT ![Home[r]] = <<clock + Ttl, copy[Home[r]][2]>>]
    /\ UNCHANGED <<clock, version, saving, query, until>>

ServeCopy(r) ==
    /\ query[r] = Nothing
    /\ Ttl > 0 /\ copy[Home[r]] # Nothing /\ copy[Home[r]][1] > clock
    /\ served' = <<clock, copy[Home[r]][2]>>
    /\ UNCHANGED <<clock, version, saving, copy, query, until>>

QueryDatabase(r) ==
    /\ query[r] = Nothing
    /\ Ttl > 0 /\ copy[Home[r]] # Nothing => copy[Home[r]][1] <= clock
    /\ query' = [query EXCEPT ![r] = <<clock, version>>]
    /\ UNCHANGED <<clock, version, saving, copy, until, served>>

ServeReply(r) ==
    /\ query[r] # Nothing
    /\ served' = <<clock, query[r][2]>>
    /\ copy' = [copy EXCEPT ![Home[r]] = IF Ttl > 0 THEN <<clock + Ttl, query[r][2]>> ELSE @]
    /\ query' = [query EXCEPT ![r] = Nothing]
    /\ UNCHANGED <<clock, version, saving, until>>

\* statement_timeout, a lost connection.
QueryFails(r) ==
    /\ query[r] # Nothing
    /\ query' = [query EXCEPT ![r] = Nothing]
    /\ UNCHANGED <<clock, version, saving, copy, until, served>>

CandidateNext ==
    \/ PassTime
    \/ \E p \in Processes :
          SaveCandidates(p) \/ CommitCandidates(p) \/ RollBackCandidates(p)
    \/ \E r \in Readers :
          ServeCopy(r) \/ QueryDatabase(r) \/ ServeReply(r) \/ QueryFails(r)

CandidateSpec == CandidateInit /\ [][CandidateNext]_candidateVars

-----------------------------------------------------------------------------
\* Version v was the committed one at moment m or later.
CurrentSince(v, m) == v = version \/ until[v] >= m

\* An entry is served while its expiry lies ahead.
MaxAge == QueryTime + (IF Ttl > 0 THEN Ttl - 1 ELSE 0)

(***************************************************************************)
(* Whatever the order of reads, commits and the invalidation in between,   *)
(* and whichever process is asked, an answer is never older than the       *)
(* lifetime of a cache entry and one query: the candidates it tells were   *)
(* the committed ones at some moment of that time.                         *)
(***************************************************************************)
CandidatesWereCurrent == CurrentSince(served[2], served[1] - MaxAge)

(***************************************************************************)
(* The inductive form: what is cached or on its way is as recent.          *)
(***************************************************************************)
CopiesAreRecent ==
    /\ served[2] <= version
    /\ \A p \in Processes :
          copy[p] # Nothing => /\ Ttl > 0 /\ copy[p][2] <= version
                               /\ CurrentSince(copy[p][2], copy[p][1] - Ttl - QueryTime)
    /\ \A r \in Readers :
          query[r] # Nothing => /\ query[r][1] <= clock /\ clock <= query[r][1] + QueryTime
                                /\ query[r][2] <= version
                                /\ CurrentSince(query[r][2], query[r][1])
=============================================================================
