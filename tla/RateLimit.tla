----------------------------- MODULE RateLimit -----------------------------
(***************************************************************************)
(* The sliding window that limits the requests of one client               *)
(* (src/src/middleware/rate_limit.py): kept in Redis for all processes     *)
(* and, where Redis is not there or fails, in the memory of the one.       *)
(*                                                                         *)
(* A worker is a request.  In Redis a request is a member of a sorted set  *)
(* named by the time it has read; requests of one instant are one member.  *)
(***************************************************************************)
EXTENDS FiniteSets, Integers, Sessions

CONSTANTS
    MaxRequests,     \* rate_limit_requests
    WindowLength,    \* rate_limit_window_seconds, in instants
    LastInstant      \* bound on the clock

ASSUME RateLimitAssumption ==
    MaxRequests \in Nat /\ WindowLength \in Nat \ {0} /\ LastInstant \in Nat \ {0}

VARIABLES
    instant,  \* the clock
    inRedis,  \* the sorted set of the client
    expires,  \* when it does
    inMemory, \* _buckets of the client: requests, by instant and a number of their own
    came,     \* times read by requests that Redis is to count (history)
    apart,    \* whether no two have read the same (history)
    newest,   \* the latest time that Redis was told, or that its set expired at (history)
    passed,   \* instants of the requests it let through (history)
    late,     \* those that it was told of after a later time (history)
    strays    \* instants of those not let through, whose members stay (history)

theSet == <<inRedis, expires, newest, late>>
rateLimitTables == <<instant, theSet, inMemory, came, apart, passed, strays>>
rateLimitVars ==
    <<instant, theSet, inMemory, came, apart, passed, strays, txn, overlap>>

Instant == 1..LastInstant

RateLimitTypeOK ==
    /\ instant \in Instant
    /\ inRedis \subseteq Instant
    /\ expires \in 1..(LastInstant + WindowLength + 1)
    /\ inMemory \subseteq Instant \X (1..MaxRequests)
    /\ came \subseteq Instant /\ apart \in BOOLEAN
    /\ newest \in 0..LastInstant
    /\ passed \subseteq Instant /\ late \subseteq Instant /\ strays \subseteq Instant
    /\ txn \in [Worker -> {Idle} \cup [op: {"asking", "refused"}, at: Instant]]

RateLimitTablesInit ==
    /\ instant = 1 /\ expires = 1 /\ newest = 0
    /\ inRedis = {} /\ inMemory = {} /\ passed = {} /\ late = {} /\ strays = {}
    /\ came = {} /\ apart = TRUE

RateLimitInit == RateLimitTablesInit /\ SessionsInit

-----------------------------------------------------------------------------
FreshInMemory == {r \in inMemory : r[1] > instant - WindowLength}

WithinMemory == Cardinality(FreshInMemory)

(* _InMemoryRateLimiter.check, under its lock. *)
CheckedInMemory ==
    inMemory' = IF WithinMemory >= MaxRequests THEN FreshInMemory
                ELSE FreshInMemory \cup {<<instant, WithinMemory + 1>>}

(* A request reads the clock, for Redis is there. *)
RequestAsks(w) ==
    /\ txn[w] = Idle
    /\ Begin(w, [op |-> "asking", at |-> instant])
    /\ came' = came \cup {instant}
    /\ apart' = (apart /\ instant \notin came)
    /\ UNCHANGED <<instant, theSet, inMemory, passed, strays>>

(* What the pipeline, one transaction of Redis, leaves of the set. *)
Piped(at) == {i \in inRedis : i > at - WindowLength} \cup {at}

PipelineRuns(at) ==
    /\ inRedis' = Piped(at)
    /\ expires' = instant + WindowLength + 1
    /\ newest' = IF at > newest THEN at ELSE newest
    /\ late' = IF at < newest THEN late \cup {at} ELSE late

(* Seeded fault: the request is not among those counted. *)
OverLimitByOne(members) == Cardinality(members) > MaxRequests + 1

OverLimit(members) == Cardinality(members) > MaxRequests

RequestCounted(w) ==
    /\ Open(w, "asking")
    /\ LET at == txn[w].at IN
         /\ PipelineRuns(at)
         /\ \/ /\ OverLimit(Piped(at))
               /\ Continue(w, [op |-> "refused", at |-> at])
               /\ UNCHANGED passed
            \/ /\ ~OverLimit(Piped(at))
               /\ passed' = passed \cup {at}
               /\ End(w)
    /\ UNCHANGED <<instant, inMemory, came, apart, strays>>

(* Redis has run the pipeline, and its answer is lost; or it has not, and fails. *)
AnswerLost(w) ==
    /\ Open(w, "asking")
    /\ PipelineRuns(txn[w].at)
    /\ strays' = strays \cup {txn[w].at}
    /\ CheckedInMemory
    /\ End(w)
    /\ UNCHANGED <<instant, came, apart, passed>>

RedisFails(w) ==
    /\ Open(w, "asking")
    /\ CheckedInMemory
    /\ End(w)
    /\ UNCHANGED <<instant, theSet, came, apart, passed, strays>>

(* Seeded fault: the member of a refused request stays. *)
RequestRefusedOnly(w) ==
    /\ Open(w, "refused")
    /\ End(w)
    /\ UNCHANGED rateLimitTables

RequestRefused(w) ==
    /\ Open(w, "refused")
    /\ inRedis' = inRedis \ {txn[w].at}
    /\ End(w)
    /\ UNCHANGED <<instant, expires, newest, late, inMemory, came, apart, passed, strays>>

(* The removal fails, and memory decides once more. *)
RemovalFails(w) ==
    /\ Open(w, "refused")
    /\ CheckedInMemory
    /\ strays' = strays \cup {txn[w].at}
    /\ End(w)
    /\ UNCHANGED <<instant, theSet, came, apart, passed>>

(* Redis is not there. *)
RequestInMemory(w) ==
    /\ Free(w) /\ txn[w] = Idle
    /\ WithinMemory < MaxRequests   \* otherwise nothing changes
    /\ CheckedInMemory
    /\ UNCHANGED <<instant, theSet, came, apart, passed, strays, sessions>>

InstantPasses ==
    /\ instant < LastInstant
    /\ instant' = instant + 1
    /\ IF instant' = expires THEN inRedis' = {} /\ newest' = expires
       ELSE UNCHANGED <<inRedis, newest>>
    /\ UNCHANGED <<expires, late, inMemory, came, apart, passed, strays, sessions>>

RateLimitNext ==
    \/ InstantPasses
    \/ \E w \in Worker :
         \/ RequestAsks(w) \/ RequestCounted(w) \/ AnswerLost(w) \/ RedisFails(w)
         \/ RequestRefused(w) \/ RemovalFails(w) \/ RequestInMemory(w)

RateLimitSpec == RateLimitInit /\ [][RateLimitNext]_rateLimitVars

-----------------------------------------------------------------------------
(* The window that ends at instant i. *)
Recent(i) == {j \in Instant : i - WindowLength < j /\ j <= i}

(* "Redis sliding window with in-memory fallback": the memory of the process never
   lets more than the limit through within a window.  Where requests read different
   times, Redis does not either, whatever requests overlap and whenever it fails, but
   for those that it is told of after a later time, or after the set has expired,
   which has evicted what they should be counted with.  As long as requests do not
   overlap, one is refused only if the window was full, or held what an earlier
   failure has left there. *)
RequestsAreCounted ==
    /\ WithinMemory <= MaxRequests
    /\ apart =>
         /\ \A i \in Instant : Cardinality((passed \ late) \cap Recent(i)) <= MaxRequests
         /\ ~overlap => \A w \in Worker : Open(w, "refused") =>
              LET recent == Recent(txn[w].at) IN
                \/ Cardinality(passed \cap recent) >= MaxRequests
                \/ strays \cap recent # {}
=============================================================================
