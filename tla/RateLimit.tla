------------------------------ MODULE RateLimit -------------------------------
(***************************************************************************)
(* The limiter of attempts: one count per identity and fixed slot in Redis *)
(* when it answers, a bounded map of sliding windows in memory when there  *)
(* is none, or when it fails one of the budgets that may fall back.  The   *)
(* sign-in budgets and the LLM budgets have windows of their own and share *)
(* the map.  A call to Redis is given up after a second, far below a tick. *)
(***************************************************************************)
EXTENDS Naturals, Sequences, FiniteSets, SequencesExt

CONSTANTS
  Keys,         \* identities with their budget: <<bucket, key>>
  Auth,         \* those of the sign-in budgets
  MaxAttempts,  \* key -> max_attempts
  Window,       \* key -> its window, in ticks
  MaxKeys,      \* RATE_LIMIT_MAX_KEYS
  MaxTime,      \* bound on the clock
  MaxRestarts   \* bound on the restarts of the server

ASSUME BudgetAssumption ==
  Auth \subseteq Keys /\ MaxAttempts \in [Keys -> Nat \ {0}] /\ Window \in [Keys -> Nat \ {0}]
ASSUME RateBounds == MaxKeys \in Nat \ {0} /\ MaxTime \in Nat /\ MaxRestarts \in Nat

VARIABLES
  now,
  client,    \* _redis_client: not asked for yet, unreachable then, or there
  count,     \* what Redis has for the watched key in its current slot; over the limit, one more
  bucket,    \* _BUCKETS: the attempts of a key, oldest first; empty when not tracked
  watched,   \* the key whose Redis count and history are kept, any one
  refused,   \* history: its last attempt was, at this time
  byRedis, byMemory,  \* history: when it was admitted, two windows back
  robbed,    \* history: its bucket was dropped before its own window was over
  outage,    \* history: Redis failed it a call
  restarts

limiter == <<now, client, count, bucket>>
history == <<watched, refused, byRedis, byMemory, robbed, outage, restarts>>
rateVars == <<limiter, history>>

NoBuckets == [k \in Keys |-> <<>>]

RateInit ==
  /\ now = 0 /\ client = "unset" /\ bucket = NoBuckets
  /\ watched \in Keys /\ count = 0 /\ refused = FALSE
  /\ byRedis = <<>> /\ byMemory = <<>>
  /\ robbed = FALSE /\ outage = FALSE /\ restarts = 0

\* How many of q, oldest first, are span old at the time at: they leave from the left.
Aging(q, span, at) ==
  CHOOSE n \in 0..Len(q) :
    /\ \A i \in 1..n : q[i] + span <= at
    /\ n < Len(q) => q[n + 1] + span > at

Within(q, span, at) == SubSeq(q, Aging(q, span, at) + 1, Len(q))

Slot(t) == t \div Window[watched]

Tick ==
  /\ now < MaxTime /\ now' = now + 1 /\ refused' = FALSE
  /\ count' = IF Slot(now') = Slot(now) THEN count ELSE 0
  /\ byRedis' = Within(byRedis, 2 * Window[watched], now')
  /\ byMemory' = Within(byMemory, 2 * Window[watched], now')
  /\ UNCHANGED <<client, bucket, watched, robbed, outage, restarts>>

\* _redis asks once in the life of a process.
Resolve ==
  /\ client = "unset" /\ client' \in {"none", "there"}
  /\ UNCHANGED <<now, count, bucket, history>>

\* A robbed key is admitted without end; the history keeps more than any bound below.
NotedBound == MaxAttempts[watched] * (MaxRestarts + 2) + 1

\* What an attempt of k is told, and where a watched one that may go on is noted.
Result(k, ok) == refused' = IF k = watched THEN ~ok ELSE refused
Noted(q, k, ok) ==
  IF k # watched \/ ~ok THEN q
  ELSE IF Len(q) < NotedBound THEN Append(q, now) ELSE Append(Tail(q), now)

-----------------------------------------------------------------------------
(* The map in memory.                                                       *)

Tracked == {k \in Keys : bucket[k] # <<>>}

\* The sweep asks with the window of the caller, whatever the bucket's own is.
Stale(j, span) == Last(bucket[j]) + span <= now

Swept(k) == {j \in Tracked : Stale(j, Window[k])}

Oldest(K) == {j \in K : \A i \in K : Last(bucket[j]) <= Last(bucket[i])}

\* What a key's turn drops: nothing below the bound; else what is stale, and if nothing
\* is, a live one.
Dropped(k) ==
  IF k \in Tracked \/ Cardinality(Tracked) < MaxKeys THEN {{}}
  ELSE IF Swept(k) # {} THEN {Swept(k)} ELSE {{j} : j \in Oldest(Tracked)}

\* Mutant of Aged: attempts leave their window a tick early.
AgedEarly(k) == Within(bucket[k], Window[k], now + 1)

Aged(k) == Within(bucket[k], Window[k], now)

InMemory(k) ==
  \E gone \in Dropped(k) :
    LET ok == Len(Aged(k)) < MaxAttempts[k]
        kept == [j \in Keys |-> IF j \in gone THEN <<>> ELSE bucket[j]]
    IN
    /\ bucket' = [kept EXCEPT ![k] = IF ok THEN Append(Aged(k), now) ELSE Aged(k)]
    /\ byMemory' = Noted(byMemory, k, ok)
    /\ robbed' = (robbed \/ (watched \in gone /\ (gone = Swept(k) => Window[watched] > Window[k])))
    /\ Result(k, ok)

WithoutRedis(k) ==
  /\ client = "none" /\ InMemory(k)
  /\ UNCHANGED <<now, client, count, watched, byRedis, outage, restarts>>

-----------------------------------------------------------------------------
(* Redis: INCR, EXPIRE for the first of a slot, compare.                    *)

Counted == IF count > MaxAttempts[watched] THEN count ELSE count + 1

RedisAnswered ==
  /\ client = "there" /\ count' = Counted
  /\ LET ok == count' <= MaxAttempts[watched] IN
       byRedis' = Noted(byRedis, watched, ok) /\ Result(watched, ok)
  /\ UNCHANGED <<now, client, bucket, watched, byMemory, robbed, outage, restarts>>

\* Mutant of FailsClosed: every budget fails closed.
FailsClosedAll(k) == TRUE

FailsClosed(k) == k \in Auth

\* The call fails, counted or not: before INCR, its answer lost, or in EXPIRE.
RedisFailed(k) ==
  /\ client = "there" /\ outage' = (outage \/ k = watched)
  /\ count' \in {count} \cup {Counted : j \in {k} \cap {watched}}
  /\ IF FailsClosed(k) THEN Result(k, FALSE) /\ UNCHANGED <<bucket, byMemory, robbed>>
     ELSE InMemory(k)
  /\ UNCHANGED <<now, client, watched, byRedis, restarts>>

\* Memory is lost, and Redis asked for anew.
Restart ==
  /\ restarts < MaxRestarts /\ restarts' = restarts + 1
  /\ client' = "unset" /\ bucket' = NoBuckets
  /\ UNCHANGED <<now, count, watched, refused, byRedis, byMemory, robbed, outage>>

RateNext ==
  \/ Tick \/ Resolve \/ Restart
  \/ \E k \in Keys : WithoutRedis(k) \/ RedisFailed(k)
  \/ RedisAnswered

RateSpec == RateInit /\ [][RateNext]_rateVars

-----------------------------------------------------------------------------

RateTypeOK ==
  /\ now \in 0..MaxTime /\ client \in {"unset", "none", "there"}
  /\ count \in 0..(MaxAttempts[watched] + 1) /\ \A k \in Keys : Len(bucket[k]) <= MaxAttempts[k]
  /\ Cardinality(Tracked) <= MaxKeys
  /\ watched \in Keys /\ refused \in BOOLEAN /\ robbed \in BOOLEAN /\ outage \in BOOLEAN
  /\ restarts \in 0..MaxRestarts

\* In a window of its own length an identity gets its limit once from memory, in each
\* life of the server, and at most twice from Redis, whose slots a window overlaps:
\* whatever others do to the shared map, however Redis comes and goes -- unless its own
\* live bucket had to make room, or was swept with a shorter window than its own.
WindowBounded ==
  /\ ~robbed =>
       Len(Within(byMemory, Window[watched], now)) <= MaxAttempts[watched] * (restarts + 1)
  /\ Len(Within(byRedis, Window[watched], now)) <= 2 * MaxAttempts[watched]

\* An outage locks no one out but the sign-in doors: any other refusal is of somebody
\* who was admitted as often as the limit within two windows, by one medium or the other.
RefusedHasSpent ==
  refused =>
    \/ watched \in Auth /\ outage
    \/ Len(byRedis) + Len(byMemory) >= MaxAttempts[watched]
=============================================================================
