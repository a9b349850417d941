--------------------------- MODULE GenerationQuota ----------------------------
(***************************************************************************)
(* The generation quota of one account without an active subscription, and *)
(* those who move it: the requests that check it, start a build and then   *)
(* charge it; the build threads that give a charge back when the build     *)
(* failed; and the events of Stripe that decide whether it binds at all.   *)
(* The charge, the build and the refund meet in two places only: the       *)
(* counter's row and a marker file in the platform's workspace.            *)
(***************************************************************************)
EXTENDS Integers, FiniteSets

CONSTANTS
  Platforms,   \* the account's platforms, a workspace each
  Requests,    \* threads that serve the owner's requests
  Builders,    \* build threads
  None,        \* no platform
  Limit,       \* TRIAL_GENERATION_LIMIT
  MaxAsked,    \* bound on the requests made
  MaxEvents,   \* bound on the subscription's events
  MaxCrashes   \* bound on the restarts of the server

ASSUME LimitAssumption == Limit \in Nat
ASSUME RequestsAssumption == IsFiniteSet(Requests) /\ Requests # {}
ASSUME NoneIsNoPlatform == None \notin Platforms
ASSUME QuotaBounds == MaxAsked \in Nat /\ MaxEvents \in Nat /\ MaxCrashes \in Nat

VARIABLES
  used,        \* the counter's row; an account without a row reads 0
  subscribed,  \* subscription_status is "active"
  applied,     \* the events of Stripe recorded as applied
  verdict,     \* platform -> what its ledger ends with
  marker,      \* platform -> .generation_quota_account is in its workspace
  th,          \* builder -> its platform, where it is, whether its charge was kept
  rq,          \* request -> its platform, door, where it is, whether it started a build
  delivered,   \* history: runs that succeeded or handed off, and took no refund
  unpaid,      \* history: charges that died with the request that owed them
  idled,       \* history: charges of requests that started no build
  unmarked,    \* history: runs that failed and found no marker
  metered,     \* history: the account never was a subscriber
  lapses,      \* history: how often the subscription lapsed
  inOrder,     \* history: no event came before an earlier one
  byFloor,     \* history: the owner has only used the Floor's typed actions so far
  asked, crashes

books == <<delivered, unpaid, idled, unmarked>>
billing == <<subscribed, applied, metered, lapses, inOrder>>
bounds == <<byFloor, asked, crashes>>
vars == <<used, billing, verdict, marker, th, rq, books, bounds>>

\* The Floor's typed actions; these and a pasted build link; and the HTTP routes.
FloorDoors == {"approve", "continue"}
ChatDoors == FloorDoors \cup {"link"}
Doors == ChatDoors \cup {"generate", "pilot"}

NoBuild == [on |-> None, pc |-> "idle", kept |-> FALSE]
NoRequest == [on |-> None, door |-> "none", pc |-> "idle", started |-> FALSE]

Init ==
  /\ used = 0 /\ subscribed = FALSE /\ applied = {}
  /\ verdict = [p \in Platforms |-> "new"]
  /\ marker = [p \in Platforms |-> FALSE]
  /\ th = [w \in Builders |-> NoBuild]
  /\ rq = [q \in Requests |-> NoRequest]
  /\ delivered = 0 /\ unpaid = 0 /\ idled = 0 /\ unmarked = 0
  /\ metered = TRUE /\ lapses = 0 /\ inOrder = TRUE /\ byFloor = TRUE
  /\ asked = 0 /\ crashes = 0

\* _is_limited_account
Limited == ~subscribed

IdleBuilders == {w \in Builders : th[w].pc = "idle"}
FreeBuilder == CHOOSE w \in IdleBuilders : TRUE
Running(p) == \E w \in Builders : th[w].on = p
Charging == {q \in Requests : rq[q].pc = "charge"}

-----------------------------------------------------------------------------
(* The counter.                                                             *)

\* require_within_limit: counted first, and compared afterwards.
Consumed == IF Limited THEN used + 1 ELSE used

\* refund and decrement_usage: never below zero, and nothing for a subscriber.
Refunded == IF Limited /\ used > 0 THEN used - 1 ELSE used

-----------------------------------------------------------------------------
(* A request: it checks, starts a build, and charges.                       *)

\* Mutant of Allowed: the check compares as the charge does.
AllowedAtLimit == Limited => used <= Limit

\* require_remaining
Allowed == Limited => used < Limit

\* Chat messages share the event loop, one at a time; the HTTP routes run on the thread
\* pool.  A pasted link is taken before anything else in a message, and unchecked.
Ask(q, p, door) ==
  /\ asked < MaxAsked /\ rq[q].pc = "idle"
  /\ door # "link" => Allowed
  /\ door \in ChatDoors => \A r \in Requests : rq[r].door \notin ChatDoors
  /\ rq' = [rq EXCEPT ![q] = [on |-> p, door |-> door, pc |-> "start", started |-> FALSE]]
  /\ asked' = asked + 1 /\ byFloor' = (byFloor /\ door \in FloorDoors)
  /\ UNCHANGED <<used, billing, verdict, marker, th, books, crashes>>

\* Doors that go by the status of the build and do not ask for its thread.
Blind == {"generate", "link"}

\* Mutant of Replies: every door asks for the status and not for the thread.
RepliesByStatus(door, p) ==
  IF verdict[p] = "handoff" THEN {"ingested"}
  ELSE IF verdict[p] = "open" /\ Running(p) THEN {"running"} ELSE {"started", "refused"}

\* What a door answers.  A quiet ledger with no verdict and no thread reads as
\* building or as stalled; a failed one reads as failed although a thread resumes it.
Replies(door, p) ==
  CASE verdict[p] = "handoff" ->
         IF door = "continue" THEN {"ingested"}
         ELSE IF /\ Running(p)
                 /\ door \in Blind => \E w \in Builders : th[w].on = p /\ th[w].pc = "wait"
              THEN {"running"} ELSE {"running", "waiting"}
    [] verdict[p] = "green" /\ door \in {"continue", "pilot"} -> {"complete"}
    [] Running(p) /\ (door \notin Blind \/ verdict[p] = "open") -> {"running"}
    [] verdict[p] = "open" /\ ~Running(p) -> {"running", "started", "refused"}
    [] OTHER -> {"started", "refused"}

\* The doors that resume look for a reply that says "already", not for one that says ok;
\* the handler returns from a pasted link before it comes to the charge.
Charges(door, reply) ==
  /\ door # "link"
  /\ \/ reply \in {"started", "waiting", "ingested"}
     \/ reply = "refused" /\ door \in {"continue", "pilot"}

Start(q) ==
  LET p == rq[q].on IN
  /\ rq[q].pc = "start"
  /\ \E reply \in Replies(rq[q].door, p) :
       /\ rq' = [rq EXCEPT ![q] = IF Charges(rq[q].door, reply)
                                  THEN [@ EXCEPT !.pc = "charge", !.started = (reply = "started")]
                                  ELSE NoRequest]
       /\ IF reply # "started" THEN UNCHANGED <<verdict, marker, th>>
          ELSE /\ IdleBuilders # {}
               /\ verdict' = [verdict EXCEPT ![p] = IF @ = "new" THEN "open" ELSE @]
               /\ marker' = [marker EXCEPT ![p] = TRUE]
               /\ th' = [th EXCEPT ![FreeBuilder] = [on |-> p, pc |-> "run", kept |-> FALSE]]
  /\ UNCHANGED <<used, billing, books, bounds>>

Charge(q) ==
  /\ rq[q].pc = "charge"
  /\ used' = Consumed
  /\ idled' = IF rq[q].started THEN idled ELSE idled + 1
  /\ rq' = [rq EXCEPT ![q] = NoRequest]
  /\ UNCHANGED <<billing, verdict, marker, th, delivered, unpaid, unmarked, bounds>>

-----------------------------------------------------------------------------
(* A build thread: build_jobs._run around RoleRunner.run.                   *)

At(w, pc) == th[w].pc = pc

\* The runner writes its verdict and returns; one that starts on a finished ledger
\* writes its success again.  An exception is written down as a failure.
Return(w) ==
  /\ At(w, "run")
  /\ \E end \in {"failed", "raised", "handoff", "green"} :
       /\ verdict[th[w].on] = "green" => end = "green"
       /\ verdict' = [verdict EXCEPT ![th[w].on] = IF end = "raised" THEN "failed" ELSE end]
       /\ th' = [th EXCEPT ![w].pc = CASE end = "raised" -> "refund"
                                       [] end = "handoff" -> "keep"
                                       [] end = "green" -> "done" [] OTHER -> "settle"]
  /\ UNCHANGED <<used, billing, marker, rq, books, bounds>>

\* Mutant of Failed: whoever finds the marker gives the charge back.
AnyEnd(w) == TRUE

\* Whether the thread refunds: by the ledger's last verdict, whoever wrote it.
Failed(w) == At(w, "refund") \/ verdict[th[w].on] \in {"failed", "handoff"}

\* The charge is given back by the marker, which whoever ends a run removes.
Settle(w) ==
  LET p == th[w].on
      refund == Failed(w) /\ marker[p]
  IN
  /\ th[w].pc \in {"done", "settle", "refund"}
  /\ used' = IF refund THEN Refunded ELSE used
  /\ marker' = [marker EXCEPT ![p] = FALSE]
  /\ delivered' = CASE At(w, "done") /\ ~th[w].kept -> delivered + 1
                     [] ~At(w, "done") /\ th[w].kept /\ refund -> delivered - 1
                     [] OTHER -> delivered
  /\ unmarked' = IF Failed(w) /\ ~marker[p] /\ ~th[w].kept THEN unmarked + 1 ELSE unmarked
  /\ th' = [th EXCEPT ![w] = NoBuild]
  /\ UNCHANGED <<billing, verdict, rq, unpaid, idled, bounds>>

\* A handoff keeps the charge, and the thread waits for the Store gate.
Keep(w) ==
  /\ At(w, "keep")
  /\ marker' = [marker EXCEPT ![th[w].on] = FALSE]
  /\ delivered' = IF th[w].kept THEN delivered ELSE delivered + 1
  /\ th' = [th EXCEPT ![w].pc = "wait", ![w].kept = TRUE]
  /\ UNCHANGED <<used, billing, verdict, rq, unpaid, idled, unmarked, bounds>>

\* The gate's answer, if any; a failure of the product may send the runner back in,
\* on the charge it kept.
Answered(w) ==
  /\ At(w, "wait")
  /\ \/ th' = [th EXCEPT ![w] = NoBuild] /\ UNCHANGED verdict
     \/ /\ verdict[th[w].on] = "handoff"
        /\ \/ /\ \E v \in {"green", "failed"} : verdict' = [verdict EXCEPT ![th[w].on] = v]
              /\ th' = [th EXCEPT ![w] = NoBuild]
           \/ /\ verdict' = [verdict EXCEPT ![th[w].on] = "open"]
              /\ th' = [th EXCEPT ![w].pc = "run"]
  /\ UNCHANGED <<used, billing, marker, rq, books, bounds>>

\* Without its thread a handoff is answered by a waiter of StoreGate.
AnsweredLater(p) ==
  /\ verdict[p] = "handoff" /\ ~Running(p)
  /\ \E v \in {"green", "failed"} : verdict' = [verdict EXCEPT ![p] = v]
  /\ UNCHANGED <<used, billing, marker, th, rq, books, bounds>>

-----------------------------------------------------------------------------
(* Stripe's events, at least once and in any order; and restarts.           *)

\* What event e of the subscription says: it begins, it ends, it begins again.
Says(e) == e % 2 = 1

\* Mutant of Seen: a redelivered event is applied again.
NeverSeen(e) == FALSE

\* stripe_event_seen
Seen(e) == e \in applied

Sets(e) ==
  /\ subscribed' = Says(e)
  /\ lapses' = IF subscribed /\ ~Says(e) THEN lapses + 1 ELSE lapses
  /\ metered' = (metered /\ ~Says(e))
  /\ inOrder' = (inOrder /\ (e \in applied \/ \A f \in applied : f < e))

\* handle_event
Deliver(e) ==
  /\ ~Seen(e) /\ Sets(e) /\ applied' = applied \cup {e}
  /\ UNCHANGED <<used, verdict, marker, th, rq, books, bounds>>

\* The process ends: threads and requests are gone, files and rows stay.
Stops ==
  /\ crashes < MaxCrashes /\ crashes' = crashes + 1
  /\ unpaid' = unpaid + Cardinality(Charging)
  /\ th' = [w \in Builders |-> NoBuild]
  /\ rq' = [q \in Requests |-> NoRequest]
  /\ UNCHANGED <<used, verdict, marker, delivered, idled, unmarked, byFloor, asked>>

Crash == Stops /\ UNCHANGED billing

\* ... or between the subscription's row and the event's: Stripe sends it again.
CrashInEvent(e) == ~Seen(e) /\ Sets(e) /\ UNCHANGED applied /\ Stops

Next ==
  \/ \E q \in Requests :
       \/ \E p \in Platforms, door \in Doors : Ask(q, p, door)
       \/ Start(q) \/ Charge(q)
  \/ \E w \in Builders : Return(w) \/ Settle(w) \/ Keep(w) \/ Answered(w)
  \/ \E p \in Platforms : AnsweredLater(p)
  \/ \E e \in 1..MaxEvents : Deliver(e) \/ CrashInEvent(e)
  \/ Crash

Spec == Init /\ [][Next]_vars

-----------------------------------------------------------------------------

TypeOK ==
  /\ used \in Nat /\ subscribed \in BOOLEAN /\ applied \in SUBSET (1..MaxEvents)
  /\ verdict \in [Platforms -> {"new", "open", "failed", "handoff", "green"}]
  /\ marker \in [Platforms -> BOOLEAN]
  /\ th \in [Builders -> [on : Platforms \cup {None}, kept : BOOLEAN,
                          pc : {"idle", "run", "done", "settle", "refund", "keep", "wait"}]]
  /\ rq \in [Requests -> [on : Platforms \cup {None}, door : Doors \cup {"none"},
                          pc : {"idle", "start", "charge"}, started : BOOLEAN]]
  /\ delivered \in Int /\ unpaid \in Nat /\ idled \in Nat /\ unmarked \in Nat
  /\ metered \in BOOLEAN /\ lapses \in Nat /\ inOrder \in BOOLEAN /\ byFloor \in BOOLEAN
  /\ asked \in 0..MaxAsked /\ crashes \in 0..MaxCrashes

\* The check and the charge are two steps and nothing is held between them, so an
\* account can go over its limit; but by no more than the requests in flight, once,
\* and once more for each time its subscription lapsed under requests let through.
OverdraftBounded ==
  used <= Limit - 1 + Cardinality(Requests) * (lapses + 1)

\* While the quota binds, the Floor's typed actions -- of an owner who neither starts
\* builds by HTTP nor pastes a link -- give nobody a build for nothing: each run that
\* succeeded or handed off is in the counter, is still to be charged, or was lost with
\* the request that owed it; a handed-off run that fails later keeps its charge.
DeliveredIsPaid ==
  metered /\ byFloor => delivered <= used + Cardinality(Charging) + unpaid

\* Started by the Floor's typed actions, which look for the live thread, a run that fails
\* before any handoff finds the marker of its own start and gives the charge back,
\* restarts or not.
FailureFindsItsMarker == byFloor => unmarked = 0

\* Stripe delivers at least once: an old event sent again does not bring an earlier
\* status back, as long as first deliveries were in order and none met a crash.
RedeliveryIsSafe ==
  inOrder /\ crashes = 0 /\ applied # {} =>
    \E last \in applied : (\A e \in applied : e <= last) /\ subscribed = Says(last)

(* What the repository says and the code does not keep.                      *)

\* A generation is charged "after a build actually started", as the helper that charges
\* says; an ingest or a refusal at the door of a resume is charged as well.
ChargedIsStarted == idled = 0
=============================================================================
