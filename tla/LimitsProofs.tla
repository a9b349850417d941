---------------------------- MODULE LimitsProofs -----------------------------
(***************************************************************************)
(* The two limits of use.  The trial quota: its overdraft is bounded, what *)
(* the Floor gave is paid, a failure finds its marker and a redelivery    *)
(* does nothing, for every limit and every number of platforms, requests,  *)
(* builders, events and crashes.  The limiter of attempts: no identity is  *)
(* admitted past its budget and none is refused that has not spent it, for *)
(* any identities, limits, windows, size of the map, time and restarts.    *)
(***************************************************************************)
EXTENDS GenerationQuota, RateLimit, FiniteSetTheorems, TLAPS

\* A request between its check and its charge; a pasted link goes through neither.
InFlight == {q \in Requests : rq[q].pc \in {"start", "charge"} /\ rq[q].door # "link"}

Most == Limit - 1 + Cardinality(Requests) * (lapses + 1)

\* The counters are numbers, each request has a place, and none that came by a link comes
\* to the charge.
Numbers ==
  /\ used \in Nat /\ lapses \in Nat
  /\ DOMAIN rq = Requests /\ \A q \in Requests : rq[q].pc = "charge" => rq[q].door # "link"

\* OverdraftBounded is not inductive by itself: while the quota binds, the requests in
\* flight are as good as counted.
Booked ==
  /\ Numbers
  /\ used <= Most
  /\ Limited => used + Cardinality(InFlight) <= Most

LEMMA SomeRequests == Cardinality(Requests) \in Nat /\ Cardinality(Requests) >= 1
<1>1. Cardinality(Requests) \in Nat
  BY RequestsAssumption, FS_CardinalityType
<1>2. Cardinality(Requests) # 0
  BY RequestsAssumption, FS_EmptySet
<1> QED  BY <1>1, <1>2

\* A bound with one more lapse has room for all the requests once more.
LEMMA MostGrows ==
  ASSUME NEW R \in Nat, NEW n \in Nat
  PROVE  /\ R * (n + 1) \in Nat
         /\ R * (n + 1) >= R
         /\ R * (n + 1 + 1) = R * (n + 1) + R
<1>1. R * n \in Nat  OBVIOUS
<1>2. R * (n + 1) = R * n + R  OBVIOUS
<1>3. R * (n + 1 + 1) = R * (n + 1) + R  OBVIOUS
<1> QED  BY <1>1, <1>2, <1>3

\* No set of requests is larger than all of them, and it is a number.
LEMMA RequestsBound ==
  ASSUME NEW S \in SUBSET Requests
  PROVE  /\ IsFiniteSet(S) /\ Cardinality(S) \in Nat
         /\ Cardinality(S) <= Cardinality(Requests)
  BY RequestsAssumption, FS_Subset, FS_CardinalityType

THEOREM BookedInit == Init => Booked
<1> SUFFICES ASSUME Init PROVE Booked  OBVIOUS
<1>1. InFlight = {}
  BY DEF Init, InFlight, NoRequest
<1>2. Cardinality(InFlight) = 0
  BY <1>1, FS_EmptySet
<1>3. Numbers
  BY DEF Init, Numbers, NoRequest
<1>4. Limit - 1 + Cardinality(Requests) * (0 + 1) >= 0
  BY SomeRequests, LimitAssumption
<1> QED  BY <1>2, <1>3, <1>4 DEF Init, Booked, Most

\* A step that adds nobody in flight and counts nothing keeps the books.
LEMMA Quiet ==
  ASSUME Booked, Numbers', InFlight' \subseteq InFlight,
         used' <= used, lapses' = lapses, subscribed' = subscribed
  PROVE  Booked'
<1>1. Cardinality(InFlight') <= Cardinality(InFlight)
  BY RequestsAssumption, FS_Subset DEF InFlight
<1>2. Cardinality(InFlight) \in Nat /\ Cardinality(InFlight') \in Nat
  BY RequestsBound DEF InFlight
<1>3. Most' = Most
  BY DEF Most
<1>4. Most \in Int
  BY SomeRequests, MostGrows, LimitAssumption DEF Most, Booked, Numbers
<1> QED  BY <1>1, <1>2, <1>3, <1>4 DEF Booked, Numbers, Limited

\* Nobody is let in while the counter is at the limit.
LEMMA AskBooks ==
  ASSUME Booked, NEW q \in Requests, NEW p \in Platforms, NEW d \in Doors, Ask(q, p, d)
  PROVE  Booked'
<1> DEFINE r == [on |-> p, door |-> d, pc |-> "start", started |-> FALSE]
<1>1. /\ Most' = Most /\ used' = used /\ lapses' = lapses /\ subscribed' = subscribed
      /\ rq[q].pc = "idle" /\ rq' = [rq EXCEPT ![q] = r]
  BY DEF Ask, Most, billing
<1>2. r.pc = "start" /\ r.door = d
  OBVIOUS
<1> HIDE DEF r
<1>3. DOMAIN rq' = Requests /\ rq'[q] = r /\ \A s \in Requests \ {q} : rq'[s] = rq[s]
  BY <1>1 DEF Booked, Numbers
<1>4. Numbers'
  BY <1>1, <1>2, <1>3 DEF Booked, Numbers
<1>5. CASE d = "link"
  <2>1. InFlight' \subseteq InFlight
    BY <1>1, <1>2, <1>3, <1>5 DEF InFlight
  <2> QED  BY <1>1, <1>4, <2>1, Quiet DEF Booked, Numbers
<1>6. CASE d # "link"
  <2>1. Cardinality(InFlight') \in Nat /\ Cardinality(InFlight') <= Cardinality(Requests)
    BY RequestsBound DEF InFlight
  <2>2. Most >= Limit - 1 + Cardinality(Requests) /\ Most \in Int
    BY SomeRequests, MostGrows, LimitAssumption DEF Most, Booked, Numbers
  <2>3. Limited => used + 1 <= Limit
    BY <1>6, LimitAssumption DEF Ask, Allowed, Booked, Numbers
  <2> QED  BY <1>1, <1>4, <2>1, <2>2, <2>3, SomeRequests, LimitAssumption
           DEF Booked, Numbers, Limited
<1> QED  BY <1>5, <1>6

\* A charge takes its request out of flight.
LEMMA ChargeBooks ==
  ASSUME Booked, NEW q \in Requests, Charge(q)
  PROVE  Booked'
<1>1. Numbers' /\ Most' = Most /\ subscribed' = subscribed
  BY DEF Charge, Booked, Numbers, Most, billing, Consumed, NoRequest
<1>2. q \in InFlight /\ InFlight' = InFlight \ {q}
  BY DEF Charge, InFlight, Booked, Numbers, NoRequest
<1>3. IsFiniteSet(InFlight) /\ Cardinality(InFlight) \in Nat
  BY RequestsBound DEF InFlight
<1>4. Cardinality(InFlight') = Cardinality(InFlight) - 1
  BY <1>2, <1>3, FS_RemoveElement
<1>5. Most \in Int
  BY SomeRequests, MostGrows, LimitAssumption DEF Most, Booked, Numbers
<1>6. CASE Limited
  <2>1. used' = used + 1
    BY <1>6 DEF Charge, Consumed
  <2>2. 0 <= Cardinality(InFlight')
    BY RequestsBound DEF InFlight
  <2> QED  BY <1>1, <1>3, <1>4, <1>5, <1>6, <2>1, <2>2 DEF Booked, Numbers, Limited
<1>7. CASE ~Limited
  BY <1>1, <1>7 DEF Charge, Consumed, Booked, Limited
<1> QED  BY <1>6, <1>7

\* The status changes: a lapse makes room for those it finds in flight.
LEMMA SetsBooks ==
  ASSUME Booked, NEW e, Sets(e), used' = used, DOMAIN rq' = Requests,
         InFlight' \subseteq InFlight,
         \A q \in Requests : rq'[q].pc = "charge" => rq'[q].door # "link"
  PROVE  Booked'
<1>1. CASE subscribed /\ ~Says(e)
  <2>1. lapses' = lapses + 1 /\ ~subscribed'
    BY <1>1 DEF Sets
  <2>2. Most' = Most + Cardinality(Requests)
    <3>1. Cardinality(Requests) * (lapses + 1 + 1)
            = Cardinality(Requests) * (lapses + 1) + Cardinality(Requests)
      BY SomeRequests, MostGrows DEF Booked, Numbers
    <3>2. Cardinality(Requests) * (lapses + 1) \in Nat
      BY SomeRequests, MostGrows DEF Booked, Numbers
    <3> QED  BY <2>1, <3>1, <3>2, SomeRequests, LimitAssumption DEF Most
  <2>3. Cardinality(InFlight') \in Nat /\ Cardinality(InFlight') <= Cardinality(Requests)
    BY RequestsBound DEF InFlight
  <2>4. Most \in Int
    BY SomeRequests, MostGrows, LimitAssumption DEF Most, Booked, Numbers
  <2> QED  BY <2>1, <2>2, <2>3, <2>4, SomeRequests DEF Booked, Numbers
<1>2. CASE ~(subscribed /\ ~Says(e))
  <2>1. lapses' = lapses /\ (Limited' => Limited) /\ Most' = Most
    BY <1>2 DEF Sets, Limited, Most
  <2>2. Cardinality(InFlight') <= Cardinality(InFlight)
    BY RequestsAssumption, FS_Subset DEF InFlight
  <2>3. Cardinality(InFlight) \in Nat /\ Cardinality(InFlight') \in Nat
    BY RequestsBound DEF InFlight
  <2>4. Most \in Int
    BY SomeRequests, MostGrows, LimitAssumption DEF Most, Booked, Numbers
  <2> QED  BY <2>1, <2>2, <2>3, <2>4 DEF Booked, Numbers
<1> QED  BY <1>1, <1>2

THEOREM BookedStep == Booked /\ [Next]_vars => Booked'
<1> SUFFICES ASSUME Booked, [Next]_vars PROVE Booked'  OBVIOUS
<1>1. CASE UNCHANGED vars
  BY <1>1, Quiet DEF vars, billing, Booked, Numbers, InFlight
<1>2. ASSUME NEW q \in Requests, NEW p \in Platforms, NEW d \in Doors, Ask(q, p, d)
      PROVE  Booked'
  BY <1>2, AskBooks
<1>3. ASSUME NEW q \in Requests, Start(q)  PROVE  Booked'
  <2>1. PICK reply \in Replies(rq[q].door, rq[q].on) :
          rq' = [rq EXCEPT ![q] = IF Charges(rq[q].door, reply)
                                  THEN [@ EXCEPT !.pc = "charge", !.started = (reply = "started")]
                                  ELSE NoRequest]
    BY <1>3 DEF Start
  <2> DEFINE r == IF Charges(rq[q].door, reply)
                  THEN [rq[q] EXCEPT !.pc = "charge", !.started = (reply = "started")]
                  ELSE NoRequest
  <2>2. rq' = [rq EXCEPT ![q] = r]
    BY <2>1
  <2>3. r.pc = "idle" \/ (r.pc # "idle" /\ r.door = rq[q].door /\ r.door # "link")
    BY DEF Charges, NoRequest
  <2> HIDE DEF r
  <2>4. /\ used' = used /\ lapses' = lapses /\ subscribed' = subscribed
        /\ rq[q].pc = "start"
        /\ DOMAIN rq' = Requests /\ rq'[q] = r /\ \A s \in Requests : s # q => rq'[s] = rq[s]
    BY <1>3, <2>2 DEF Start, billing, Booked, Numbers
  <2>5. InFlight' \subseteq InFlight /\ Numbers'
    BY <2>3, <2>4 DEF InFlight, Booked, Numbers
  <2> QED  BY <2>4, <2>5, Quiet DEF Booked, Numbers
<1>4. ASSUME NEW q \in Requests, Charge(q)  PROVE  Booked'
  BY <1>4, ChargeBooks
<1>5. ASSUME NEW w \in Builders, Return(w) \/ Keep(w) \/ Answered(w)  PROVE  Booked'
  BY <1>5, Quiet DEF Return, Keep, Answered, billing, Booked, Numbers, InFlight
<1>6. ASSUME NEW w \in Builders, Settle(w)  PROVE  Booked'
  <2>1. used' \in Nat /\ used' <= used
    BY <1>6 DEF Settle, Refunded, Booked, Numbers
  <2> QED  BY <1>6, <2>1, Quiet DEF Settle, billing, Booked, Numbers, InFlight
<1>7. ASSUME NEW p \in Platforms, AnsweredLater(p)  PROVE  Booked'
  BY <1>7, Quiet DEF AnsweredLater, billing, Booked, Numbers, InFlight
<1>8. ASSUME NEW e \in 1..MaxEvents, Deliver(e)  PROVE  Booked'
  BY <1>8, SetsBooks DEF Deliver, Booked, Numbers, InFlight
<1>9. ASSUME Stops
      PROVE  /\ InFlight' = {} /\ DOMAIN rq' = Requests /\ used' = used
             /\ \A q \in Requests : rq'[q].pc = "charge" => rq'[q].door # "link"
  BY <1>9 DEF Stops, InFlight, NoRequest
<1>10. ASSUME NEW e \in 1..MaxEvents, CrashInEvent(e)  PROVE  Booked'
  BY <1>9, <1>10, SetsBooks DEF CrashInEvent
<1>11. CASE Crash
  BY <1>9, <1>11, Quiet DEF Crash, billing, Booked, Numbers
<1> QED  BY <1>1, <1>2, <1>3, <1>4, <1>5, <1>6, <1>7, <1>8, <1>10, <1>11 DEF Next

\* Requests that check together and charge one after the other overdraw the account by
\* no more than their number, once and once more per lapse of the subscription.
THEOREM OverdraftIsBounded == Spec => []OverdraftBounded
<1>1. Booked => OverdraftBounded
  BY DEF Booked, Most, OverdraftBounded
<1> QED  BY <1>1, BookedInit, BookedStep, PTL DEF Spec

-----------------------------------------------------------------------------
(* The charge, the build and the refund.                                    *)

Threads == [on : Platforms \cup {None}, kept : BOOLEAN,
            pc : {"idle", "run", "done", "settle", "refund", "keep", "wait"}]
Asked == [on : Platforms \cup {None}, door : Doors \cup {"none"},
          pc : {"idle", "start", "charge"}, started : BOOLEAN]

\* Who works, works on a platform.
Placed ==
  /\ \A w \in Builders : th[w].pc # "idle" => th[w].on \in Platforms
  /\ \A w \in Builders : th[w].pc = "idle" => th[w].on = None
  /\ \A q \in Requests : rq[q].pc # "idle" => rq[q].on \in Platforms

\* The Floor's typed actions start nothing beside a live thread: a platform has one builder at a time, its
\* marker is there until that builder settles or keeps the charge, and nobody but the
\* builder writes over its success.
OneByOne ==
  byFloor =>
    /\ \A q \in Requests : rq[q].pc # "idle" => rq[q].door \in FloorDoors
    /\ \A v, w \in Builders : v # w /\ th[v].on = th[w].on => th[v].on = None
    /\ \A w \in Builders : th[w].pc # "idle" => marker[th[w].on] = ~th[w].kept
    /\ \A w \in Builders : th[w].pc = "wait" => th[w].kept
    /\ \A w \in Builders : th[w].pc = "done" => verdict[th[w].on] = "green"
    /\ unmarked = 0

\* The builds whose charge is neither kept nor given back.
Live == {w \in Builders : th[w].pc \notin {"idle", "wait"} /\ ~th[w].kept}

\* DeliveredIsPaid is not inductive by itself: a build that runs is as good as delivered.
Accounted ==
  /\ metered => ~subscribed
  /\ IsFiniteSet(Live)
  /\ metered /\ byFloor =>
       delivered + Cardinality(Live) <= used + Cardinality(Charging) + unpaid

\* What each action needs of the others, in one formula.
IInv == TypeOK /\ Placed /\ OneByOne /\ Accounted

LEMMA TypeParts ==
  TypeOK => /\ th \in [Builders -> Threads] /\ rq \in [Requests -> Asked]
            /\ marker \in [Platforms -> BOOLEAN]
  BY DEF TypeOK, Threads, Asked

\* One thread moves and the others stay where they are.
LEMMA ThreadMoves ==
  ASSUME th \in [Builders -> Threads], NEW w \in Builders, NEW r \in Threads,
         th' = [th EXCEPT ![w] = r]
  PROVE  /\ th' \in [Builders -> Threads] /\ th'[w] = r
         /\ \A v \in Builders : v # w => th'[v] = th[v]
  OBVIOUS

\* One request moves and the others stay where they are.
LEMMA RequestMoves ==
  ASSUME rq \in [Requests -> Asked], NEW q \in Requests, NEW r \in Asked,
         rq' = [rq EXCEPT ![q] = r]
  PROVE  /\ rq' \in [Requests -> Asked] /\ rq'[q] = r
         /\ \A s \in Requests : s # q => rq'[s] = rq[s]
  OBVIOUS

\* The empty places are well formed.
LEMMA Places == NoBuild \in Threads /\ NoRequest \in Asked
  BY DEF NoBuild, NoRequest, Threads, Asked

\* A free builder is a builder that does nothing.
LEMMA FreeIsIdle ==
  ASSUME IdleBuilders # {}
  PROVE  FreeBuilder \in Builders /\ th[FreeBuilder].pc = "idle"
<1>1. FreeBuilder \in IdleBuilders
  BY DEF FreeBuilder
<1> QED  BY <1>1 DEF IdleBuilders

LEMMA IInvInit == Init => IInv
<1> SUFFICES ASSUME Init PROVE IInv  OBVIOUS
<1>1. TypeOK
  <2>1. th \in [Builders -> Threads] /\ rq \in [Requests -> Asked]
    BY Places DEF Init
  <2>2. /\ verdict \in [Platforms -> {"new", "open", "failed", "handoff", "green"}]
        /\ marker \in [Platforms -> BOOLEAN]
    BY DEF Init
  <2>3. /\ used \in Nat /\ applied \in SUBSET (1..MaxEvents) /\ lapses \in Nat
        /\ delivered \in Int /\ unpaid \in Nat /\ idled \in Nat /\ unmarked \in Nat
    BY DEF Init
  <2>5. /\ subscribed \in BOOLEAN /\ metered \in BOOLEAN
        /\ inOrder \in BOOLEAN /\ byFloor \in BOOLEAN
    BY DEF Init
  <2>4. asked \in 0..MaxAsked /\ crashes \in 0..MaxCrashes
    BY QuotaBounds DEF Init
  <2> QED  BY <2>1, <2>2, <2>3, <2>4, <2>5 DEF TypeOK, Threads, Asked
<1>2. Placed
  BY DEF Init, Placed, NoBuild, NoRequest
<1>3. OneByOne
  BY DEF Init, OneByOne, NoBuild, NoRequest
<1>4. Live = {} /\ Charging = {}
  BY DEF Init, Live, Charging, NoBuild, NoRequest
<1>5. Accounted
  BY <1>4, FS_EmptySet DEF Init, Accounted
<1> QED  BY <1>1, <1>2, <1>3, <1>5 DEF IInv

LEMMA AskHolds ==
  ASSUME IInv, NEW q \in Requests, NEW p \in Platforms, NEW d \in Doors, Ask(q, p, d)
  PROVE  IInv'
<1> DEFINE r == [on |-> p, door |-> d, pc |-> "start", started |-> FALSE]
<1>1. r \in Asked
  BY DEF Asked
<1>2. rq' = [rq EXCEPT ![q] = r]
  BY DEF Ask
<1>3. r.pc = "start" /\ r.on = p /\ r.door = d
  OBVIOUS
<1> HIDE DEF r
<1>4. /\ rq' \in [Requests -> Asked] /\ rq'[q] = r
      /\ \A s \in Requests : s # q => rq'[s] = rq[s]
  BY <1>1, <1>2, TypeParts, RequestMoves DEF IInv
<1>5. /\ UNCHANGED <<used, subscribed, applied, metered, lapses, inOrder, verdict, marker, th>>
      /\ UNCHANGED <<delivered, unpaid, idled, unmarked, crashes>>
      /\ asked' = asked + 1 /\ asked < MaxAsked /\ byFloor' = (byFloor /\ d \in FloorDoors)
      /\ rq[q].pc = "idle"
  BY DEF Ask, billing, books
<1>6. TypeOK'
  BY <1>4, <1>5, QuotaBounds DEF IInv, TypeOK, Asked
<1>7. Placed'
  BY <1>3, <1>4, <1>5 DEF IInv, Placed
<1>8. OneByOne'
  BY <1>3, <1>4, <1>5 DEF IInv, OneByOne
<1>9. Live' = Live /\ Charging' = Charging
  BY <1>3, <1>4, <1>5 DEF Live, Charging
<1>10. Accounted'
  BY <1>5, <1>9 DEF IInv, Accounted
<1> QED  BY <1>6, <1>7, <1>8, <1>10 DEF IInv

\* By the Floor's typed actions, a build is started only where no thread is.
LEMMA FloorStartsAlone ==
  ASSUME NEW p, NEW d \in FloorDoors, "started" \in Replies(d, p)
  PROVE  ~Running(p) /\ verdict[p] # "handoff" /\ Charges(d, "started")
<1>1. d \notin Blind /\ d # "link"
  BY DEF FloorDoors, Blind
<1>2. verdict[p] # "handoff"
  BY DEF Replies
<1> QED  BY <1>1, <1>2 DEF Replies, Charges

LEMMA StartHolds ==
  ASSUME IInv, NEW q \in Requests, Start(q)
  PROVE  IInv'
<1> DEFINE p == rq[q].on
           b == FreeBuilder
           file == [on |-> p, pc |-> "run", kept |-> FALSE]
<1>1. p \in Platforms /\ rq[q].pc = "start"
  BY DEF Start, IInv, Placed
<1>2. PICK reply \in Replies(rq[q].door, p) :
        /\ rq' = [rq EXCEPT ![q] = IF Charges(rq[q].door, reply)
                                   THEN [@ EXCEPT !.pc = "charge", !.started = (reply = "started")]
                                   ELSE NoRequest]
        /\ IF reply # "started" THEN UNCHANGED <<verdict, marker, th>>
           ELSE /\ IdleBuilders # {}
                /\ verdict' = [verdict EXCEPT ![p] = IF @ = "new" THEN "open" ELSE @]
                /\ marker' = [marker EXCEPT ![p] = TRUE]
                /\ th' = [th EXCEPT ![b] = file]
  BY DEF Start
<1> DEFINE r == IF Charges(rq[q].door, reply)
                THEN [rq[q] EXCEPT !.pc = "charge", !.started = (reply = "started")]
                ELSE NoRequest
<1>3. /\ UNCHANGED <<used, subscribed, applied, metered, lapses, inOrder, byFloor, asked, crashes>>
      /\ UNCHANGED <<delivered, unpaid, idled, unmarked>>
  BY DEF Start, billing, books, bounds
<1>4. rq[q] \in Asked
  BY TypeParts DEF IInv
<1>5. r \in Asked
  BY <1>4, Places DEF Asked
<1>6. /\ r.pc # "idle" => r.on = p /\ r.door = rq[q].door
      /\ r.pc = "charge" \/ r.pc = "idle"
      /\ Charges(rq[q].door, reply) => r.pc = "charge"
  BY <1>4 DEF Asked, NoRequest
<1>7. rq' = [rq EXCEPT ![q] = r]
  BY <1>2
<1> HIDE DEF r
<1>8. /\ rq' \in [Requests -> Asked] /\ rq'[q] = r
      /\ \A s \in Requests : s # q => rq'[s] = rq[s]
  BY <1>5, <1>7, TypeParts, RequestMoves DEF IInv
<1>9. \A s \in Requests : rq'[s].pc # "idle" =>
        rq[s].pc # "idle" /\ rq'[s].on = rq[s].on /\ rq'[s].door = rq[s].door
  BY <1>1, <1>6, <1>8
<1>10. /\ IsFiniteSet(Charging) /\ Cardinality(Charging) \in Nat /\ Cardinality(Charging') \in Nat
       /\ Cardinality(Charging') >= Cardinality(Charging)
       /\ Charges(rq[q].door, reply) => Cardinality(Charging') = Cardinality(Charging) + 1
  <2>1. IsFiniteSet(Charging) /\ Cardinality(Charging) \in Nat
    BY RequestsBound DEF Charging
  <2>2. q \notin Charging
    BY <1>1 DEF Charging
  <2>3. Charging' = IF r.pc = "charge" THEN Charging \cup {q} ELSE Charging
    BY <1>1, <1>6, <1>8 DEF Charging
  <2>4. CASE r.pc = "charge"
    <3>1. Charging' = Charging \cup {q}
      BY <2>3, <2>4
    <3>2. Cardinality(Charging \cup {q}) = Cardinality(Charging) + 1
      BY <2>1, <2>2, FS_AddElement
    <3> QED  BY <2>1, <3>1, <3>2
  <2>5. CASE r.pc # "charge"
    BY <1>6, <2>1, <2>3, <2>5
  <2> QED  BY <2>4, <2>5
<1>11. CASE reply # "started"
  <2>1. UNCHANGED <<verdict, marker, th>>
    BY <1>2, <1>11
  <2>2. TypeOK'
    BY <1>3, <1>8, <2>1 DEF IInv, TypeOK, Asked
  <2>3. Placed'
    BY <1>9, <2>1 DEF IInv, Placed
  <2>4. OneByOne'
    BY <1>3, <1>9, <2>1 DEF IInv, OneByOne
  <2>5. Live' = Live
    BY <2>1 DEF Live
  <2>6. Cardinality(Live) \in Nat /\ delivered \in Int /\ used \in Nat /\ unpaid \in Nat
    BY FS_CardinalityType DEF IInv, Accounted, TypeOK
  <2>7. Accounted'
    BY <1>3, <1>10, <2>5, <2>6 DEF IInv, Accounted
  <2> QED  BY <2>2, <2>3, <2>4, <2>7 DEF IInv
<1>12. CASE reply = "started"
  <2>1. /\ IdleBuilders # {}
        /\ verdict' = [verdict EXCEPT ![p] = IF @ = "new" THEN "open" ELSE @]
        /\ marker' = [marker EXCEPT ![p] = TRUE]
        /\ th' = [th EXCEPT ![b] = file]
    BY <1>2, <1>12
  <2>2. b \in Builders /\ th[b].pc = "idle"
    BY <2>1, FreeIsIdle
  <2>3. file \in Threads /\ file.on = p /\ file.pc = "run" /\ file.kept = FALSE
    BY <1>1 DEF Threads
  <2> HIDE DEF file, b, p
  <2>4. /\ th' \in [Builders -> Threads] /\ th'[b] = file
        /\ \A v \in Builders : v # b => th'[v] = th[v]
    BY <2>1, <2>2, <2>3, TypeParts, ThreadMoves DEF IInv
  <2>5. /\ marker' \in [Platforms -> BOOLEAN] /\ marker'[p] = TRUE
        /\ \A o \in Platforms : o # p => marker'[o] = marker[o] /\ verdict'[o] = verdict[o]
        /\ verdict' \in [Platforms -> {"new", "open", "failed", "handoff", "green"}]
    BY <1>1, <2>1 DEF IInv, TypeOK
  <2>6. TypeOK'
    BY <1>3, <1>8, <2>4, <2>5 DEF IInv, TypeOK, Asked, Threads
  <2>7. Placed'
    BY <1>1, <1>9, <2>3, <2>4 DEF IInv, Placed
  <2>8. byFloor => \A v \in Builders : th[v].on # p
    <3>1. byFloor => rq[q].door \in FloorDoors
      BY <1>1 DEF IInv, OneByOne
    <3> QED  BY <1>2, <1>12, <3>1, FloorStartsAlone DEF Running, p
  <2>9. OneByOne'
    <3> SUFFICES ASSUME byFloor PROVE OneByOne'
      BY <1>3 DEF OneByOne
    <3>1. \A s \in Requests : rq'[s].pc # "idle" => rq'[s].door \in FloorDoors
      BY <1>9 DEF IInv, OneByOne
    <3>2. \A v, w \in Builders : v # w /\ th'[v].on = th'[w].on => th'[v].on = None
      BY <2>3, <2>4, <2>8 DEF IInv, OneByOne
    <3>3. \A w \in Builders : th'[w].pc # "idle" => marker'[th'[w].on] = ~th'[w].kept
      <4> TAKE w \in Builders
      <4>1. CASE w = b
        BY <2>3, <2>4, <2>5, <4>1
      <4>2. CASE w # b
        BY <2>4, <2>5, <2>8, <4>2 DEF IInv, OneByOne, Placed
      <4> QED  BY <4>1, <4>2
    <3>4. \A w \in Builders : th'[w].pc = "wait" => th'[w].kept
      BY <2>3, <2>4 DEF IInv, OneByOne
    <3>5. \A w \in Builders : th'[w].pc = "done" => verdict'[th'[w].on] = "green"
      BY <2>3, <2>4, <2>5, <2>8 DEF IInv, OneByOne, Placed
    <3> QED  BY <1>3, <3>1, <3>2, <3>3, <3>4, <3>5 DEF IInv, OneByOne
  <2>10. b \notin Live /\ Live' = Live \cup {b}
    BY <2>2, <2>3, <2>4 DEF Live
  <2>11. IsFiniteSet(Live) /\ IsFiniteSet(Live') /\ Cardinality(Live) \in Nat
         /\ Cardinality(Live') = Cardinality(Live) + 1
    BY <2>10, FS_AddElement, FS_CardinalityType DEF IInv, Accounted
  <2>12. byFloor => Charges(rq[q].door, reply)
    <3>1. byFloor => rq[q].door \in FloorDoors
      BY <1>1 DEF IInv, OneByOne
    <3> QED  BY <1>12, <3>1 DEF Charges, FloorDoors
  <2>13. Accounted'
    <3>1. delivered \in Int /\ used \in Nat /\ unpaid \in Nat
      BY DEF IInv, TypeOK
    <3> QED  BY <1>3, <1>10, <2>11, <2>12, <3>1 DEF IInv, Accounted
  <2> QED  BY <2>6, <2>7, <2>9, <2>13 DEF IInv
<1> QED  BY <1>11, <1>12

LEMMA ChargeHolds ==
  ASSUME IInv, NEW q \in Requests, Charge(q)
  PROVE  IInv'
<1>1. /\ UNCHANGED <<subscribed, applied, metered, lapses, inOrder, byFloor, asked, crashes>>
      /\ UNCHANGED <<verdict, marker, th, delivered, unpaid, unmarked>>
      /\ used' = Consumed /\ rq[q].pc = "charge" /\ rq' = [rq EXCEPT ![q] = NoRequest]
      /\ idled' = IF rq[q].started THEN idled ELSE idled + 1
  BY DEF Charge, billing, bounds
<1>2. NoRequest \in Asked /\ NoRequest.pc = "idle"
  BY Places DEF NoRequest
<1>3. /\ rq' \in [Requests -> Asked] /\ rq'[q] = NoRequest
      /\ \A s \in Requests : s # q => rq'[s] = rq[s]
  BY <1>1, <1>2, TypeParts, RequestMoves DEF IInv
<1>4. used' \in Nat /\ idled' \in Nat /\ (Limited => used' = used + 1)
  BY <1>1 DEF IInv, TypeOK, Consumed
<1>5. TypeOK'
  BY <1>1, <1>3, <1>4 DEF IInv, TypeOK, Asked
<1>6. Placed'
  BY <1>1, <1>2, <1>3 DEF IInv, Placed
<1>7. OneByOne'
  BY <1>1, <1>2, <1>3 DEF IInv, OneByOne
<1>8. q \in Charging /\ Charging' = Charging \ {q} /\ Live' = Live
  BY <1>1, <1>2, <1>3 DEF Charging, Live
<1>9. IsFiniteSet(Charging) /\ Cardinality(Charging) \in Nat
  BY RequestsBound DEF Charging
<1>10. Cardinality(Charging') = Cardinality(Charging) - 1
  BY <1>8, <1>9, FS_RemoveElement
<1>11. Cardinality(Live) \in Nat /\ delivered \in Int /\ used \in Nat /\ unpaid \in Nat
  BY FS_CardinalityType DEF IInv, Accounted, TypeOK
<1>12. Accounted'
  BY <1>1, <1>4, <1>8, <1>9, <1>10, <1>11 DEF IInv, Accounted, Limited
<1> QED  BY <1>5, <1>6, <1>7, <1>12 DEF IInv

\* A thread that leaves the set of builds whose charge is open makes it one smaller.
LEMMA LiveMinus ==
  ASSUME IsFiniteSet(Live), NEW w, Live' = Live \ {w}
  PROVE  /\ IsFiniteSet(Live') /\ Cardinality(Live) \in Nat /\ Cardinality(Live') \in Nat
         /\ Cardinality(Live') <= Cardinality(Live)
         /\ w \in Live => Cardinality(Live') = Cardinality(Live) - 1
<1>1. IsFiniteSet(Live') /\ Cardinality(Live) \in Nat /\ Cardinality(Live') \in Nat
  BY FS_Subset, FS_CardinalityType
<1>2. Cardinality(Live') <= Cardinality(Live)
  BY FS_Subset
<1>3. w \in Live => Cardinality(Live') = Cardinality(Live) - 1
  BY FS_RemoveElement
<1> QED  BY <1>1, <1>2, <1>3

LEMMA ReturnHolds ==
  ASSUME IInv, NEW w \in Builders, Return(w)
  PROVE  IInv'
<1> DEFINE p == th[w].on
<1>1. PICK end \in {"failed", "raised", "handoff", "green"} :
        /\ verdict[p] = "green" => end = "green"
        /\ verdict' = [verdict EXCEPT ![p] = IF end = "raised" THEN "failed" ELSE end]
        /\ th' = [th EXCEPT ![w].pc = CASE end = "raised" -> "refund"
                                        [] end = "handoff" -> "keep"
                                        [] end = "green" -> "done" [] OTHER -> "settle"]
  BY DEF Return
<1>2. /\ UNCHANGED <<used, subscribed, applied, metered, lapses, inOrder, byFloor, asked, crashes>>
      /\ UNCHANGED <<marker, rq, delivered, unpaid, idled, unmarked>>
      /\ th[w].pc = "run"
  BY DEF Return, billing, books, bounds, At
<1> DEFINE to == CASE end = "raised" -> "refund" [] end = "handoff" -> "keep"
                   [] end = "green" -> "done" [] OTHER -> "settle"
           file == [th[w] EXCEPT !.pc = to]
           v == IF end = "raised" THEN "failed" ELSE end
<1>3. /\ to \in {"refund", "keep", "done", "settle"} /\ (to = "done" => v = "green")
      /\ v \in {"failed", "handoff", "green"}
  OBVIOUS
<1>4. th[w] \in Threads /\ p \in Platforms
  BY <1>2, TypeParts DEF IInv, Placed
<1> HIDE DEF to
<1>5. /\ file \in Threads /\ file.on = p /\ file.kept = th[w].kept /\ file.pc = to
  BY <1>3, <1>4 DEF Threads
<1>6. th' = [th EXCEPT ![w] = file] /\ verdict' = [verdict EXCEPT ![p] = v]
  BY <1>1 DEF to
<1> HIDE DEF file, v, p
<1>7. /\ th' \in [Builders -> Threads] /\ th'[w] = file
      /\ \A o \in Builders : o # w => th'[o] = th[o]
  BY <1>5, <1>6, TypeParts, ThreadMoves DEF IInv
<1>8. /\ verdict' \in [Platforms -> {"new", "open", "failed", "handoff", "green"}]
      /\ verdict'[p] = v /\ \A o \in Platforms : o # p => verdict'[o] = verdict[o]
  BY <1>3, <1>4, <1>6 DEF IInv, TypeOK
<1>9. TypeOK'
  BY <1>2, <1>7, <1>8 DEF IInv, TypeOK, Threads
<1>10. Placed'
  BY <1>2, <1>3, <1>4, <1>5, <1>7 DEF IInv, Placed
<1>11. OneByOne'
  <2> SUFFICES ASSUME byFloor PROVE OneByOne'
    BY <1>2 DEF OneByOne
  <2>1. \A o \in Builders : th'[o].on = th[o].on /\ th'[o].kept = th[o].kept
                            /\ (th'[o].pc = "idle" <=> th[o].pc = "idle")
                            /\ (th'[o].pc = "wait" => th[o].pc = "wait")
    BY <1>2, <1>3, <1>5, <1>7 DEF p
  <2>2. \A o, u \in Builders : o # u /\ th'[o].on = th'[u].on => th'[o].on = None
    BY <2>1 DEF IInv, OneByOne
  <2>3. \A o \in Builders : th'[o].pc # "idle" => marker'[th'[o].on] = ~th'[o].kept
    BY <1>2, <2>1 DEF IInv, OneByOne
  <2>4. \A o \in Builders : th'[o].pc = "done" => verdict'[th'[o].on] = "green"
    <3> TAKE o \in Builders
    <3>1. CASE o = w
      BY <1>3, <1>5, <1>7, <1>8, <3>1
    <3>2. CASE o # w
      <4>1. th[o].pc = "done" => th[o].on \in Platforms /\ th[o].on # p
        BY <1>4, <3>2, NoneIsNoPlatform DEF IInv, OneByOne, Placed, p
      <4> QED  BY <1>7, <1>8, <3>2, <4>1 DEF IInv, OneByOne
    <3> QED  BY <3>1, <3>2
  <2> QED  BY <1>2, <2>1, <2>2, <2>3, <2>4 DEF IInv, OneByOne
<1>12. Live' = Live /\ Charging' = Charging
  BY <1>2, <1>3, <1>5, <1>7 DEF Live, Charging
<1>13. Accounted'
  BY <1>2, <1>12 DEF IInv, Accounted
<1> QED  BY <1>9, <1>10, <1>11, <1>13 DEF IInv

\* A thread that a typed action started was alone on its platform: whoever else is at work is on
\* another one, and its marker and its verdict are left alone.
LEMMA Elsewhere ==
  ASSUME IInv, byFloor, NEW w \in Builders, th[w].pc # "idle",
         NEW o \in Builders, o # w, th[o].pc # "idle"
  PROVE  th[o].on \in Platforms /\ th[o].on # th[w].on
  BY NoneIsNoPlatform DEF IInv, OneByOne, Placed

LEMMA SettleHolds ==
  ASSUME IInv, NEW w \in Builders, Settle(w)
  PROVE  IInv'
<1> DEFINE p == th[w].on
           refund == Failed(w) /\ marker[p]
<1>1. /\ UNCHANGED <<subscribed, applied, metered, lapses, inOrder, byFloor, asked, crashes>>
      /\ UNCHANGED <<verdict, rq, unpaid, idled>>
      /\ th[w].pc \in {"done", "settle", "refund"} /\ th' = [th EXCEPT ![w] = NoBuild]
      /\ marker' = [marker EXCEPT ![p] = FALSE]
  BY DEF Settle, billing, bounds
<1>2. /\ used' = IF refund THEN Refunded ELSE used
      /\ delivered' = CASE At(w, "done") /\ ~th[w].kept -> delivered + 1
                         [] ~At(w, "done") /\ th[w].kept /\ refund -> delivered - 1
                         [] OTHER -> delivered
      /\ unmarked' = IF Failed(w) /\ ~marker[p] /\ ~th[w].kept THEN unmarked + 1 ELSE unmarked
  BY DEF Settle
<1>3. p \in Platforms /\ th[w] \in Threads
  BY <1>1, TypeParts DEF IInv, Placed
<1>4. NoBuild \in Threads /\ NoBuild.pc = "idle" /\ NoBuild.on = None
  BY Places DEF NoBuild
<1>5. /\ th' \in [Builders -> Threads] /\ th'[w] = NoBuild
      /\ \A o \in Builders : o # w => th'[o] = th[o]
  BY <1>1, <1>4, TypeParts, ThreadMoves DEF IInv
<1>6. /\ marker' \in [Platforms -> BOOLEAN]
      /\ \A o \in Platforms : o # p => marker'[o] = marker[o]
  BY <1>1, <1>3 DEF IInv, TypeOK
<1>7. used \in Nat /\ delivered \in Int /\ unpaid \in Nat /\ unmarked \in Nat
  BY DEF IInv, TypeOK
<1>8. used' \in Nat /\ used' >= used - 1 /\ (~refund => used' = used)
  BY <1>2, <1>7 DEF Refunded
<1>9. delivered' \in Int /\ unmarked' \in Nat
  BY <1>2, <1>7
<1>10. TypeOK'
  BY <1>1, <1>5, <1>6, <1>8, <1>9 DEF IInv, TypeOK, Threads
<1>11. Placed'
  BY <1>1, <1>4, <1>5 DEF IInv, Placed
<1>12. byFloor => /\ th[w].kept => ~marker[p]
                  /\ ~th[w].kept => marker[p]
                  /\ th[w].pc = "done" => ~Failed(w)
  BY <1>1 DEF IInv, OneByOne, Failed, At
<1>13. OneByOne'
  <2> SUFFICES ASSUME byFloor PROVE OneByOne'
    BY <1>1 DEF OneByOne
  <2> HIDE DEF p, refund
  <2>1. unmarked' = 0
    BY <1>2, <1>12 DEF IInv, OneByOne
  <2>2. \A o \in Builders : o # w /\ th[o].pc # "idle" => th[o].on \in Platforms /\ th[o].on # p
    BY <1>1, Elsewhere DEF p
  <2>3. \A o, u \in Builders : o # u /\ th'[o].on = th'[u].on => th'[o].on = None
    BY <1>4, <1>5 DEF IInv, OneByOne
  <2>4. \A o \in Builders : th'[o].pc # "idle" => marker'[th'[o].on] = ~th'[o].kept
    BY <1>4, <1>5, <1>6, <2>2 DEF IInv, OneByOne
  <2>5. \A o \in Builders : /\ th'[o].pc = "wait" => th'[o].kept
                            /\ th'[o].pc = "done" => verdict'[th'[o].on] = "green"
    BY <1>1, <1>4, <1>5 DEF IInv, OneByOne
  <2> QED  BY <1>1, <2>1, <2>3, <2>4, <2>5 DEF IInv, OneByOne
<1>14. Live' = Live \ {w} /\ Charging' = Charging
  BY <1>1, <1>4, <1>5 DEF Live, Charging
<1>15. w \in Live <=> ~th[w].kept
  BY <1>1 DEF Live
<1>16. /\ IsFiniteSet(Live') /\ Cardinality(Live) \in Nat /\ Cardinality(Live') \in Nat
       /\ Cardinality(Live') <= Cardinality(Live)
       /\ w \in Live => Cardinality(Live') = Cardinality(Live) - 1
  BY <1>14, LiveMinus DEF IInv, Accounted
<1>17. Cardinality(Charging) \in Nat
  BY RequestsBound DEF Charging
<1>18. Accounted'
  <2> SUFFICES ASSUME metered, byFloor
               PROVE  delivered' + Cardinality(Live') <= used' + Cardinality(Charging) + unpaid
    BY <1>1, <1>14, <1>16 DEF IInv, Accounted
  <2> USE <1>7, <1>16, <1>17
  <2>1. delivered + Cardinality(Live) <= used + Cardinality(Charging) + unpaid
    BY DEF IInv, Accounted
  <2>2. th[w].kept => ~refund
    BY <1>12
  <2>3. CASE th[w].pc = "done" /\ ~th[w].kept
    BY <1>2, <1>8, <1>12, <1>15, <2>1, <2>3 DEF At
  <2>4. CASE th[w].kept
    BY <1>2, <1>8, <2>1, <2>2, <2>4
  <2>5. CASE th[w].pc # "done" /\ ~th[w].kept
    <3>1. delivered' = delivered
      BY <1>2, <2>5 DEF At
    <3> QED  BY <1>8, <1>15, <2>1, <2>5, <3>1
  <2> QED  BY <2>3, <2>4, <2>5
<1> QED  BY <1>10, <1>11, <1>13, <1>18 DEF IInv

LEMMA KeepHolds ==
  ASSUME IInv, NEW w \in Builders, Keep(w)
  PROVE  IInv'
<1> DEFINE p == th[w].on
           file == [th[w] EXCEPT !.pc = "wait", !.kept = TRUE]
<1>1. /\ UNCHANGED <<subscribed, applied, metered, lapses, inOrder, byFloor, asked, crashes>>
      /\ UNCHANGED <<used, verdict, rq, unpaid, idled, unmarked>>
      /\ th[w].pc = "keep" /\ marker' = [marker EXCEPT ![p] = FALSE]
      /\ delivered' = IF th[w].kept THEN delivered ELSE delivered + 1
      /\ th' = [th EXCEPT ![w].pc = "wait", ![w].kept = TRUE]
  BY DEF Keep, At, billing, bounds
<1>2. p \in Platforms /\ th[w] \in Threads
  BY <1>1, TypeParts DEF IInv, Placed
<1>3. file \in Threads /\ file.pc = "wait" /\ file.on = p /\ file.kept
  BY <1>2 DEF Threads
<1>4. th' = [th EXCEPT ![w] = file]
  BY <1>1
<1> HIDE DEF file, p
<1>5. /\ th' \in [Builders -> Threads] /\ th'[w] = file
      /\ \A o \in Builders : o # w => th'[o] = th[o]
  BY <1>3, <1>4, TypeParts, ThreadMoves DEF IInv
<1>6. /\ marker' \in [Platforms -> BOOLEAN] /\ marker'[p] = FALSE
      /\ \A o \in Platforms : o # p => marker'[o] = marker[o]
  BY <1>1, <1>2 DEF IInv, TypeOK
<1>7. used \in Nat /\ delivered \in Int /\ unpaid \in Nat /\ delivered' \in Int
  BY <1>1 DEF IInv, TypeOK
<1>8. TypeOK'
  BY <1>1, <1>5, <1>6, <1>7 DEF IInv, TypeOK, Threads
<1>9. Placed'
  BY <1>1, <1>2, <1>3, <1>5 DEF IInv, Placed
<1>10. OneByOne'
  <2> SUFFICES ASSUME byFloor PROVE OneByOne'
    BY <1>1 DEF OneByOne
  <2>1. \A o \in Builders : o # w /\ th[o].pc # "idle" => th[o].on \in Platforms /\ th[o].on # p
    BY <1>1, Elsewhere DEF p
  <2>2. \A o \in Builders : th'[o].on = th[o].on
    BY <1>3, <1>5 DEF p
  <2>3. \A o, u \in Builders : o # u /\ th'[o].on = th'[u].on => th'[o].on = None
    BY <2>2 DEF IInv, OneByOne
  <2>4. \A o \in Builders : th'[o].pc # "idle" => marker'[th'[o].on] = ~th'[o].kept
    BY <1>3, <1>5, <1>6, <2>1, ZenonT(30) DEF IInv, OneByOne
  <2>5. \A o \in Builders : /\ th'[o].pc = "wait" => th'[o].kept
                            /\ th'[o].pc = "done" => verdict'[th'[o].on] = "green"
    BY <1>1, <1>3, <1>5 DEF IInv, OneByOne
  <2> QED  BY <1>1, <2>3, <2>4, <2>5 DEF IInv, OneByOne
<1>11. Live' = Live \ {w} /\ Charging' = Charging /\ (w \in Live <=> ~th[w].kept)
  BY <1>1, <1>3, <1>5 DEF Live, Charging
<1>12. /\ IsFiniteSet(Live') /\ Cardinality(Live) \in Nat /\ Cardinality(Live') \in Nat
       /\ Cardinality(Live') <= Cardinality(Live)
       /\ w \in Live => Cardinality(Live') = Cardinality(Live) - 1
  BY <1>11, LiveMinus DEF IInv, Accounted
<1>13. Cardinality(Charging) \in Nat
  BY RequestsBound DEF Charging
<1>14. Accounted'
  <2>1. delivered' + Cardinality(Live') <= delivered + Cardinality(Live)
    BY <1>1, <1>7, <1>11, <1>12
  <2> QED  BY <1>1, <1>7, <1>11, <1>12, <1>13, <2>1 DEF IInv, Accounted
<1> QED  BY <1>8, <1>9, <1>10, <1>14 DEF IInv

\* The gate's answer: the thread ends, or runs again on the charge it kept.
LEMMA AnsweredHolds ==
  ASSUME IInv, NEW w \in Builders, Answered(w)
  PROVE  IInv'
<1> DEFINE p == th[w].on
<1>1. /\ UNCHANGED <<subscribed, applied, metered, lapses, inOrder, byFloor, asked, crashes>>
      /\ UNCHANGED <<used, marker, rq, delivered, unpaid, idled, unmarked>>
      /\ th[w].pc = "wait"
  BY DEF Answered, At, billing, books, bounds
<1>2. p \in Platforms /\ th[w] \in Threads
  BY <1>1, TypeParts DEF IInv, Placed
<1>3. PICK file \in {NoBuild, [th[w] EXCEPT !.pc = "run"]} : th' = [th EXCEPT ![w] = file]
  BY DEF Answered
<1>4. /\ verdict' \in [Platforms -> {"new", "open", "failed", "handoff", "green"}]
      /\ \A o \in Platforms : o # p => verdict'[o] = verdict[o]
  <2>1. PICK v \in {"green", "failed", "open"} :
          verdict' = verdict \/ verdict' = [verdict EXCEPT ![p] = v]
    BY DEF Answered
  <2> QED  BY <1>2, <2>1 DEF IInv, TypeOK
<1>5. /\ file \in Threads
      /\ \/ file.pc = "idle" /\ file.on = None
         \/ file.pc = "run" /\ file.on = p /\ file.kept = th[w].kept
  <2>1. CASE file = NoBuild
    BY <2>1, Places DEF NoBuild
  <2>2. CASE file = [th[w] EXCEPT !.pc = "run"]
    BY <1>2, <2>2 DEF Threads
  <2> QED  BY <1>3, <2>1, <2>2
<1> HIDE DEF p
<1>6. /\ th' \in [Builders -> Threads] /\ th'[w] = file
      /\ \A o \in Builders : o # w => th'[o] = th[o]
  BY <1>3, <1>5, TypeParts, ThreadMoves DEF IInv
<1>7. TypeOK'
  BY <1>1, <1>4, <1>6 DEF IInv, TypeOK, Threads
<1>8. Placed'
  BY <1>1, <1>2, <1>5, <1>6 DEF IInv, Placed
<1>9. OneByOne'
  <2> SUFFICES ASSUME byFloor PROVE OneByOne'
    BY <1>1 DEF OneByOne
  <2>1. \A o \in Builders : o # w /\ th[o].pc # "idle" => th[o].on \in Platforms /\ th[o].on # p
    BY <1>1, Elsewhere DEF p
  <2>2. \A o \in Builders : th'[o].on \in {th[o].on, None}
    BY <1>5, <1>6 DEF p
  <2>3. \A o, u \in Builders : o # u /\ th'[o].on = th'[u].on => th'[o].on = None
    BY <2>2 DEF IInv, OneByOne
  <2>4. \A o \in Builders : th'[o].pc # "idle" => marker'[th'[o].on] = ~th'[o].kept
    BY <1>1, <1>5, <1>6 DEF IInv, OneByOne, p
  <2>5. \A o \in Builders : /\ th'[o].pc = "wait" => th'[o].kept
                            /\ th'[o].pc = "done" => verdict'[th'[o].on] = "green"
    BY <1>4, <1>5, <1>6, <2>1 DEF IInv, OneByOne
  <2> QED  BY <1>1, <2>3, <2>4, <2>5 DEF IInv, OneByOne
<1>10. Charging' = Charging
  BY <1>1 DEF Charging
<1>11. IsFiniteSet(Live')
  <2>1. Live' \subseteq Live \cup {w}
    BY <1>6 DEF Live
  <2>2. IsFiniteSet(Live \cup {w})
    BY FS_AddElement DEF IInv, Accounted
  <2> QED  BY <2>1, <2>2, FS_Subset
<1>12. byFloor => Live' = Live
  BY <1>1, <1>5, <1>6 DEF IInv, OneByOne, Live
<1>13. Accounted'
  BY <1>1, <1>10, <1>11, <1>12 DEF IInv, Accounted
<1> QED  BY <1>7, <1>8, <1>9, <1>13 DEF IInv

\* A waiter of StoreGate answers where no thread is.
LEMMA AnsweredLaterHolds ==
  ASSUME IInv, NEW p \in Platforms, AnsweredLater(p)
  PROVE  IInv'
<1>1. /\ UNCHANGED <<subscribed, applied, metered, lapses, inOrder, byFloor, asked, crashes>>
      /\ UNCHANGED <<used, marker, th, rq, delivered, unpaid, idled, unmarked>>
      /\ \A w \in Builders : th[w].on # p
  BY DEF AnsweredLater, Running, billing, books, bounds
<1>2. /\ verdict' \in [Platforms -> {"new", "open", "failed", "handoff", "green"}]
      /\ \A o \in Platforms : o # p => verdict'[o] = verdict[o]
  BY DEF AnsweredLater, IInv, TypeOK
<1>3. TypeOK'
  BY <1>1, <1>2 DEF IInv, TypeOK
<1>4. Placed'
  BY <1>1 DEF IInv, Placed
<1>5. OneByOne'
  BY <1>1, <1>2 DEF IInv, OneByOne, Placed
<1>6. Accounted'
  BY <1>1 DEF IInv, Accounted, Live, Charging
<1> QED  BY <1>3, <1>4, <1>5, <1>6 DEF IInv

\* What an event of Stripe does to the subscription.
LEMMA SetsHolds ==
  ASSUME IInv, NEW e \in 1..MaxEvents, Sets(e)
  PROVE  /\ subscribed' \in BOOLEAN /\ lapses' \in Nat
         /\ metered' \in BOOLEAN /\ inOrder' \in BOOLEAN
         /\ metered' => metered /\ ~subscribed'
<1>1. Says(e) \in BOOLEAN
  BY DEF Says
<1>2. subscribed' = Says(e) /\ metered' = (metered /\ ~Says(e))
  BY DEF Sets
<1>3. subscribed' \in BOOLEAN /\ metered' \in BOOLEAN /\ (metered' => metered /\ ~subscribed')
  BY <1>1, <1>2 DEF IInv, TypeOK
<1>4. inOrder' \in BOOLEAN
  BY DEF Sets
<1>5. lapses' \in Nat
  BY DEF Sets, IInv, TypeOK
<1> QED  BY <1>3, <1>4, <1>5

LEMMA DeliverHolds ==
  ASSUME IInv, NEW e \in 1..MaxEvents, Deliver(e)
  PROVE  IInv'
<1>1. /\ UNCHANGED <<used, verdict, marker, th, rq, byFloor, asked, crashes>>
      /\ UNCHANGED <<delivered, unpaid, idled, unmarked>>
      /\ applied' = applied \cup {e} /\ Sets(e)
  BY DEF Deliver, books, bounds
<1>2. /\ subscribed' \in BOOLEAN /\ lapses' \in Nat
      /\ metered' \in BOOLEAN /\ inOrder' \in BOOLEAN
      /\ metered' => metered /\ ~subscribed'
  BY <1>1, SetsHolds
<1>3. TypeOK'
  BY <1>1, <1>2 DEF IInv, TypeOK
<1>4. Placed' /\ OneByOne'
  BY <1>1 DEF IInv, Placed, OneByOne
<1>5. Accounted'
  BY <1>1, <1>2 DEF IInv, Accounted, Live, Charging
<1> QED  BY <1>3, <1>4, <1>5 DEF IInv

\* A restart empties the threads and the requests, and loses the charges owed.
LEMMA StopsHolds ==
  ASSUME IInv, Stops, applied' = applied,
         subscribed' \in BOOLEAN, lapses' \in Nat, metered' \in BOOLEAN, inOrder' \in BOOLEAN,
         metered' => metered /\ ~subscribed'
  PROVE  IInv'
<1>1. /\ UNCHANGED <<used, verdict, marker, delivered, idled, unmarked, byFloor, asked>>
      /\ crashes < MaxCrashes /\ crashes' = crashes + 1
      /\ unpaid' = unpaid + Cardinality(Charging)
      /\ th' = [w \in Builders |-> NoBuild] /\ rq' = [q \in Requests |-> NoRequest]
  BY DEF Stops
<1>2. /\ NoBuild.pc = "idle" /\ NoBuild.on = None /\ NoRequest.pc = "idle"
  BY DEF NoBuild, NoRequest
<1>3. Cardinality(Charging) \in Nat
  BY RequestsBound DEF Charging
<1>4. th' \in [Builders -> Threads] /\ rq' \in [Requests -> Asked]
  BY <1>1, Places
<1>5. TypeOK'
  BY <1>1, <1>3, <1>4, QuotaBounds DEF IInv, TypeOK, Threads, Asked
<1>6. Placed'
  BY <1>1, <1>2 DEF Placed
<1>7. OneByOne'
  BY <1>1, <1>2 DEF IInv, OneByOne
<1>8. Live' = {} /\ Charging' = {}
  BY <1>1, <1>2 DEF Live, Charging
<1>9. IsFiniteSet(Live') /\ Cardinality(Live') = 0 /\ Cardinality(Charging') = 0
  BY <1>8, FS_EmptySet
<1>10. Cardinality(Live) \in Nat /\ delivered \in Int /\ used \in Nat /\ unpaid \in Nat
  BY FS_CardinalityType DEF IInv, Accounted, TypeOK
<1>11. Accounted'
  BY <1>1, <1>3, <1>9, <1>10 DEF IInv, Accounted
<1> QED  BY <1>5, <1>6, <1>7, <1>11 DEF IInv

LEMMA IInvStep == IInv /\ [Next]_vars => IInv'
<1> SUFFICES ASSUME IInv, [Next]_vars PROVE IInv'  OBVIOUS
<1>1. CASE UNCHANGED vars
  <2>1. TypeOK'
    BY <1>1 DEF vars, billing, books, bounds, IInv, TypeOK
  <2>2. Placed' /\ OneByOne'
    BY <1>1 DEF vars, books, bounds, IInv, Placed, OneByOne
  <2>3. Accounted'
    BY <1>1 DEF vars, billing, books, bounds, IInv, Accounted, Live, Charging
  <2> QED  BY <2>1, <2>2, <2>3 DEF IInv
<1>2. ASSUME NEW q \in Requests, NEW p \in Platforms, NEW d \in Doors, Ask(q, p, d)
      PROVE  IInv'
  BY <1>2, AskHolds
<1>3. ASSUME NEW q \in Requests, Start(q) \/ Charge(q)  PROVE  IInv'
  BY <1>3, StartHolds, ChargeHolds
<1>4. ASSUME NEW w \in Builders, Return(w) \/ Settle(w) \/ Keep(w) \/ Answered(w)  PROVE  IInv'
  BY <1>4, ReturnHolds, SettleHolds, KeepHolds, AnsweredHolds
<1>5. ASSUME NEW p \in Platforms, AnsweredLater(p)  PROVE  IInv'
  BY <1>5, AnsweredLaterHolds
<1>6. ASSUME NEW e \in 1..MaxEvents, Deliver(e)  PROVE  IInv'
  BY <1>6, DeliverHolds
<1>7. ASSUME NEW e \in 1..MaxEvents, CrashInEvent(e)  PROVE  IInv'
  BY <1>7, SetsHolds, StopsHolds DEF CrashInEvent
<1>8. CASE Crash
  BY <1>8, StopsHolds DEF Crash, billing, IInv, TypeOK, Accounted
<1> QED  BY <1>1, <1>2, <1>3, <1>4, <1>5, <1>6, <1>7, <1>8 DEF Next

\* The types; and, for an owner who starts builds by the Floor's typed actions only, the one
\* builder a platform has at a time and the account of the builds whose charge is still
\* open, in every reachable state.  By HTTP or by a pasted link neither holds.
THEOREM QuotaInvariant == Spec => []IInv
  BY IInvInit, IInvStep, PTL DEF Spec

\* While the quota binds, the Floor's typed actions give nobody a build for nothing: what
\* they delivered is counted, is still to be charged, or was lost with the request that
\* owed it.  A pasted link is not among them: its build is never charged.
THEOREM FloorIsPaid == Spec => []DeliveredIsPaid
<1>1. IInv => DeliveredIsPaid
  <2> SUFFICES ASSUME IInv, metered, byFloor
               PROVE  delivered <= used + Cardinality(Charging) + unpaid
    BY DEF DeliveredIsPaid
  <2>1. /\ Cardinality(Live) \in Nat /\ Cardinality(Charging) \in Nat
        /\ delivered \in Int /\ used \in Nat /\ unpaid \in Nat
    BY FS_CardinalityType, RequestsBound DEF IInv, Accounted, TypeOK, Charging
  <2> QED  BY <2>1 DEF IInv, Accounted
<1> QED  BY <1>1, QuotaInvariant, PTL

\* Started by the Floor's typed actions, a run that fails before any handoff finds the marker
\* of its own start and gives the charge back.
THEOREM MarkerIsFound == Spec => []FailureFindsItsMarker
<1>1. IInv => FailureFindsItsMarker
  BY DEF IInv, OneByOne, FailureFindsItsMarker
<1> QED  BY <1>1, QuotaInvariant, PTL

-----------------------------------------------------------------------------
(* The events of Stripe.                                                    *)

\* Events are numbers, and a restart is counted.
Told == applied \in SUBSET (1..MaxEvents) /\ crashes \in Nat /\ RedeliveryIsSafe

LEMMA ToldStep == Told /\ [Next]_vars => Told'
<1> SUFFICES ASSUME Told, [Next]_vars PROVE Told'  OBVIOUS
<1>1. ASSUME UNCHANGED <<subscribed, applied, inOrder, crashes>>  PROVE  Told'
  BY <1>1 DEF Told, RedeliveryIsSafe
<1>2. ASSUME Stops, applied' = applied  PROVE  Told'
  <2>1. crashes' \in Nat /\ crashes' # 0
    BY <1>2 DEF Stops, Told
  <2> QED  BY <1>2, <2>1 DEF Told, RedeliveryIsSafe
<1>3. ASSUME NEW e \in 1..MaxEvents, Deliver(e)  PROVE  Told'
  <2>1. /\ e \notin applied /\ applied' = applied \cup {e} /\ crashes' = crashes
        /\ subscribed' = Says(e)
        /\ inOrder' => \A f \in applied : f < e
    BY <1>3 DEF Deliver, Seen, Sets, bounds
  <2>2. inOrder' => \A f \in applied' : f <= e
    BY <2>1 DEF Told
  <2> QED  BY <2>1, <2>2 DEF Told, RedeliveryIsSafe
<1>4. CASE UNCHANGED vars
  BY <1>1, <1>4 DEF vars, billing, bounds
<1>5. ASSUME NEW q \in Requests, NEW p \in Platforms, NEW d \in Doors, Ask(q, p, d)
      PROVE  Told'
  BY <1>1, <1>5 DEF Ask, billing
<1>6. ASSUME NEW q \in Requests, Start(q) \/ Charge(q)  PROVE  Told'
  BY <1>1, <1>6 DEF Start, Charge, billing, bounds
<1>7. ASSUME NEW w \in Builders, Return(w) \/ Settle(w) \/ Keep(w) \/ Answered(w)  PROVE  Told'
  BY <1>1, <1>7 DEF Return, Settle, Keep, Answered, billing, bounds
<1>8. ASSUME NEW p \in Platforms, AnsweredLater(p)  PROVE  Told'
  BY <1>1, <1>8 DEF AnsweredLater, billing, bounds
<1>9. ASSUME NEW e \in 1..MaxEvents, CrashInEvent(e)  PROVE  Told'
  BY <1>2, <1>9 DEF CrashInEvent
<1>10. CASE Crash
  BY <1>2, <1>10 DEF Crash, billing
<1> QED  BY <1>3, <1>4, <1>5, <1>6, <1>7, <1>8, <1>9, <1>10 DEF Next

\* An event of Stripe that is sent again does not bring an earlier status back: first
\* deliveries in order leave the account with what the last of them said.
THEOREM RedeliveryDoesNothing == Spec => []RedeliveryIsSafe
<1>1. Init => Told
  BY DEF Init, Told, RedeliveryIsSafe
<1>2. Told => RedeliveryIsSafe
  BY DEF Told
<1> QED  BY <1>1, <1>2, ToldStep, PTL DEF Spec

-----------------------------------------------------------------------------
(* The limiter of attempts.                                                 *)

\* The entry with i later ones.
Ago(q, i) == q[Len(q) - i]

\* A finite set of numbers that is not empty has a largest.
LEMMA LargestOf ==
  ASSUME NEW n \in Nat, NEW S \in SUBSET (0..n), S # {}
  PROVE  \E x \in S : \A y \in S : y <= x
<1> DEFINE Above(x) == {y \in 0..n : y > x}
           T == {Above(x) : x \in S}
<1>1. IsFiniteSet(0..n) BY FS_Interval
<1>2. IsWellFoundedOn(StrictSubsetOrdering(0..n), SUBSET (0..n))
  BY <1>1, FS_FiniteSubsetsOfFinite, FS_StrictSubsetOrderingWellFounded
<1>3. T \subseteq SUBSET (0..n) /\ T # {} OBVIOUS
<1>4. PICK N \in T : \A M \in T : <<M, N>> \notin StrictSubsetOrdering(0..n)
  BY <1>2, <1>3, WFMin
<1>5. PICK x \in S : N = Above(x) BY <1>4
<1>6. \A y \in S : x >= y
  <2> SUFFICES ASSUME NEW y \in S, y > x PROVE FALSE OBVIOUS
  <2>1. Above(y) \subseteq Above(x) /\ y \in Above(x) /\ y \notin Above(y) OBVIOUS
  <2>2. Above(y) \in T /\ Above(y) \in SUBSET (0..n) /\ Above(x) \in SUBSET (0..n) OBVIOUS
  <2> QED BY <1>4, <1>5, <2>1, <2>2 DEF StrictSubsetOrdering
<1> QED BY <1>6

\* What leaves a window from the left leaves the latest entries, in their order.
LEMMA WithinIs ==
  ASSUME NEW q \in Seq(Nat), NEW span \in Nat, NEW at \in Nat
  PROVE  LET p == Within(q, span, at) IN
         /\ p \in Seq(Nat) /\ Len(p) <= Len(q)
         /\ \A i \in 0..(Len(p) - 1) : Ago(p, i) = Ago(q, i)
         /\ Len(p) > 0 => Ago(q, Len(p) - 1) + span > at
         /\ \A i \in Len(p)..(Len(q) - 1) : Ago(q, i) + span <= at
<1> DEFINE Old(n) == \A i \in 1..n : q[i] + span <= at
           S == {n \in 0..Len(q) : Old(n)}
           c == Aging(q, span, at)
<1>1. Len(q) \in Nat /\ \A i \in 1..Len(q) : q[i] \in Nat OBVIOUS
<1>2. PICK n \in S : \A m \in S : m <= n
  <2>1. 0 \in S BY <1>1
  <2>2. S \in SUBSET (0..Len(q)) OBVIOUS
  <2> HIDE DEF S
  <2> QED BY <1>1, <2>1, <2>2, LargestOf
<1>3. n < Len(q) => q[n + 1] + span > at
  <2> SUFFICES ASSUME n < Len(q), ~(q[n + 1] + span > at) PROVE FALSE OBVIOUS
  <2>1. n \in Nat /\ n + 1 \in 1..Len(q) BY <1>1, <1>2
  <2>2. q[n + 1] + span <= at BY <1>1, <2>1
  <2>3. Old(n) BY <1>2
  <2>4. Old(n + 1) BY <2>1, <2>2, <2>3
  <2>5. n + 1 \in S BY <2>1, <2>4
  <2>6. n + 1 <= n BY <1>2, <2>5
  <2> QED BY <2>1, <2>6
<1>4. c \in 0..Len(q) /\ Old(c) /\ (c < Len(q) => q[c + 1] + span > at)
  <2>1. n \in 0..Len(q) /\ Old(n) BY <1>2
  <2> QED BY <1>3, <2>1 DEF Aging
<1>5. Within(q, span, at) = SubSeq(q, c + 1, Len(q)) BY DEF Within
<1> HIDE DEF c
<1> DEFINE p == SubSeq(q, c + 1, Len(q))
<1>6. /\ p \in Seq(Nat) /\ Len(p) = Len(q) - c
      /\ \A i \in 1..Len(p) : p[i] = q[i + c]
  BY <1>1, <1>4
<1> HIDE DEF p
<1>7. \A i \in 0..(Len(p) - 1) : Ago(p, i) = Ago(q, i)
  <2> SUFFICES ASSUME NEW i \in 0..(Len(p) - 1) PROVE p[Len(p) - i] = q[Len(q) - i] BY DEF Ago
  <2>1. Len(p) - i \in 1..Len(p) BY <1>1, <1>4, <1>6
  <2>2. Len(p) - i + c = Len(q) - i BY <1>1, <1>4, <1>6
  <2> QED BY <1>6, <2>1, <2>2
<1>8. Len(p) > 0 => Ago(q, Len(p) - 1) + span > at
  <2> SUFFICES ASSUME Len(p) > 0 PROVE q[Len(q) - (Len(p) - 1)] + span > at BY DEF Ago
  <2>1. Len(q) - (Len(p) - 1) = c + 1 /\ c < Len(q) BY <1>1, <1>4, <1>6
  <2> QED BY <1>4, <2>1
<1>9. \A i \in Len(p)..(Len(q) - 1) : Ago(q, i) + span <= at
  <2> SUFFICES ASSUME NEW i \in Len(p)..(Len(q) - 1) PROVE q[Len(q) - i] + span <= at BY DEF Ago
  <2>1. Len(q) - i \in 1..c BY <1>1, <1>4, <1>6
  <2> QED BY <1>4, <2>1
<1>10. Len(p) <= Len(q) BY <1>1, <1>4, <1>6
<1> QED BY <1>5, <1>6, <1>7, <1>8, <1>9, <1>10 DEF p

\* A sequence of times, none after at, oldest first.
Timely(q, at) ==
  /\ q \in Seq(Nat)
  /\ \A i \in 0..(Len(q) - 1) : Ago(q, i) <= at
  /\ \A i, j \in 0..(Len(q) - 1) : i <= j => Ago(q, j) <= Ago(q, i)

\* The bucket b is the end of the history q, or what q has let go of.
Matches(b, q, W, at) ==
  \A i \in 0..(Len(b) - 1) : IF i < Len(q) THEN Ago(q, i) = Ago(b, i) ELSE Ago(b, i) + 2 * W <= at

\* Whoever was admitted before the last m and P is out of the window.
Afresh(q, m, P, W, at) == Len(q) <= m + P \/ Ago(q, m + P) + W <= at

\* No slot holds more than L.
Spread(r, L, W) == \A i \in Nat : i + L < Len(r) => Ago(r, i + L) \div W < Ago(r, i) \div W

\* The current slot holds no more than c.
Tallied(r, c, W, at) == Len(r) <= c \/ Ago(r, c) \div W < at \div W

\* The count c, up to the limit L, is of admissions of this slot by Redis and of this or
\* the last by the memory.
Owed(r, q, c, L, W, at) ==
  \E x \in 0..Len(r), y \in 0..Len(q) :
    /\ x + y >= c \/ x + y >= L
    /\ x > 0 => Ago(r, x - 1) \div W >= at \div W
    /\ y > 0 => (Ago(q, y - 1) \div W) + 1 >= at \div W

\* p is q with t at its end; at N or more it may have lost q's oldest.
Pushed(p, q, t, N) ==
  /\ p \in Seq(Nat) /\ Ago(p, 0) = t
  /\ \A i \in 0..(Len(p) - 2) : Ago(p, i + 1) = Ago(q, i)
  /\ Len(p) = Len(q) + 1 \/ (Len(p) = Len(q) /\ Len(q) >= N)

\* p is the end of q, without what is span old.
Trimmed(p, q, span, at) ==
  /\ p \in Seq(Nat) /\ Len(p) <= Len(q)
  /\ \A i \in 0..(Len(p) - 1) : Ago(p, i) = Ago(q, i)
  /\ Len(p) > 0 => Ago(q, Len(p) - 1) + span > at
  /\ \A i \in Len(p)..(Len(q) - 1) : Ago(q, i) + span <= at

LEMMA WithinTrims ==
  ASSUME NEW q \in Seq(Nat), NEW span \in Nat, NEW at \in Nat
  PROVE  Trimmed(Within(q, span, at), q, span, at)
BY WithinIs DEF Trimmed

\* The entries counted from the end are numbers.
LEMMA AgoIsNat ==
  ASSUME NEW q \in Seq(Nat)
  PROVE  Len(q) \in Nat /\ \A i \in 0..(Len(q) - 1) : Ago(q, i) \in Nat
<1>1. Len(q) \in Nat OBVIOUS
<1>2. ASSUME NEW i \in 0..(Len(q) - 1) PROVE q[Len(q) - i] \in Nat
  <2>1. Len(q) - i \in 1..Len(q) BY <1>1
  <2> QED BY <2>1
<1> QED BY <1>1, <1>2 DEF Ago

\* Windows and slots of W.
LEMMA SlotFacts ==
  ASSUME NEW W \in Nat \ {0}, NEW a \in Nat, NEW b \in Nat
  PROVE  /\ a \div W \in Nat /\ b \div W \in Nat
         /\ a <= b => a \div W <= b \div W
         /\ (a \div W) + 2 <= b \div W => a + W <= b
         /\ (a \div W) + 1 >= b \div W => a + 2 * W > b
         /\ a + W > b => (a \div W) + 1 >= b \div W
<1> DEFINE s == a \div W
           t == b \div W
<1>1. s \in Nat /\ W * s <= a /\ a < W * s + W
  BY SMTT(30)
<1>2. t \in Nat /\ W * t <= b /\ b < W * t + W
  BY SMTT(30)
<1>3. ASSUME NEW x \in Nat, NEW y \in Nat, NEW d \in Nat, x + d <= y PROVE W * x + W * d <= W * y
  <2>1. PICK z \in Nat : y = x + d + z
    <3>1. y - (x + d) \in Nat /\ y = x + d + (y - (x + d)) BY <1>3
    <3> QED BY <3>1
  <2>2. W * (x + d + z) = W * x + W * d + W * z /\ W * z \in Nat /\ W * x \in Nat /\ W * d \in Nat
    BY SMT
  <2> QED BY <2>1, <2>2
<1> HIDE DEF s, t
<1>4. W * s \in Nat /\ W * t \in Nat /\ W * 1 = W /\ W * 2 = 2 * W /\ 2 * W = W + W
  BY <1>1, <1>2
<1>5. a <= b => s <= t
  <2> SUFFICES ASSUME a <= b, t + 1 <= s PROVE FALSE BY <1>1, <1>2
  <2>1. W * t + W * 1 <= W * s BY <1>1, <1>2, <1>3
  <2> QED BY <1>1, <1>2, <1>4, <2>1
<1>6. s + 2 <= t => a + W <= b
  <2> SUFFICES ASSUME s + 2 <= t PROVE a + W <= b OBVIOUS
  <2>1. W * s + W * 2 <= W * t BY <1>1, <1>2, <1>3
  <2> QED BY <1>1, <1>2, <1>4, <2>1
<1>7. s + 1 >= t => a + 2 * W > b
  <2> SUFFICES ASSUME s + 1 >= t PROVE a + 2 * W > b OBVIOUS
  <2>1. CASE s >= t
    <3>1. W * t + W * 0 <= W * s BY <1>1, <1>2, <1>3, <2>1
    <3> QED BY <1>1, <1>2, <1>4, <3>1
  <2>2. CASE s + 1 = t
    <3>1. W * (s + 1) = W * s + W BY <1>1
    <3> QED BY <1>1, <1>2, <1>4, <2>2, <3>1
  <2> QED BY <1>1, <1>2, <2>1, <2>2
<1>8. a + W > b => s + 1 >= t
  <2> SUFFICES ASSUME a + W > b, s + 2 <= t PROVE FALSE BY <1>1, <1>2
  <2>1. a + W <= b BY <1>6
  <2> QED BY <2>1
<1> QED BY <1>1, <1>2, <1>5, <1>6, <1>7, <1>8 DEF s, t

\* An hour strikes: what is two windows old leaves the history.
LEMMA TrimKeeps ==
  ASSUME NEW W \in Nat \ {0}, NEW L \in Nat, NEW P \in Nat, NEW at \in Nat,
         NEW p, NEW q, NEW b \in Seq(Nat), NEW m \in Nat,
         Timely(q, at), Trimmed(p, q, 2 * W, at + 1)
  PROVE  /\ Timely(p, at + 1)
         /\ Matches(b, q, W, at) => Matches(b, p, W, at + 1)
         /\ Afresh(q, m, P, W, at) => Afresh(p, m, P, W, at + 1)
         /\ Spread(q, L, W) => Spread(p, L, W)
<1>1. /\ q \in Seq(Nat) /\ p \in Seq(Nat) /\ Len(p) \in Nat /\ Len(q) \in Nat /\ Len(p) <= Len(q)
      /\ Len(b) \in Nat
      /\ \A i \in 0..(Len(p) - 1) : Ago(p, i) = Ago(q, i)
      /\ \A i \in Len(p)..(Len(q) - 1) : Ago(q, i) + 2 * W <= at + 1
      /\ \A i \in 0..(Len(q) - 1) : Ago(q, i) \in Nat /\ Ago(q, i) <= at
      /\ \A i, j \in 0..(Len(q) - 1) : i <= j => Ago(q, j) <= Ago(q, i)
      /\ \A i \in 0..(Len(b) - 1) : Ago(b, i) \in Nat
  BY AgoIsNat DEF Timely, Trimmed
<1>2. Timely(p, at + 1)
  <2>1. ASSUME NEW i \in 0..(Len(p) - 1) PROVE Ago(p, i) <= at + 1 /\ i \in 0..(Len(q) - 1)
    <3>1. i \in 0..(Len(q) - 1) BY <1>1
    <3>2. Ago(p, i) = Ago(q, i) /\ Ago(q, i) \in Nat /\ Ago(q, i) <= at BY <1>1, <3>1
    <3> QED BY <3>1, <3>2
  <2>2. ASSUME NEW i \in 0..(Len(p) - 1), NEW j \in 0..(Len(p) - 1), i <= j
        PROVE  Ago(p, j) <= Ago(p, i)
    <3>1. i \in 0..(Len(q) - 1) /\ j \in 0..(Len(q) - 1) BY <2>1
    <3>2. Ago(q, j) <= Ago(q, i) BY <1>1, <2>2, <3>1
    <3>3. Ago(p, i) = Ago(q, i) /\ Ago(p, j) = Ago(q, j) BY <1>1
    <3> QED BY <3>2, <3>3
  <2> QED BY <1>1, <2>1, <2>2 DEF Timely
<1>3. ASSUME Matches(b, q, W, at) PROVE Matches(b, p, W, at + 1)
  <2> SUFFICES ASSUME NEW i \in 0..(Len(b) - 1)
               PROVE  IF i < Len(p) THEN Ago(p, i) = Ago(b, i) ELSE Ago(b, i) + 2 * W <= at + 1
    BY DEF Matches
  <2>1. IF i < Len(q) THEN Ago(q, i) = Ago(b, i) ELSE Ago(b, i) + 2 * W <= at
    BY <1>3 DEF Matches
  <2>2. i \in Nat /\ Ago(b, i) \in Nat /\ 2 * W \in Nat BY <1>1
  <2>3. CASE i < Len(p)
    <3>0. Len(p) \in Nat /\ Len(q) \in Nat /\ Len(p) <= Len(q) BY <1>1
    <3>1. i \in 0..(Len(p) - 1) /\ i < Len(q) BY <2>2, <2>3, <3>0
    <3>2. Ago(p, i) = Ago(q, i) BY <1>1, <3>1
    <3> QED BY <2>1, <2>3, <3>1, <3>2
  <2>4. CASE ~(i < Len(p)) /\ i < Len(q)
    <3>1. i \in Len(p)..(Len(q) - 1) BY <1>1, <2>2, <2>4
    <3>2. Ago(q, i) + 2 * W <= at + 1 BY <1>1, <3>1
    <3> QED BY <2>1, <2>4, <3>2
  <2>5. CASE ~(i < Len(p)) /\ ~(i < Len(q))
    <3>1. Ago(b, i) + 2 * W <= at BY <2>1, <2>5
    <3> QED BY <2>2, <2>5, <3>1
  <2> QED BY <2>3, <2>4, <2>5
<1>4. ASSUME Afresh(q, m, P, W, at) PROVE Afresh(p, m, P, W, at + 1)
  <2> SUFFICES ASSUME Len(p) > m + P PROVE Ago(p, m + P) + W <= at + 1
    BY <1>1 DEF Afresh
  <2>1. m + P \in 0..(Len(p) - 1) /\ m + P \in 0..(Len(q) - 1) /\ ~(Len(q) <= m + P) BY <1>1
  <2>2. Ago(q, m + P) + W <= at BY <1>4, <2>1 DEF Afresh
  <2>3. Ago(p, m + P) = Ago(q, m + P) /\ Ago(q, m + P) \in Nat BY <1>1, <2>1
  <2> QED BY <2>2, <2>3
<1>5. ASSUME Spread(q, L, W) PROVE Spread(p, L, W)
  <2> SUFFICES ASSUME NEW i \in Nat, i + L < Len(p)
               PROVE  Ago(p, i + L) \div W < Ago(p, i) \div W
    BY DEF Spread
  <2>1. i \in 0..(Len(p) - 1) /\ i + L \in 0..(Len(p) - 1) /\ i + L < Len(q) BY <1>1
  <2>2. Ago(q, i + L) \div W < Ago(q, i) \div W BY <1>5, <2>1 DEF Spread
  <2>3. Ago(p, i) = Ago(q, i) /\ Ago(p, i + L) = Ago(q, i + L) BY <1>1, <2>1
  <2> QED BY <2>2, <2>3
<1> QED BY <1>2, <1>3, <1>4, <1>5

\* In the slot that goes on, what is owed stays; in a new one nothing is.
LEMMA TrimOwes ==
  ASSUME NEW W \in Nat \ {0}, NEW L \in Nat, NEW c \in Nat, NEW at \in Nat,
         NEW p, NEW r, NEW q, NEW u,
         Timely(r, at), Trimmed(p, r, 2 * W, at + 1),
         Timely(q, at), Trimmed(u, q, 2 * W, at + 1),
         NEW d, d = IF (at + 1) \div W = at \div W THEN c ELSE 0
  PROVE  /\ Tallied(r, c, W, at) => Tallied(p, d, W, at + 1)
         /\ Owed(r, q, c, L, W, at) => Owed(p, u, d, L, W, at + 1)
<1>1. /\ r \in Seq(Nat) /\ p \in Seq(Nat) /\ Len(p) \in Nat /\ Len(r) \in Nat /\ Len(p) <= Len(r)
      /\ \A i \in 0..(Len(p) - 1) : Ago(p, i) = Ago(r, i)
      /\ \A i \in Len(p)..(Len(r) - 1) : Ago(r, i) + 2 * W <= at + 1
      /\ \A i \in 0..(Len(r) - 1) : Ago(r, i) \in Nat /\ Ago(r, i) <= at
  BY AgoIsNat DEF Timely, Trimmed
<1>2. /\ q \in Seq(Nat) /\ u \in Seq(Nat) /\ Len(u) \in Nat /\ Len(q) \in Nat /\ Len(u) <= Len(q)
      /\ \A i \in 0..(Len(u) - 1) : Ago(u, i) = Ago(q, i)
      /\ \A i \in Len(u)..(Len(q) - 1) : Ago(q, i) + 2 * W <= at + 1
      /\ \A i \in 0..(Len(q) - 1) : Ago(q, i) \in Nat
  BY AgoIsNat DEF Timely, Trimmed
<1>3. /\ (at + 1) \div W \in Nat /\ at \div W \in Nat /\ at \div W <= (at + 1) \div W
      /\ at + 1 \in Nat
  BY SlotFacts
<1>4. CASE (at + 1) \div W = at \div W
  <2>1. d = c BY <1>4
  <2>2. ASSUME Tallied(r, c, W, at) PROVE Tallied(p, c, W, at + 1)
    <3> SUFFICES ASSUME ~(Len(p) <= c) PROVE Ago(p, c) \div W < (at + 1) \div W BY DEF Tallied
    <3>1. c \in 0..(Len(p) - 1) /\ ~(Len(r) <= c) BY <1>1
    <3>2. Ago(r, c) \div W < at \div W BY <2>2, <3>1 DEF Tallied
    <3>3. Ago(p, c) = Ago(r, c) BY <1>1, <3>1
    <3> QED BY <1>4, <3>2, <3>3
  <2>3. ASSUME Owed(r, q, c, L, W, at) PROVE Owed(p, u, c, L, W, at + 1)
    <3>1. PICK x \in 0..Len(r), y \in 0..Len(q) :
            /\ x + y >= c \/ x + y >= L
            /\ x > 0 => Ago(r, x - 1) \div W >= at \div W
            /\ y > 0 => (Ago(q, y - 1) \div W) + 1 >= at \div W
      BY <2>3 DEF Owed
    <3>2. x \in 0..Len(p) /\ (x > 0 => Ago(p, x - 1) \div W >= (at + 1) \div W)
      <4>1. CASE x = 0 BY <1>1, <4>1
      <4>2. CASE x > 0
        <5>1. x - 1 \in 0..(Len(r) - 1) /\ Ago(r, x - 1) \in Nat BY <1>1, <4>2
        <5>2. Ago(r, x - 1) + 2 * W > at + 1 /\ Ago(r, x - 1) \div W \in Nat
          <6>1. /\ Ago(r, x - 1) \div W \in Nat
                /\ (Ago(r, x - 1) \div W) + 1 >= (at + 1) \div W => Ago(r, x - 1) + 2 * W > at + 1
            BY <1>3, <5>1, SlotFacts
          <6>2. Ago(r, x - 1) \div W >= (at + 1) \div W BY <1>4, <3>1, <4>2
          <6> QED BY <1>3, <6>1, <6>2
        <5>3. x - 1 \in 0..(Len(p) - 1)
          <6> SUFFICES ASSUME x - 1 >= Len(p) PROVE FALSE BY <1>1, <5>1
          <6>1. x - 1 \in Len(p)..(Len(r) - 1) BY <1>1, <5>1
          <6>2. Ago(r, x - 1) + 2 * W <= at + 1 BY <1>1, <6>1
          <6> QED BY <5>1, <5>2, <6>2
        <5>4. Ago(p, x - 1) = Ago(r, x - 1) BY <1>1, <5>3
        <5>5. x \in 0..Len(p) BY <1>1, <5>3
        <5> QED BY <1>4, <3>1, <4>2, <5>4, <5>5
      <4> QED BY <4>1, <4>2
    <3>3. y \in 0..Len(u) /\ (y > 0 => (Ago(u, y - 1) \div W) + 1 >= (at + 1) \div W)
      <4>1. CASE y = 0 BY <1>2, <4>1
      <4>2. CASE y > 0
        <5>1. y - 1 \in 0..(Len(q) - 1) /\ Ago(q, y - 1) \in Nat BY <1>2, <4>2
        <5>2. Ago(q, y - 1) + 2 * W > at + 1
          <6>1. (Ago(q, y - 1) \div W) + 1 >= (at + 1) \div W => Ago(q, y - 1) + 2 * W > at + 1
            BY <1>3, <5>1, SlotFacts
          <6> QED BY <1>4, <3>1, <4>2, <6>1
        <5>3. y - 1 \in 0..(Len(u) - 1)
          <6> SUFFICES ASSUME y - 1 >= Len(u) PROVE FALSE BY <1>2, <5>1
          <6>1. y - 1 \in Len(u)..(Len(q) - 1) BY <1>2, <5>1
          <6>2. Ago(q, y - 1) + 2 * W <= at + 1 BY <1>2, <6>1
          <6> QED BY <5>1, <5>2, <6>2
        <5>4. Ago(u, y - 1) = Ago(q, y - 1) BY <1>2, <5>3
        <5>5. y \in 0..Len(u) BY <1>2, <5>3
        <5> QED BY <1>4, <3>1, <4>2, <5>4, <5>5
      <4> QED BY <4>1, <4>2
    <3> QED BY <3>1, <3>2, <3>3 DEF Owed
  <2> QED BY <2>1, <2>2, <2>3
<1>5. CASE (at + 1) \div W # at \div W
  <2>1. d = 0 BY <1>5
  <2>2. Tallied(p, 0, W, at + 1)
    <3> SUFFICES ASSUME Len(p) > 0 PROVE Ago(p, 0) \div W < (at + 1) \div W
      BY <1>1 DEF Tallied
    <3>1. 0 \in 0..(Len(p) - 1) /\ 0 \in 0..(Len(r) - 1) BY <1>1
    <3>2. Ago(p, 0) \in Nat /\ Ago(p, 0) <= at BY <1>1, <3>1
    <3>3. Ago(p, 0) \div W \in Nat /\ Ago(p, 0) \div W <= at \div W BY <3>2, SlotFacts
    <3> QED BY <1>3, <1>5, <3>3
  <2>3. Owed(p, u, 0, L, W, at + 1)
    BY <1>1, <1>2 DEF Owed
  <2> QED BY <2>1, <2>2, <2>3
<1> QED BY <1>4, <1>5

\* What follows an admission: every earlier one is one later, and all are in order.
LEMMA PushedIs ==
  ASSUME NEW N \in Nat \ {0}, NEW at \in Nat, NEW p, NEW q, Timely(q, at), Pushed(p, q, at, N)
  PROVE  /\ Timely(p, at)
         /\ Len(p) \in Nat /\ Len(p) >= 1 /\ Ago(p, 0) = at
         /\ \A i \in 1..(Len(p) - 1) : Ago(p, i) = Ago(q, i - 1) /\ i - 1 \in 0..(Len(q) - 1)
<1>1. /\ q \in Seq(Nat) /\ p \in Seq(Nat) /\ Len(p) \in Nat /\ Len(q) \in Nat
      /\ \A i \in 0..(Len(q) - 1) : Ago(q, i) \in Nat /\ Ago(q, i) <= at
      /\ \A i, j \in 0..(Len(q) - 1) : i <= j => Ago(q, j) <= Ago(q, i)
  BY AgoIsNat DEF Timely, Pushed
<1>2. /\ Len(p) >= 1 /\ Len(p) <= Len(q) + 1 /\ Ago(p, 0) = at
      /\ \A i \in 0..(Len(p) - 2) : Ago(p, i + 1) = Ago(q, i)
  BY <1>1 DEF Pushed
<1>4. \A i \in 1..(Len(p) - 1) : Ago(p, i) = Ago(q, i - 1) /\ i - 1 \in 0..(Len(q) - 1)
  <2> SUFFICES ASSUME NEW i \in 1..(Len(p) - 1)
               PROVE  Ago(p, i) = Ago(q, i - 1) /\ i - 1 \in 0..(Len(q) - 1)
    OBVIOUS
  <2>1. i - 1 \in 0..(Len(p) - 2) /\ (i - 1) + 1 = i BY <1>1
  <2> QED BY <1>1, <1>2, <2>1
<1>5. Timely(p, at)
  <2>1. ASSUME NEW i \in 0..(Len(p) - 1) PROVE Ago(p, i) <= at
    <3>1. CASE i = 0 BY <1>2, <3>1
    <3>2. CASE i > 0 BY <1>1, <1>4, <3>2
    <3> QED BY <3>1, <3>2
  <2>2. ASSUME NEW i \in 0..(Len(p) - 1), NEW j \in 0..(Len(p) - 1), i <= j
        PROVE  Ago(p, j) <= Ago(p, i)
    <3>1. CASE i = 0 BY <1>2, <2>1, <3>1
    <3>2. CASE i > 0
      <4>1. i \in 1..(Len(p) - 1) /\ j \in 1..(Len(p) - 1) /\ i - 1 <= j - 1 BY <1>1, <2>2, <3>2
      <4> QED BY <1>1, <1>4, <4>1
    <3> QED BY <3>1, <3>2
  <2> QED BY <1>1, <2>1, <2>2 DEF Timely
<1> QED BY <1>1, <1>2, <1>4, <1>5

\* An admission in memory: the bucket loses what is out of its window and gains now.
LEMMA PushKeeps ==
  ASSUME NEW W \in Nat \ {0}, NEW L \in Nat \ {0}, NEW P \in Nat, NEW at \in Nat,
         NEW p, NEW q, NEW b \in Seq(Nat), NEW a \in Seq(Nat),
         Timely(q, at), Trimmed(a, b, W, at), Len(a) < L, Pushed(p, q, at, L)
  PROVE  /\ Timely(p, at)
         /\ Matches(b, q, W, at) => Matches(Append(a, at), p, W, at)
         /\ Afresh(q, Len(a), P, W, at) => Afresh(p, Len(Append(a, at)), P, W, at)
<1> DEFINE b2 == Append(a, at)
<1>1. /\ q \in Seq(Nat) /\ p \in Seq(Nat) /\ Len(p) \in Nat /\ Len(q) \in Nat
      /\ Len(b) \in Nat /\ Len(a) \in Nat /\ Len(a) <= Len(b)
      /\ \A i \in 0..(Len(a) - 1) : Ago(a, i) = Ago(b, i)
      /\ \A i \in 0..(Len(q) - 1) : Ago(q, i) \in Nat /\ Ago(q, i) <= at
      /\ \A i, j \in 0..(Len(q) - 1) : i <= j => Ago(q, j) <= Ago(q, i)
      /\ \A i \in 0..(Len(b) - 1) : Ago(b, i) \in Nat
  BY AgoIsNat DEF Timely, Trimmed, Pushed
<1>2. /\ Len(p) >= 1 /\ Len(p) <= Len(q) + 1 /\ Ago(p, 0) = at
      /\ \A i \in 0..(Len(p) - 2) : Ago(p, i + 1) = Ago(q, i)
      /\ Len(p) = Len(q) + 1 \/ Len(p) >= L
  BY <1>1 DEF Pushed
<1>3. /\ b2 \in Seq(Nat) /\ Len(b2) = Len(a) + 1 /\ Ago(b2, 0) = at
      /\ \A i \in 1..Len(a) : Ago(b2, i) = Ago(b, i - 1)
  <2>1. b2 \in Seq(Nat) /\ Len(b2) = Len(a) + 1 /\ b2[Len(a) + 1] = at OBVIOUS
  <2>2. ASSUME NEW i \in 1..Len(a) PROVE Ago(b2, i) = Ago(b, i - 1)
    <3>1. Len(b2) - i \in 1..Len(a) /\ Len(b2) - i = Len(a) - (i - 1) BY <1>1, <2>1
    <3>2. b2[Len(b2) - i] = a[Len(a) - (i - 1)] BY <2>1, <3>1
    <3>3. Ago(a, i - 1) = Ago(b, i - 1) BY <1>1
    <3> QED BY <3>2, <3>3 DEF Ago
  <2> QED BY <1>1, <2>1, <2>2 DEF Ago
<1> HIDE DEF b2
<1>4. /\ Timely(p, at)
      /\ \A i \in 1..(Len(p) - 1) : Ago(p, i) = Ago(q, i - 1) /\ i - 1 \in 0..(Len(q) - 1)
  BY PushedIs
<1>6. ASSUME Matches(b, q, W, at) PROVE Matches(b2, p, W, at)
  <2> SUFFICES ASSUME NEW i \in 0..(Len(b2) - 1)
               PROVE  IF i < Len(p) THEN Ago(p, i) = Ago(b2, i) ELSE Ago(b2, i) + 2 * W <= at
    BY DEF Matches
  <2>1. CASE i = 0 BY <1>1, <1>2, <1>3, <2>1
  <2>2. CASE i > 0
    <3>1. i \in 1..Len(a) /\ i - 1 \in 0..(Len(b) - 1) BY <1>1, <1>3, <2>2
    <3>2. IF i - 1 < Len(q) THEN Ago(q, i - 1) = Ago(b, i - 1) ELSE Ago(b, i - 1) + 2 * W <= at
      BY <1>6, <3>1 DEF Matches
    <3>3. Ago(b2, i) = Ago(b, i - 1) BY <1>3, <3>1
    <3>4. CASE i < Len(p)
      <4>1. i \in 1..(Len(p) - 1) BY <1>1, <3>1, <3>4
      <4>2. Ago(p, i) = Ago(q, i - 1) /\ i - 1 \in 0..(Len(q) - 1) BY <1>4, <4>1
      <4>3. i - 1 < Len(q) BY <1>1, <4>2
      <4> QED BY <3>2, <3>3, <3>4, <4>2, <4>3
    <3>5. CASE i >= Len(p)
      <4>1. Len(p) = Len(q) + 1 BY <1>1, <1>2, <3>1, <3>5
      <4>2. i \in Int /\ Len(q) \in Int BY <1>1, <3>1
      <4>3. ~(i - 1 < Len(q)) /\ ~(i < Len(p)) BY <3>5, <4>1, <4>2
      <4> QED BY <3>2, <3>3, <4>3
    <3> QED BY <1>1, <3>1, <3>4, <3>5
  <2> QED BY <2>1, <2>2
<1>7. ASSUME Afresh(q, Len(a), P, W, at) PROVE Afresh(p, Len(b2), P, W, at)
  <2> SUFFICES ASSUME Len(p) > Len(b2) + P PROVE Ago(p, Len(b2) + P) + W <= at
    BY <1>1, <1>3 DEF Afresh
  <2>1. Len(b2) + P \in 1..(Len(p) - 1) /\ Len(b2) + P - 1 = Len(a) + P BY <1>1, <1>3
  <2>2. Ago(p, Len(b2) + P) = Ago(q, Len(a) + P) /\ Len(a) + P < Len(q)
    <3>1. /\ Ago(p, Len(b2) + P) = Ago(q, Len(b2) + P - 1)
          /\ Len(b2) + P - 1 \in 0..(Len(q) - 1)
      BY <1>4, <2>1
    <3>2. Len(a) + P \in 0..(Len(q) - 1) /\ Len(q) \in Nat BY <1>1, <2>1, <3>1
    <3>3. Ago(p, Len(b2) + P) = Ago(q, Len(a) + P) BY <2>1, <3>1
    <3>4. Len(a) + P < Len(q)
      <4> DEFINE u == Len(a) + P
      <4>1. u \in 0..(Len(q) - 1) BY <3>2
      <4> HIDE DEF u
      <4>2. u < Len(q) BY <3>2, <4>1
      <4> QED BY <4>2 DEF u
    <3> QED BY <3>3, <3>4
  <2>3. Ago(q, Len(a) + P) + W <= at BY <1>1, <1>7, <2>2 DEF Afresh
  <2> QED BY <2>2, <2>3
<1> QED BY <1>4, <1>6, <1>7 DEF b2

\* One more admission on one medium makes one more, or the limit is reached.
LEMMA OneMore ==
  ASSUME NEW L \in Nat \ {0}, NEW at \in Nat, NEW p, NEW q, Timely(q, at), Pushed(p, q, at, L),
         NEW x \in 0..Len(q)
  PROVE  \E z \in 1..Len(p) :
           /\ z = x + 1 \/ (z = x /\ x >= L)
           /\ Ago(p, z - 1) \in Nat
           /\ Ago(p, z - 1) = at \/ (x > 0 /\ Ago(p, z - 1) >= Ago(q, x - 1))
<1>1. /\ q \in Seq(Nat) /\ Len(p) \in Nat /\ Len(p) >= 1 /\ Len(q) \in Nat /\ Ago(p, 0) = at
      /\ \A i \in 1..(Len(p) - 1) : Ago(p, i) = Ago(q, i - 1) /\ i - 1 \in 0..(Len(q) - 1)
      /\ \A i \in 0..(Len(q) - 1) : Ago(q, i) \in Nat
      /\ \A i, j \in 0..(Len(q) - 1) : i <= j => Ago(q, j) <= Ago(q, i)
  BY PushedIs, AgoIsNat DEF Timely
<1>2. Len(p) = Len(q) + 1 \/ (Len(p) = Len(q) /\ Len(q) >= L)
  BY <1>1 DEF Pushed
<1>3. CASE x + 1 <= Len(p)
  <2>1. x + 1 \in 1..Len(p) /\ (x + 1) - 1 = x BY <1>1, <1>3
  <2>2. CASE x = 0 BY <1>1, <2>1, <2>2
  <2>3. CASE x > 0
    <3>1. x \in 1..(Len(p) - 1) /\ x - 1 \in 0..(Len(q) - 1) BY <1>1, <1>3, <2>3
    <3>2. Ago(p, x) = Ago(q, x - 1) /\ Ago(q, x - 1) \in Nat BY <1>1, <3>1
    <3> QED BY <2>1, <2>3, <3>2
  <2> QED BY <2>2, <2>3
<1>4. CASE x + 1 > Len(p)
  <2>1. x = Len(p) /\ x >= L /\ x \in 1..Len(p) BY <1>1, <1>2, <1>4
  <2>2. CASE x = 1
    <3>1. x - 1 = 0 BY <2>2
    <3> QED BY <1>1, <2>1, <3>1
  <2>3. CASE x > 1
    <3>1. x - 1 \in 1..(Len(p) - 1) BY <1>1, <2>1, <2>3
    <3>2. x - 1 \in 0..(Len(q) - 1) /\ (x - 1) - 1 \in 0..(Len(q) - 1) /\ (x - 1) - 1 <= x - 1
      BY <1>1, <2>1, <2>3
    <3>3. Ago(p, x - 1) = Ago(q, (x - 1) - 1) BY <1>1, <3>1
    <3>4. Ago(q, (x - 1) - 1) >= Ago(q, x - 1) /\ Ago(q, (x - 1) - 1) \in Nat BY <1>1, <3>2
    <3> QED BY <2>1, <2>3, <3>3, <3>4
  <2> QED BY <1>1, <2>1, <2>2, <2>3
<1> QED BY <1>1, <1>3, <1>4

\* Redis admits: no slot gets more than the limit.
LEMMA AnswerKeeps ==
  ASSUME NEW W \in Nat \ {0}, NEW L \in Nat \ {0}, NEW c \in Nat, NEW at \in Nat,
         NEW p, NEW r, NEW q, Timely(r, at), Timely(q, at), Pushed(p, r, at, L), c < L,
         Spread(r, L, W), Tallied(r, c, W, at)
  PROVE  /\ Spread(p, L, W) /\ Tallied(p, c + 1, W, at)
         /\ Owed(r, q, c, L, W, at) => Owed(p, q, c + 1, L, W, at)
<1>1. /\ r \in Seq(Nat) /\ Len(p) \in Nat /\ Len(p) >= 1 /\ Len(r) \in Nat /\ Ago(p, 0) = at
      /\ \A i \in 1..(Len(p) - 1) : Ago(p, i) = Ago(r, i - 1) /\ i - 1 \in 0..(Len(r) - 1)
      /\ \A i \in 0..(Len(r) - 1) : Ago(r, i) \in Nat
      /\ \A i, j \in 0..(Len(r) - 1) : i <= j => Ago(r, j) <= Ago(r, i)
  BY PushedIs, AgoIsNat DEF Timely
<1>2. Spread(p, L, W)
  <2> SUFFICES ASSUME NEW i \in Nat, i + L < Len(p)
               PROVE  Ago(p, i + L) \div W < Ago(p, i) \div W
    BY DEF Spread
  <2>1. i + L \in 1..(Len(p) - 1) BY <1>1
  <2>2. Ago(p, i + L) = Ago(r, i + L - 1) /\ i + L - 1 \in 0..(Len(r) - 1) BY <1>1, <2>1
  <2>3. CASE i = 0
    <3>1. L - 1 \in 0..(Len(r) - 1) /\ c \in 0..(Len(r) - 1) /\ c <= L - 1 /\ ~(Len(r) <= c)
      BY <1>1, <2>2, <2>3
    <3>2. Ago(r, L - 1) <= Ago(r, c) /\ Ago(r, L - 1) \in Nat /\ Ago(r, c) \in Nat
      BY <1>1, <3>1
    <3>3. Ago(r, c) \div W < at \div W BY <3>1 DEF Tallied
    <3>4. /\ Ago(r, L - 1) \div W <= Ago(r, c) \div W
          /\ Ago(r, L - 1) \div W \in Nat /\ Ago(r, c) \div W \in Nat /\ at \div W \in Nat
      BY <3>2, SlotFacts
    <3>5. Ago(p, i + L) = Ago(r, L - 1) /\ Ago(p, i) = at BY <1>1, <2>2, <2>3
    <3> QED BY <3>3, <3>4, <3>5
  <2>4. CASE i > 0
    <3>1. i \in 1..(Len(p) - 1) /\ i - 1 \in Nat /\ (i - 1) + L = i + L - 1 BY <1>1, <2>4
    <3>2. (i - 1) + L < Len(r) BY <1>1, <2>2, <3>1
    <3>3. Ago(r, (i - 1) + L) \div W < Ago(r, i - 1) \div W BY <3>1, <3>2 DEF Spread
    <3>4. Ago(p, i) = Ago(r, i - 1) BY <1>1, <3>1
    <3> QED BY <2>2, <3>1, <3>3, <3>4
  <2> QED BY <2>3, <2>4
<1>3. Tallied(p, c + 1, W, at)
  <2> SUFFICES ASSUME Len(p) > c + 1 PROVE Ago(p, c + 1) \div W < at \div W
    BY <1>1 DEF Tallied
  <2>1. c + 1 \in 1..(Len(p) - 1) /\ (c + 1) - 1 = c BY <1>1
  <2>2. Ago(p, c + 1) = Ago(r, c) /\ c \in 0..(Len(r) - 1) BY <1>1, <2>1
  <2>3. ~(Len(r) <= c) BY <1>1, <2>2
  <2> QED BY <2>2, <2>3 DEF Tallied
<1>4. ASSUME Owed(r, q, c, L, W, at) PROVE Owed(p, q, c + 1, L, W, at)
  <2>1. PICK x \in 0..Len(r), y \in 0..Len(q) :
          /\ x + y >= c \/ x + y >= L
          /\ x > 0 => Ago(r, x - 1) \div W >= at \div W
          /\ y > 0 => (Ago(q, y - 1) \div W) + 1 >= at \div W
    BY <1>4 DEF Owed
  <2>2. PICK z \in 1..Len(p) :
          /\ z = x + 1 \/ (z = x /\ x >= L)
          /\ Ago(p, z - 1) \in Nat
          /\ Ago(p, z - 1) = at \/ (x > 0 /\ Ago(p, z - 1) >= Ago(r, x - 1))
    BY OneMore
  <2>3. Ago(p, z - 1) \div W >= at \div W
    <3>1. CASE Ago(p, z - 1) = at
      <4>1. at \div W \in Nat BY SlotFacts
      <4> QED BY <3>1, <4>1
    <3>2. CASE x > 0 /\ Ago(p, z - 1) >= Ago(r, x - 1)
      <4>1. x - 1 \in 0..(Len(r) - 1) BY <1>1, <3>2
      <4>2. Ago(r, x - 1) \in Nat BY <1>1, <4>1
      <4>3. /\ Ago(r, x - 1) \div W <= Ago(p, z - 1) \div W
            /\ Ago(r, x - 1) \div W \in Nat /\ Ago(p, z - 1) \div W \in Nat /\ at \div W \in Nat
        BY <2>2, <3>2, <4>2, SlotFacts
      <4>4. Ago(r, x - 1) \div W >= at \div W BY <2>1, <3>2
      <4> QED BY <4>3, <4>4
    <3> QED BY <2>2, <3>1, <3>2
  <2>4. z \in 0..Len(p) /\ z \in Nat /\ x \in Nat /\ y \in Nat BY <1>1
  <2>5. z + y >= c + 1 \/ z + y >= L BY <2>1, <2>2, <2>4
  <2> QED BY <2>1, <2>3, <2>4, <2>5 DEF Owed
<1> QED BY <1>2, <1>3, <1>4

\* The memory admits.
LEMMA NoteOwes ==
  ASSUME NEW W \in Nat \ {0}, NEW L \in Nat \ {0}, NEW c \in Nat, NEW d \in {c, c + 1},
         NEW at \in Nat, NEW p, NEW r, NEW q, Len(r) \in Nat,
         Timely(q, at), Pushed(p, q, at, L), Owed(r, q, c, L, W, at)
  PROVE  Owed(r, p, d, L, W, at)
<1>1. /\ q \in Seq(Nat) /\ Len(p) \in Nat /\ Len(p) >= 1 /\ Len(q) \in Nat
      /\ \A i \in 0..(Len(q) - 1) : Ago(q, i) \in Nat
  BY PushedIs, AgoIsNat DEF Timely
<1>2. PICK x \in 0..Len(r), y \in 0..Len(q) :
        /\ x + y >= c \/ x + y >= L
        /\ x > 0 => Ago(r, x - 1) \div W >= at \div W
        /\ y > 0 => (Ago(q, y - 1) \div W) + 1 >= at \div W
  BY DEF Owed
<1>3. PICK z \in 1..Len(p) :
        /\ z = y + 1 \/ (z = y /\ y >= L)
        /\ Ago(p, z - 1) \in Nat
        /\ Ago(p, z - 1) = at \/ (y > 0 /\ Ago(p, z - 1) >= Ago(q, y - 1))
  BY OneMore
<1>4. (Ago(p, z - 1) \div W) + 1 >= at \div W
  <2>1. CASE Ago(p, z - 1) = at
    <3>1. at \div W \in Nat BY SlotFacts
    <3>2. Ago(p, z - 1) \div W = at \div W BY <2>1
    <3>3. \A t \in Nat : t + 1 >= t OBVIOUS
    <3> QED BY <3>1, <3>2, <3>3
  <2>2. CASE y > 0 /\ Ago(p, z - 1) >= Ago(q, y - 1)
    <3>1. y - 1 \in 0..(Len(q) - 1) BY <1>1, <2>2
    <3>2. Ago(q, y - 1) \in Nat BY <1>1, <3>1
    <3>3. /\ Ago(q, y - 1) \div W <= Ago(p, z - 1) \div W
          /\ Ago(q, y - 1) \div W \in Nat /\ Ago(p, z - 1) \div W \in Nat /\ at \div W \in Nat
      BY <1>3, <2>2, <3>2, SlotFacts
    <3>4. (Ago(q, y - 1) \div W) + 1 >= at \div W BY <1>2, <2>2
    <3> QED BY <3>3, <3>4
  <2> QED BY <1>3, <2>1, <2>2
<1>5. z \in 0..Len(p) /\ z \in Nat /\ x \in Nat /\ y \in Nat BY <1>1
<1>6. x + z >= d \/ x + z >= L BY <1>2, <1>3, <1>5
<1> QED BY <1>2, <1>4, <1>5, <1>6 DEF Owed

\* A refusal in memory, or any turn: the bucket loses what is out of its window.
LEMMA AgedKeeps ==
  ASSUME NEW W \in Nat \ {0}, NEW P \in Nat, NEW at \in Nat,
         NEW q, NEW b \in Seq(Nat), NEW a, Timely(q, at), Trimmed(a, b, W, at),
         Matches(b, q, W, at)
  PROVE  /\ Matches(a, q, W, at)
         /\ Afresh(q, Len(b), P, W, at) => Afresh(q, Len(a), P, W, at)
<1>1. /\ q \in Seq(Nat) /\ Len(q) \in Nat /\ Len(a) \in Nat /\ Len(b) \in Nat /\ Len(a) <= Len(b)
      /\ \A i \in 0..(Len(a) - 1) : Ago(a, i) = Ago(b, i)
      /\ \A i \in Len(a)..(Len(b) - 1) : Ago(b, i) + W <= at
      /\ \A i \in 0..(Len(q) - 1) : Ago(q, i) \in Nat
      /\ \A i, j \in 0..(Len(q) - 1) : i <= j => Ago(q, j) <= Ago(q, i)
  BY AgoIsNat DEF Timely, Trimmed
<1>2. Matches(a, q, W, at)
  <2> SUFFICES ASSUME NEW i \in 0..(Len(a) - 1)
               PROVE  IF i < Len(q) THEN Ago(q, i) = Ago(a, i) ELSE Ago(a, i) + 2 * W <= at
    BY DEF Matches
  <2>1. i \in 0..(Len(b) - 1) /\ Ago(a, i) = Ago(b, i) BY <1>1
  <2>2. IF i < Len(q) THEN Ago(q, i) = Ago(b, i) ELSE Ago(b, i) + 2 * W <= at
    BY <2>1 DEF Matches
  <2> QED BY <2>1, <2>2
<1>3. ASSUME Afresh(q, Len(b), P, W, at) PROVE Afresh(q, Len(a), P, W, at)
  <2> DEFINE i == Len(a) + P
  <2> SUFFICES ASSUME Len(q) > i PROVE Ago(q, i) + W <= at BY <1>1 DEF Afresh
  <2>1. CASE Len(a) = Len(b)
    <3>1. ~(Len(q) <= Len(b) + P) BY <1>1, <2>1
    <3> QED BY <1>3, <2>1, <3>1 DEF Afresh
  <2>2. CASE Len(a) < Len(b)
    <3>1. Len(a) \in Len(a)..(Len(b) - 1) /\ Len(a) \in 0..(Len(b) - 1) /\ Len(a) < Len(q)
      BY <1>1, <2>2
    <3>2. Ago(q, Len(a)) = Ago(b, Len(a)) BY <3>1 DEF Matches
    <3>3. Ago(q, Len(a)) + W <= at BY <1>1, <3>1, <3>2
    <3>4. Len(a) \in 0..(Len(q) - 1) /\ i \in 0..(Len(q) - 1) /\ Len(a) <= i BY <1>1
    <3>5. Ago(q, i) <= Ago(q, Len(a)) /\ Ago(q, i) \in Nat /\ Ago(q, Len(a)) \in Nat
      BY <1>1, <3>4
    <3> QED BY <3>3, <3>5
  <2> QED BY <1>1, <2>1, <2>2
<1> QED BY <1>2, <1>3

\* Whoever the memory refuses was admitted by it as often as the limit in the window.
LEMMA RefusalIsOwed ==
  ASSUME NEW W \in Nat \ {0}, NEW L \in Nat \ {0}, NEW at \in Nat, NEW d,
         NEW r, NEW q, NEW b \in Seq(Nat), NEW a, Len(r) \in Nat,
         Timely(q, at), Trimmed(a, b, W, at), Matches(b, q, W, at), Len(a) >= L
  PROVE  Len(q) >= L /\ Owed(r, q, d, L, W, at)
<1>1. /\ q \in Seq(Nat) /\ Len(q) \in Nat /\ Len(a) \in Nat /\ Len(b) \in Nat /\ Len(a) <= Len(b)
      /\ a \in Seq(Nat)
      /\ \A i \in 0..(Len(a) - 1) : Ago(a, i) = Ago(b, i) /\ Ago(a, i) \in Nat
      /\ Len(a) > 0 => Ago(b, Len(a) - 1) + W > at
  BY AgoIsNat DEF Timely, Trimmed
<1>2. Len(a) - 1 \in 0..(Len(a) - 1) /\ Len(a) - 1 \in 0..(Len(b) - 1) BY <1>1
<1>3. Len(a) - 1 < Len(q) /\ Ago(q, Len(a) - 1) = Ago(b, Len(a) - 1)
  <2>1. IF Len(a) - 1 < Len(q) THEN Ago(q, Len(a) - 1) = Ago(b, Len(a) - 1)
        ELSE Ago(b, Len(a) - 1) + 2 * W <= at
    BY <1>2 DEF Matches
  <2>2. Ago(b, Len(a) - 1) \in Nat BY <1>1, <1>2
  <2>3. Ago(b, Len(a) - 1) + W > at BY <1>1
  <2>4. ~(Ago(b, Len(a) - 1) + 2 * W <= at) BY <2>2, <2>3
  <2> QED BY <2>1, <2>4
<1>4. Ago(q, Len(a) - 1) + W > at /\ Ago(q, Len(a) - 1) \in Nat
  <2>1. Len(a) > 0 BY <1>1
  <2>2. Ago(b, Len(a) - 1) + W > at BY <1>1, <2>1
  <2>3. Ago(a, Len(a) - 1) = Ago(b, Len(a) - 1) /\ Ago(a, Len(a) - 1) \in Nat BY <1>1, <1>2
  <2> QED BY <1>3, <2>2, <2>3
<1>5. (Ago(q, Len(a) - 1) \div W) + 1 >= at \div W BY <1>4, SlotFacts
<1>6. Len(a) \in 0..Len(q) /\ 0 \in 0..Len(r) /\ 0 + Len(a) >= L BY <1>1, <1>3
<1>7. Owed(r, q, d, L, W, at)
  <2> DEFINE y == Len(a)
  <2>1. y - 1 = Len(a) - 1 /\ (Ago(q, y - 1) \div W) + 1 >= at \div W BY <1>5
  <2>2. y \in 0..Len(q) /\ 0 + y >= L BY <1>6
  <2> HIDE DEF y
  <2> QED BY <1>6, <2>1, <2>2 DEF Owed
<1> QED BY <1>1, <1>3, <1>7

\* A bucket that was stale when it was dropped leaves its owner nothing to come back to.
LEMMA DropKeeps ==
  ASSUME NEW W \in Nat \ {0}, NEW P \in Nat, NEW at \in Nat, NEW q, NEW b \in Seq(Nat),
         Timely(q, at), Matches(b, q, W, at), Len(b) > 0, Ago(b, 0) + W <= at
  PROVE  Afresh(q, 0, P, W, at)
<1>1. /\ Len(q) \in Nat /\ Len(b) \in Nat
      /\ \A i \in 0..(Len(q) - 1) : Ago(q, i) \in Nat
      /\ \A i, j \in 0..(Len(q) - 1) : i <= j => Ago(q, j) <= Ago(q, i)
  BY AgoIsNat DEF Timely
<1> SUFFICES ASSUME Len(q) > P PROVE Ago(q, P) + W <= at
  BY <1>1 DEF Afresh
<1>2. 0 \in 0..(Len(b) - 1) /\ 0 < Len(q) /\ 0 \in 0..(Len(q) - 1) /\ P \in 0..(Len(q) - 1) /\ 0 <= P
  BY <1>1
<1>3. Ago(q, 0) = Ago(b, 0) BY <1>2 DEF Matches
<1>4. Ago(q, P) <= Ago(q, 0) /\ Ago(q, P) \in Nat /\ Ago(q, 0) \in Nat BY <1>1, <1>2
<1> QED BY <1>3, <1>4

\* A server that starts anew forgets no more than a limit's worth.
LEMMA RestartKeeps ==
  ASSUME NEW W \in Nat \ {0}, NEW L \in Nat, NEW P \in Nat, NEW at \in Nat, NEW q,
         NEW m \in Nat, m <= L, Timely(q, at), Afresh(q, m, P, W, at)
  PROVE  Afresh(q, 0, P + L, W, at)
<1>1. /\ Len(q) \in Nat
      /\ \A i \in 0..(Len(q) - 1) : Ago(q, i) \in Nat
      /\ \A i, j \in 0..(Len(q) - 1) : i <= j => Ago(q, j) <= Ago(q, i)
  BY AgoIsNat DEF Timely
<1> SUFFICES ASSUME Len(q) > P + L PROVE Ago(q, P + L) + W <= at
  BY <1>1 DEF Afresh
<1>2. m + P \in 0..(Len(q) - 1) /\ P + L \in 0..(Len(q) - 1) /\ m + P <= P + L /\ ~(Len(q) <= m + P)
  BY <1>1
<1>3. Ago(q, m + P) + W <= at BY <1>2 DEF Afresh
<1>4. Ago(q, P + L) <= Ago(q, m + P) /\ Ago(q, P + L) \in Nat /\ Ago(q, m + P) \in Nat
  BY <1>1, <1>2
<1> QED BY <1>3, <1>4

\* What the memory admitted in the last window.
LEMMA MemoryBounded ==
  ASSUME NEW W \in Nat \ {0}, NEW P \in Nat, NEW at \in Nat, NEW q, NEW p,
         NEW m \in Nat, Timely(q, at), Trimmed(p, q, W, at), Afresh(q, m, P, W, at)
  PROVE  Len(p) <= m + P
<1>1. /\ Len(q) \in Nat /\ Len(p) \in Nat /\ Len(p) <= Len(q)
      /\ \A i \in 0..(Len(q) - 1) : Ago(q, i) \in Nat
      /\ \A i, j \in 0..(Len(q) - 1) : i <= j => Ago(q, j) <= Ago(q, i)
      /\ Len(p) > 0 => Ago(q, Len(p) - 1) + W > at
  BY AgoIsNat DEF Timely, Trimmed
<1> SUFFICES ASSUME Len(p) > m + P PROVE FALSE BY <1>1
<1>2. /\ m + P \in 0..(Len(q) - 1) /\ Len(p) - 1 \in 0..(Len(q) - 1) /\ m + P <= Len(p) - 1
      /\ ~(Len(q) <= m + P) /\ Len(p) > 0
  BY <1>1
<1>3. Ago(q, m + P) + W <= at BY <1>2 DEF Afresh
<1>4. Ago(q, Len(p) - 1) + W > at BY <1>1, <1>2
<1>5. Ago(q, Len(p) - 1) <= Ago(q, m + P) /\ Ago(q, m + P) \in Nat /\ Ago(q, Len(p) - 1) \in Nat
  BY <1>1, <1>2
<1> QED BY <1>3, <1>4, <1>5

\* What Redis admitted in the last window: it lies in two slots.
LEMMA RedisBounded ==
  ASSUME NEW W \in Nat \ {0}, NEW L \in Nat \ {0}, NEW at \in Nat, NEW r, NEW p,
         Timely(r, at), Trimmed(p, r, W, at), Spread(r, L, W)
  PROVE  Len(p) <= 2 * L
<1>1. /\ Len(r) \in Nat /\ Len(p) \in Nat /\ Len(p) <= Len(r)
      /\ \A i \in 0..(Len(r) - 1) : Ago(r, i) \in Nat /\ Ago(r, i) <= at
      /\ \A i, j \in 0..(Len(r) - 1) : i <= j => Ago(r, j) <= Ago(r, i)
      /\ Len(p) > 0 => Ago(r, Len(p) - 1) + W > at
  BY AgoIsNat DEF Timely, Trimmed
<1> SUFFICES ASSUME Len(p) > 2 * L PROVE FALSE BY <1>1
<1>2. /\ L + L \in 0..(Len(r) - 1) /\ L \in 0..(Len(r) - 1) /\ 0 \in 0..(Len(r) - 1)
      /\ Len(p) - 1 \in 0..(Len(r) - 1) /\ L + L <= Len(p) - 1 /\ Len(p) > 0
      /\ L + L < Len(r) /\ 0 + L < Len(r) /\ 0 + L = L
  BY <1>1
<1> DEFINE a == Ago(r, L + L)
           b == Ago(r, L)
           c == Ago(r, 0)
<1>3. a \in Nat /\ b \in Nat /\ c \in Nat /\ c <= at BY <1>1, <1>2
<1>4. a \div W < b \div W /\ b \div W < c \div W BY <1>2 DEF Spread
<1>5. a + W > at
  <2>1. Ago(r, Len(p) - 1) + W > at /\ Ago(r, Len(p) - 1) \in Nat BY <1>1, <1>2
  <2>2. Ago(r, Len(p) - 1) <= a BY <1>1, <1>2
  <2> QED BY <1>3, <2>1, <2>2
<1> HIDE DEF a, b, c
<1>6. /\ a \div W \in Nat /\ b \div W \in Nat /\ c \div W \in Nat /\ at \div W \in Nat
      /\ c \div W <= at \div W
      /\ (a \div W) + 2 <= at \div W => a + W <= at
  BY <1>3, SlotFacts
<1> QED BY <1>3, <1>4, <1>5, <1>6

\* What the slot has counted and not granted only raises the count.
LEMMA TalliedGrows ==
  ASSUME NEW W \in Nat \ {0}, NEW at \in Nat, NEW r, Timely(r, at),
         NEW c \in Nat, NEW d \in Nat, c <= d, Tallied(r, c, W, at)
  PROVE  Tallied(r, d, W, at)
<1>1. r \in Seq(Nat) /\ Len(r) \in Nat BY DEF Timely
<1> SUFFICES ASSUME ~(Len(r) <= d) PROVE Ago(r, d) \div W < at \div W BY DEF Tallied
<1>2. d \in 0..(Len(r) - 1) /\ c \in 0..(Len(r) - 1) /\ ~(Len(r) <= c) BY <1>1
<1>3. Ago(r, d) <= Ago(r, c) BY <1>2 DEF Timely
<1>4. Ago(r, c) \div W < at \div W BY <1>2 DEF Tallied
<1>5. Ago(r, d) \in Nat /\ Ago(r, c) \in Nat BY <1>1, <1>2, AgoIsNat
<1>6. /\ Ago(r, d) \div W <= Ago(r, c) \div W /\ at \div W \in Nat
      /\ Ago(r, d) \div W \in Nat /\ Ago(r, c) \div W \in Nat
  BY <1>3, <1>5, SlotFacts
<1> QED BY <1>4, <1>6

-----------------------------------------------------------------------------

RateTypes ==
  /\ now \in 0..MaxTime /\ client \in {"unset", "none", "there"}
  /\ watched \in Keys /\ refused \in BOOLEAN /\ robbed \in BOOLEAN /\ outage \in BOOLEAN
  /\ restarts \in 0..MaxRestarts /\ count \in 0..(MaxAttempts[watched] + 1)
  /\ bucket \in [Keys -> Seq(Nat)] /\ \A k \in Keys : Len(bucket[k]) <= MaxAttempts[k]

TableFits == IsFiniteSet(Tracked) /\ Cardinality(Tracked) <= MaxKeys

\* The history and what the limiter has kept of it.
Accounts ==
  /\ Timely(byRedis, now) /\ Timely(byMemory, now)
  /\ Matches(bucket[watched], byMemory, Window[watched], now)
  /\ ~robbed =>
       Afresh(byMemory, Len(bucket[watched]), MaxAttempts[watched] * restarts, Window[watched], now)
  /\ Spread(byRedis, MaxAttempts[watched], Window[watched])
  /\ Tallied(byRedis, count, Window[watched], now)
  /\ ~(watched \in Auth /\ outage) =>
       Owed(byRedis, byMemory, count, MaxAttempts[watched], Window[watched], now)

\* WindowBounded follows from the accounts; RefusedHasSpent is part of the invariant.
RateInv == RateTypes /\ TableFits /\ Accounts /\ RefusedHasSpent

LEMMA AccountsNext ==
  ASSUME watched' = watched,
         Timely(byRedis', now'), Timely(byMemory', now'),
         Matches((bucket')[watched], byMemory', Window[watched], now'),
         ~(robbed') =>
           Afresh(byMemory', Len((bucket')[watched]), MaxAttempts[watched] * (restarts'), Window[watched], now'),
         Spread(byRedis', MaxAttempts[watched], Window[watched]),
         Tallied(byRedis', count', Window[watched], now'),
         ~(watched \in Auth /\ outage') =>
           Owed(byRedis', byMemory', count', MaxAttempts[watched], Window[watched], now')
  PROVE  Accounts'
BY DEF Accounts

LEMMA KeyBudget ==
  ASSUME NEW k \in Keys
  PROVE  MaxAttempts[k] \in Nat \ {0} /\ Window[k] \in Nat \ {0}
BY BudgetAssumption

\* A history that is cut keeps more than a limit's worth.
LEMMA NotedIs ==
  ASSUME RateTypes, NEW q \in Seq(Nat), NEW k \in Keys, NEW ok \in BOOLEAN
  PROVE  /\ k # watched \/ ~ok => Noted(q, k, ok) = q
         /\ k = watched /\ ok => Pushed(Noted(q, k, ok), q, now, MaxAttempts[watched])
<1>1. k # watched \/ ~ok => Noted(q, k, ok) = q BY DEF Noted
<1>2. ASSUME k = watched, ok PROVE Pushed(Noted(q, k, ok), q, now, MaxAttempts[watched])
  <2> DEFINE L == MaxAttempts[watched]
             p == Noted(q, k, ok)
  <2>1. L \in Nat \ {0} /\ now \in Nat /\ Len(q) \in Nat BY KeyBudget, RateBounds DEF RateTypes
  <2>2. NotedBound \in Nat /\ NotedBound >= L
    <3> HIDE DEF L
    <3>1. MaxRestarts \in Nat BY RateBounds
    <3>2. \A m \in Nat : L * m \in Nat /\ L * (m + 2) = L * m + 2 * L BY <2>1
    <3>3. L * MaxRestarts \in Nat /\ L * (MaxRestarts + 2) = L * MaxRestarts + 2 * L
      BY <3>1, <3>2
    <3> QED BY <2>1, <3>3 DEF NotedBound, L
  <2>3. CASE Len(q) < NotedBound
    <3>1. p = Append(q, now) BY <1>2, <2>3 DEF Noted
    <3>2. p \in Seq(Nat) /\ Len(p) = Len(q) + 1 /\ p[Len(q) + 1] = now
          /\ \A j \in 1..Len(q) : p[j] = q[j]
      BY <2>1, <3>1
    <3> HIDE DEF p
    <3>3. Ago(p, 0) = now BY <2>1, <3>2 DEF Ago
    <3>4. ASSUME NEW i \in 0..(Len(p) - 2) PROVE Ago(p, i + 1) = Ago(q, i)
      <4>1. Len(p) - (i + 1) = Len(q) - i /\ Len(q) - i \in 1..Len(q) BY <2>1, <3>2
      <4> QED BY <3>2, <4>1 DEF Ago
    <3> QED BY <3>2, <3>3, <3>4 DEF Pushed, p
  <2>4. CASE ~(Len(q) < NotedBound)
    <3>1. p = Append(Tail(q), now) BY <1>2, <2>4 DEF Noted
    <3>2. Len(q) >= L /\ Len(q) >= 1 /\ q # <<>> BY <2>1, <2>2, <2>4
    <3>3. Tail(q) \in Seq(Nat) /\ Len(Tail(q)) = Len(q) - 1
          /\ \A j \in 1..(Len(q) - 1) : Tail(q)[j] = q[j + 1]
      BY <2>1, <3>2
    <3>4. p \in Seq(Nat) /\ Len(p) = Len(q) /\ p[Len(q)] = now
          /\ \A j \in 1..(Len(q) - 1) : p[j] = q[j + 1]
      BY <2>1, <3>1, <3>2, <3>3
    <3> HIDE DEF p
    <3>5. Ago(p, 0) = now BY <2>1, <3>4 DEF Ago
    <3>6. ASSUME NEW i \in 0..(Len(p) - 2) PROVE Ago(p, i + 1) = Ago(q, i)
      <4>1. /\ Len(p) - (i + 1) \in 1..(Len(q) - 1)
            /\ (Len(p) - (i + 1)) + 1 = Len(q) - i
        BY <2>1, <3>4
      <4> QED BY <3>4, <4>1 DEF Ago
    <3> QED BY <3>2, <3>4, <3>5, <3>6 DEF Pushed, p
  <2> QED BY <2>3, <2>4
<1> QED BY <1>1, <1>2

\* What a turn in memory drops: nothing of its own, and where the map is full something.
LEMMA DroppedIs ==
  ASSUME RateTypes, TableFits, NEW k \in Keys, NEW gone \in Dropped(k)
  PROVE  /\ gone \subseteq Tracked /\ k \notin gone
         /\ k \in Tracked => gone = {}
         /\ k \notin Tracked /\ gone = {} => Cardinality(Tracked) < MaxKeys
         /\ gone # {} => gone = Swept(k) \/ Swept(k) = {}
<1>1. CASE k \in Tracked \/ Cardinality(Tracked) < MaxKeys
  BY <1>1 DEF Dropped
<1>2. CASE ~(k \in Tracked \/ Cardinality(Tracked) < MaxKeys)
  <2>1. CASE Swept(k) # {}
    <3>1. gone = Swept(k) BY <1>2, <2>1 DEF Dropped
    <3> QED BY <1>2, <2>1, <3>1 DEF Swept
  <2>2. CASE Swept(k) = {}
    <3>1. PICK j \in Oldest(Tracked) : gone = {j} BY <1>2, <2>2 DEF Dropped
    <3>2. j \in Tracked BY DEF Oldest
    <3> QED BY <1>2, <2>2, <3>1, <3>2
  <2> QED BY <2>1, <2>2
<1> QED BY <1>1, <1>2

\* The map never tracks more than its bound.
LEMMA TableStaysFit ==
  ASSUME RateTypes, TableFits, NEW k \in Keys, NEW gone \in Dropped(k),
         NEW T, T \subseteq (Tracked \ gone) \cup {k}
  PROVE  IsFiniteSet(T) /\ Cardinality(T) <= MaxKeys
<1>1. /\ gone \subseteq Tracked /\ k \notin gone
      /\ k \in Tracked => gone = {}
      /\ k \notin Tracked /\ gone = {} => Cardinality(Tracked) < MaxKeys
  BY DroppedIs
<1>2. IsFiniteSet(Tracked) /\ Cardinality(Tracked) \in Nat /\ Cardinality(Tracked) <= MaxKeys
      /\ MaxKeys \in Nat
  BY FS_CardinalityType, RateBounds DEF TableFits
<1>3. CASE k \in Tracked
  <2>1. T \subseteq Tracked BY <1>1, <1>3
  <2>2. IsFiniteSet(T) /\ Cardinality(T) <= Cardinality(Tracked) BY <1>2, <2>1, FS_Subset
  <2> QED BY <1>2, <2>2, FS_CardinalityType
<1>4. CASE k \notin Tracked
  <2> DEFINE K == Tracked \ gone
  <2>1. IsFiniteSet(K) /\ Cardinality(K) \in Nat /\ Cardinality(K) < MaxKeys
    <3>1. CASE gone = {}
      <4>1. K = Tracked BY <3>1
      <4> QED BY <1>1, <1>2, <1>4, <3>1, <4>1
    <3>2. CASE gone # {}
      <4>1. K \subseteq Tracked /\ K # Tracked BY <1>1, <3>2
      <4>2. IsFiniteSet(K) /\ Cardinality(K) < Cardinality(Tracked) BY <1>2, <4>1, FS_Subset, FS_CardinalityType
      <4> QED BY <1>2, <4>2, FS_CardinalityType
    <3> QED BY <3>1, <3>2
  <2> HIDE DEF K
  <2>2. IsFiniteSet(K \cup {k}) /\ Cardinality(K \cup {k}) <= Cardinality(K) + 1
    <3>1. /\ IsFiniteSet(K \cup {k})
          /\ Cardinality(K \cup {k}) = IF k \in K THEN Cardinality(K) ELSE Cardinality(K) + 1
      BY <2>1, FS_AddElement
    <3> QED BY <2>1, <3>1
  <2>3. T \subseteq K \cup {k} BY DEF K
  <2>4. IsFiniteSet(T) /\ Cardinality(T) <= Cardinality(K \cup {k}) BY <2>2, <2>3, FS_Subset
  <2> QED BY <1>2, <2>1, <2>2, <2>4, FS_CardinalityType
<1> QED BY <1>3, <1>4

\* What a turn in memory leaves.
LEMMA InMemoryIs ==
  ASSUME RateTypes, TableFits, byMemory \in Seq(Nat), NEW k \in Keys, InMemory(k),
         watched' = watched
  PROVE  /\ bucket' \in [Keys -> Seq(Nat)] /\ \A j \in Keys : Len((bucket')[j]) <= MaxAttempts[j]
         /\ TableFits' /\ robbed' \in BOOLEAN /\ refused' \in BOOLEAN
         /\ Trimmed(Aged(k), bucket[k], Window[k], now)
         /\ k = watched =>
              /\ robbed' = robbed
              /\ Len(Aged(k)) < MaxAttempts[k] =>
                   /\ (bucket')[k] = Append(Aged(k), now) /\ refused' = FALSE
                   /\ Pushed(byMemory', byMemory, now, MaxAttempts[k])
              /\ ~(Len(Aged(k)) < MaxAttempts[k]) => (bucket')[k] = Aged(k) /\ byMemory' = byMemory
         /\ k # watched =>
              /\ byMemory' = byMemory /\ refused' = refused
              /\ \/ (bucket')[watched] = bucket[watched] /\ robbed' = robbed
                 \/ /\ (bucket')[watched] = <<>>
                    /\ ~(robbed') => /\ ~robbed /\ Len(bucket[watched]) > 0
                                     /\ Ago(bucket[watched], 0) + Window[watched] <= now
<1> DEFINE a == Aged(k)
           ok == Len(a) < MaxAttempts[k]
           mine == IF ok THEN Append(a, now) ELSE a
<1>1. PICK gone \in Dropped(k) :
        /\ bucket' = [[j \in Keys |-> IF j \in gone THEN <<>> ELSE bucket[j]] EXCEPT ![k] = mine]
        /\ byMemory' = Noted(byMemory, k, ok)
        /\ robbed' =
             (robbed \/ (watched \in gone /\ (gone = Swept(k) => Window[watched] > Window[k])))
        /\ Result(k, ok)
  BY DEF InMemory
<1>2. /\ bucket[k] \in Seq(Nat) /\ MaxAttempts[k] \in Nat \ {0} /\ Window[k] \in Nat \ {0} /\ now \in Nat
      /\ Window[watched] \in Nat \ {0} /\ bucket[watched] \in Seq(Nat)
  BY KeyBudget, RateBounds DEF RateTypes
<1>3. Trimmed(a, bucket[k], Window[k], now) BY <1>2, WithinTrims DEF Aged
<1>4. a \in Seq(Nat) /\ Len(a) \in Nat /\ Len(a) <= Len(bucket[k]) /\ Len(bucket[k]) <= MaxAttempts[k]
  BY <1>2, <1>3 DEF Trimmed, RateTypes
<1>5. mine \in Seq(Nat) /\ Len(mine) <= MaxAttempts[k]
  <2> HIDE DEF a
  <2> QED BY <1>2, <1>4
<1>6. /\ gone \subseteq Tracked /\ k \notin gone /\ gone \subseteq Keys
      /\ gone # {} => gone = Swept(k) \/ Swept(k) = {}
  BY DroppedIs DEF Tracked
<1>7. /\ bucket' \in [Keys -> Seq(Nat)] /\ (bucket')[k] = mine
      /\ \A j \in Keys \ {k} : (bucket')[j] = IF j \in gone THEN <<>> ELSE bucket[j]
  <2> HIDE DEF mine
  <2> DEFINE kept == [j \in Keys |-> IF j \in gone THEN <<>> ELSE bucket[j]]
  <2>1. kept \in [Keys -> Seq(Nat)] BY DEF RateTypes
  <2>2. bucket' = [kept EXCEPT ![k] = mine] BY <1>1
  <2>3. \A j \in Keys : kept[j] = IF j \in gone THEN <<>> ELSE bucket[j] OBVIOUS
  <2> HIDE DEF kept
  <2>4. bucket' \in [Keys -> Seq(Nat)] BY <1>5, <2>1, <2>2
  <2>5. \A j \in Keys : (bucket')[j] = IF j = k THEN mine ELSE kept[j] BY <2>1, <2>2
  <2> QED BY <2>3, <2>4, <2>5
<1> HIDE DEF mine
<1>8. \A j \in Keys : Len((bucket')[j]) <= MaxAttempts[j]
  <2> SUFFICES ASSUME NEW j \in Keys \ {k} PROVE Len((bucket')[j]) <= MaxAttempts[j]
    BY <1>5, <1>7
  <2>1. MaxAttempts[j] \in Nat /\ Len(bucket[j]) <= MaxAttempts[j] BY KeyBudget DEF RateTypes
  <2>2. Len(<<>>) = 0 OBVIOUS
  <2> QED BY <1>7, <2>1, <2>2
<1>9. TableFits'
  <2> DEFINE T == {j \in Keys : (bucket')[j] # <<>>}
  <2>1. T \subseteq (Tracked \ gone) \cup {k} BY <1>7 DEF Tracked
  <2>2. IsFiniteSet(T) /\ Cardinality(T) <= MaxKeys BY <2>1, TableStaysFit
  <2> QED BY <2>2 DEF TableFits, Tracked
<1>10. robbed' \in BOOLEAN /\ refused' \in BOOLEAN
  BY <1>1 DEF Result, RateTypes
<1>11. ASSUME k = watched
       PROVE  /\ robbed' = robbed
              /\ ok => /\ (bucket')[k] = Append(a, now) /\ refused' = FALSE
                       /\ Pushed(byMemory', byMemory, now, MaxAttempts[k])
              /\ ~ok => (bucket')[k] = a /\ byMemory' = byMemory
  <2>1. robbed' = robbed BY <1>1, <1>6, <1>11 DEF RateTypes
  <2>2. refused' = ~ok BY <1>1, <1>11 DEF Result
  <2>3. (bucket')[k] = IF ok THEN Append(a, now) ELSE a BY <1>7 DEF mine
  <2>4. ok \in BOOLEAN OBVIOUS
  <2>5. ok => Pushed(byMemory', byMemory, now, MaxAttempts[k])
    <3> HIDE DEF ok
    <3> QED BY <1>1, <1>11, <2>4, NotedIs
  <2>6. ~ok => byMemory' = byMemory
    <3> HIDE DEF ok
    <3> QED BY <1>1, <1>11, <2>4, NotedIs
  <2> HIDE DEF ok
  <2> QED BY <2>1, <2>2, <2>3, <2>5, <2>6
<1>12. ASSUME k # watched
       PROVE  /\ byMemory' = byMemory /\ refused' = refused
              /\ \/ (bucket')[watched] = bucket[watched] /\ robbed' = robbed
                 \/ /\ (bucket')[watched] = <<>>
                    /\ ~(robbed') => /\ ~robbed /\ Len(bucket[watched]) > 0
                                     /\ Ago(bucket[watched], 0) + Window[watched] <= now
  <2>1. byMemory' = byMemory /\ refused' = refused BY <1>1, <1>12 DEF Noted, Result
  <2>2. watched \in Keys \ {k} BY <1>12 DEF RateTypes
  <2>3. CASE watched \notin gone
    <3>1. (bucket')[watched] = bucket[watched] BY <1>7, <2>2, <2>3
    <3>2. robbed' = robbed BY <1>1, <2>3 DEF RateTypes
    <3> QED BY <2>1, <3>1, <3>2
  <2>4. CASE watched \in gone
    <3>1. (bucket')[watched] = <<>> BY <1>7, <2>2, <2>4
    <3>2. ASSUME ~(robbed')
          PROVE  /\ ~robbed /\ Len(bucket[watched]) > 0
                 /\ Ago(bucket[watched], 0) + Window[watched] <= now
      <4>1. ~robbed /\ gone = Swept(k) /\ ~(Window[watched] > Window[k]) BY <1>1, <2>4, <3>2
      <4>2. watched \in Tracked /\ Last(bucket[watched]) + Window[k] <= now
        BY <2>4, <4>1 DEF Swept, Stale
      <4>3. Len(bucket[watched]) \in Nat /\ Len(bucket[watched]) > 0 BY <1>2, <4>2 DEF Tracked
      <4>4. Last(bucket[watched]) = Ago(bucket[watched], 0)
        <5>1. Len(bucket[watched]) - 0 = Len(bucket[watched]) BY <4>3
        <5> QED BY <5>1 DEF Last, Ago
      <4>5. Ago(bucket[watched], 0) \in Nat BY <1>2, <4>3, AgoIsNat
      <4> QED BY <1>2, <4>1, <4>2, <4>3, <4>4, <4>5
    <3> QED BY <2>1, <3>1, <3>2
  <2> QED BY <2>3, <2>4
<1> QED BY <1>3, <1>7, <1>8, <1>9, <1>10, <1>11, <1>12

\* The numbers of the watched key.
LEMMA WatchedIs ==
  ASSUME RateTypes
  PROVE  /\ watched \in Keys /\ bucket[watched] \in Seq(Nat)
         /\ MaxAttempts[watched] \in Nat \ {0} /\ Window[watched] \in Nat \ {0}
         /\ now \in Nat /\ count \in Nat /\ restarts \in Nat
         /\ Len(bucket[watched]) \in Nat /\ Len(bucket[watched]) <= MaxAttempts[watched]
         /\ MaxAttempts[watched] * restarts \in Nat
<1>1. /\ watched \in Keys /\ bucket[watched] \in Seq(Nat)
      /\ MaxAttempts[watched] \in Nat \ {0} /\ Window[watched] \in Nat \ {0}
      /\ now \in Nat /\ count \in Nat /\ restarts \in Nat
      /\ Len(bucket[watched]) <= MaxAttempts[watched]
  BY KeyBudget, RateBounds DEF RateTypes
<1>2. \A m \in Nat, n \in Nat : m * n \in Nat OBVIOUS
<1> QED BY <1>1, <1>2

LEMMA TickStep ==
  ASSUME RateInv, Tick
  PROVE  RateInv'
<1> DEFINE W == Window[watched]
           L == MaxAttempts[watched]
           P == L * restarts
           b == bucket[watched]
<1>1. /\ now < MaxTime /\ now' = now + 1 /\ refused' = FALSE
      /\ count' = IF Slot(now') = Slot(now) THEN count ELSE 0
      /\ byRedis' = Within(byRedis, 2 * W, now')
      /\ byMemory' = Within(byMemory, 2 * W, now')
      /\ UNCHANGED <<client, bucket, watched, robbed, outage, restarts>>
  BY DEF Tick
<1>2. /\ W \in Nat \ {0} /\ L \in Nat \ {0} /\ P \in Nat /\ now \in Nat /\ count \in Nat
      /\ b \in Seq(Nat) /\ Len(b) \in Nat
  BY WatchedIs DEF RateInv
<1>3. /\ Timely(byRedis, now) /\ Timely(byMemory, now) /\ Matches(b, byMemory, W, now)
      /\ ~robbed => Afresh(byMemory, Len(b), P, W, now)
      /\ Spread(byRedis, L, W) /\ Tallied(byRedis, count, W, now)
      /\ ~(watched \in Auth /\ outage) => Owed(byRedis, byMemory, count, L, W, now)
  BY DEF RateInv, Accounts
<1>4. byRedis \in Seq(Nat) /\ byMemory \in Seq(Nat) /\ now + 1 \in Nat /\ 2 * W \in Nat
  BY <1>2, <1>3 DEF Timely
<1>5. Trimmed(byRedis', byRedis, 2 * W, now + 1) /\ Trimmed(byMemory', byMemory, 2 * W, now + 1)
  BY <1>1, <1>4, WithinTrims
<1>6. count' = IF (now + 1) \div W = now \div W THEN count ELSE 0
  BY <1>1 DEF Slot
<1>7. RateTypes'
  <2>1. count' \in 0..(L + 1) BY <1>1, <1>2 DEF RateInv, RateTypes
  <2>2. now' \in 0..MaxTime BY <1>1, <1>2, RateBounds
  <2> QED BY <1>1, <2>1, <2>2 DEF RateInv, RateTypes
<1>8. TableFits' BY <1>1 DEF RateInv, TableFits, Tracked
<1> HIDE DEF W, L, P, b
<1>9. /\ Timely(byMemory', now + 1) /\ Matches(b, byMemory', W, now + 1)
      /\ ~robbed => Afresh(byMemory', Len(b), P, W, now + 1)
  BY <1>2, <1>3, <1>5, TrimKeeps
<1>10. Timely(byRedis', now + 1) /\ Spread(byRedis', L, W)
  BY <1>2, <1>3, <1>5, TrimKeeps
<1>11. /\ Tallied(byRedis', count', W, now + 1)
       /\ ~(watched \in Auth /\ outage) => Owed(byRedis', byMemory', count', L, W, now + 1)
  BY <1>2, <1>3, <1>5, <1>6, TrimOwes
<1>12. Accounts'
  BY <1>1, <1>9, <1>10, <1>11, AccountsNext DEF W, L, P, b
<1>13. RefusedHasSpent' BY <1>1 DEF RefusedHasSpent
<1> QED BY <1>7, <1>8, <1>12, <1>13 DEF RateInv

LEMMA RestartStep ==
  ASSUME RateInv, Restart
  PROVE  RateInv'
<1> DEFINE W == Window[watched]
           L == MaxAttempts[watched]
           P == L * restarts
           b == bucket[watched]
<1>1. /\ restarts < MaxRestarts /\ restarts' = restarts + 1
      /\ client' = "unset" /\ bucket' = NoBuckets
      /\ UNCHANGED <<now, count, watched, refused, byRedis, byMemory, robbed, outage>>
  BY DEF Restart
<1>2. /\ W \in Nat \ {0} /\ L \in Nat \ {0} /\ P \in Nat /\ now \in Nat /\ restarts \in Nat
      /\ Len(b) \in Nat /\ Len(b) <= L /\ watched \in Keys
  BY WatchedIs DEF RateInv
<1>3. /\ Timely(byRedis, now) /\ Timely(byMemory, now)
      /\ ~robbed => Afresh(byMemory, Len(b), P, W, now)
      /\ Spread(byRedis, L, W) /\ Tallied(byRedis, count, W, now)
      /\ ~(watched \in Auth /\ outage) => Owed(byRedis, byMemory, count, L, W, now)
  BY DEF RateInv, Accounts
<1>4. Len(<<>>) = 0 /\ <<>> \in Seq(Nat) OBVIOUS
<1>5. /\ bucket' \in [Keys -> Seq(Nat)] /\ (bucket')[watched] = <<>>
      /\ \A k \in Keys : (bucket')[k] = <<>>
  BY <1>1, <1>2, <1>4 DEF NoBuckets
<1>6. RateTypes'
  <2>1. \A k \in Keys : Len((bucket')[k]) <= MaxAttempts[k] BY <1>4, <1>5, KeyBudget
  <2>2. restarts' \in 0..MaxRestarts BY <1>1, <1>2, RateBounds
  <2> QED BY <1>1, <1>5, <2>1, <2>2 DEF RateInv, RateTypes
<1>7. TableFits'
  <2>1. {k \in Keys : (bucket')[k] # <<>>} = {} BY <1>5
  <2>2. MaxKeys \in Nat BY RateBounds
  <2> QED BY <2>1, <2>2, FS_EmptySet DEF TableFits, Tracked
<1>8. L * (restarts') = P + L
  <2> HIDE DEF L
  <2>1. \A m \in Nat : L * (m + 1) = L * m + L BY <1>2
  <2> QED BY <1>1, <1>2, <2>1
<1>9. ~robbed => Afresh(byMemory, 0, L * (restarts'), W, now)
  <2> HIDE DEF W, L, P, b
  <2> QED BY <1>2, <1>3, <1>8, RestartKeeps
<1>10. Matches(<<>>, byMemory, W, now) BY <1>4 DEF Matches
<1>11. Accounts' BY <1>1, <1>3, <1>4, <1>5, <1>9, <1>10, AccountsNext
<1>12. RefusedHasSpent' BY <1>1 DEF RateInv, RefusedHasSpent
<1> QED BY <1>6, <1>7, <1>11, <1>12 DEF RateInv

\* A count that was not granted is at the limit or past it, and stays so.
LEMMA AnsweredStep ==
  ASSUME RateInv, RedisAnswered
  PROVE  RateInv'
<1> DEFINE W == Window[watched]
           L == MaxAttempts[watched]
           P == L * restarts
           b == bucket[watched]
           ok == count' <= L
<1>1. /\ count' = Counted /\ byRedis' = Noted(byRedis, watched, ok) /\ refused' = ~ok
      /\ UNCHANGED <<now, client, bucket, watched, byMemory, robbed, outage, restarts>>
  BY DEF RedisAnswered, Result
<1>2. /\ W \in Nat \ {0} /\ L \in Nat \ {0} /\ P \in Nat /\ now \in Nat /\ count \in 0..(L + 1)
      /\ watched \in Keys
  BY WatchedIs DEF RateInv, RateTypes
<1>3. /\ Timely(byRedis, now) /\ Timely(byMemory, now) /\ Matches(b, byMemory, W, now)
      /\ ~robbed => Afresh(byMemory, Len(b), P, W, now)
      /\ Spread(byRedis, L, W) /\ Tallied(byRedis, count, W, now)
      /\ ~(watched \in Auth /\ outage) => Owed(byRedis, byMemory, count, L, W, now)
  BY DEF RateInv, Accounts
<1>4. count' \in 0..(L + 1) /\ (ok => count' = count + 1 /\ count < L) /\ (~ok => count >= L /\ count' >= L)
  BY <1>1, <1>2 DEF Counted
<1>5. byRedis \in Seq(Nat) /\ byMemory \in Seq(Nat) /\ ok \in BOOLEAN BY <1>3 DEF Timely
<1>6. RateTypes' /\ TableFits'
  <2>1. refused' \in BOOLEAN BY <1>1
  <2> QED BY <1>1, <1>4, <2>1 DEF RateInv, RateTypes, TableFits, Tracked
<1>7. CASE ok
  <2>1. Pushed(byRedis', byRedis, now, L)
    <3> HIDE DEF ok
    <3> QED BY <1>1, <1>2, <1>5, <1>7, NotedIs DEF RateInv
  <2>2. count' = count + 1 /\ count < L /\ count \in Nat BY <1>2, <1>4, <1>7
  <2> HIDE DEF W, L, P, b
  <2>3. Timely(byRedis', now) BY <1>2, <1>3, <2>1, PushedIs
  <2>4. /\ Spread(byRedis', L, W) /\ Tallied(byRedis', count', W, now)
        /\ ~(watched \in Auth /\ outage) => Owed(byRedis', byMemory, count', L, W, now)
    BY <1>2, <1>3, <2>1, <2>2, AnswerKeeps
  <2>5. Accounts' BY <1>1, <1>3, <2>3, <2>4, AccountsNext DEF W, L, P, b
  <2>6. refused' = FALSE BY <1>1, <1>7
  <2>7. RefusedHasSpent' BY <2>6 DEF RefusedHasSpent
  <2> QED BY <1>6, <2>5, <2>7 DEF RateInv
<1>8. CASE ~ok
  <2>1. byRedis' = byRedis
    <3> HIDE DEF ok
    <3> QED BY <1>1, <1>2, <1>5, <1>8, NotedIs DEF RateInv
  <2>2. count >= L /\ count' >= L /\ count' >= count /\ count \in Nat /\ count' \in Nat
    BY <1>1, <1>2, <1>4, <1>8 DEF Counted
  <2>3. Len(byRedis) \in Nat /\ Len(byMemory) \in Nat BY <1>5
  <2>4. Tallied(byRedis, count', W, now)
    <3> HIDE DEF W, L, P, b, ok
    <3> QED BY <1>2, <1>3, <2>2, TalliedGrows
  <2>5. ASSUME ~(watched \in Auth /\ outage)
        PROVE  Owed(byRedis, byMemory, count', L, W, now) /\ Len(byRedis) + Len(byMemory) >= L
    <3> HIDE DEF W, L, P, b, ok
    <3>1. PICK x \in 0..Len(byRedis), y \in 0..Len(byMemory) :
            /\ x + y >= count \/ x + y >= L
            /\ x > 0 => Ago(byRedis, x - 1) \div W >= now \div W
            /\ y > 0 => (Ago(byMemory, y - 1) \div W) + 1 >= now \div W
      BY <1>3, <2>5 DEF Owed
    <3>2. x + y >= L /\ x <= Len(byRedis) /\ y <= Len(byMemory) /\ x \in Nat /\ y \in Nat
      BY <1>2, <2>2, <2>3, <3>1
    <3> QED BY <1>2, <2>3, <3>1, <3>2 DEF Owed
  <2>6. Accounts' BY <1>1, <1>3, <2>1, <2>4, <2>5, AccountsNext
  <2>7. RefusedHasSpent' BY <1>1, <2>1, <2>5 DEF RefusedHasSpent
  <2> QED BY <1>6, <2>6, <2>7 DEF RateInv
<1> QED BY <1>7, <1>8

\* A turn in memory, whether there is no Redis or its call failed.
LEMMA MemoryStep ==
  ASSUME RateInv, NEW k \in Keys, InMemory(k),
         now' = now, watched' = watched, byRedis' = byRedis, restarts' = restarts,
         client' \in {"unset", "none", "there"}, outage' \in BOOLEAN, outage => outage',
         count' \in 0..(MaxAttempts[watched] + 1), count' = count \/ (k = watched /\ count' = count + 1)
  PROVE  RateInv'
<1> DEFINE W == Window[watched]
           L == MaxAttempts[watched]
           P == L * restarts
           b == bucket[watched]
           a == Aged(watched)
<1>1. /\ W \in Nat \ {0} /\ L \in Nat \ {0} /\ P \in Nat /\ now \in Nat /\ count \in Nat
      /\ watched \in Keys /\ b \in Seq(Nat)
  BY WatchedIs DEF RateInv
<1>2. /\ Timely(byRedis, now) /\ Timely(byMemory, now) /\ Matches(b, byMemory, W, now)
      /\ ~robbed => Afresh(byMemory, Len(b), P, W, now)
      /\ Spread(byRedis, L, W) /\ Tallied(byRedis, count, W, now)
      /\ ~(watched \in Auth /\ outage) => Owed(byRedis, byMemory, count, L, W, now)
  BY DEF RateInv, Accounts
<1>3. byRedis \in Seq(Nat) /\ byMemory \in Seq(Nat) /\ Len(byRedis) \in Nat /\ Len(byMemory) \in Nat
  BY <1>2 DEF Timely
<1>4. /\ bucket' \in [Keys -> Seq(Nat)] /\ \A j \in Keys : Len((bucket')[j]) <= MaxAttempts[j]
      /\ TableFits' /\ robbed' \in BOOLEAN /\ refused' \in BOOLEAN
  BY <1>3, InMemoryIs DEF RateInv
<1>5. RateTypes' BY <1>4 DEF RateInv, RateTypes
<1>6. L * (restarts') = P OBVIOUS
<1>7. count' \in Nat /\ count' >= count /\ count' \in {count, count + 1} BY <1>1
<1>8. Tallied(byRedis, count', W, now)
  <2> HIDE DEF W, L, P, b, a
  <2> QED BY <1>1, <1>2, <1>7, TalliedGrows
<1>9. CASE k = watched
  <2>1. /\ Trimmed(a, b, W, now) /\ robbed' = robbed
        /\ Len(a) < L => /\ (bucket')[watched] = Append(a, now) /\ refused' = FALSE
                         /\ Pushed(byMemory', byMemory, now, L)
        /\ ~(Len(a) < L) => (bucket')[watched] = a /\ byMemory' = byMemory
    BY <1>3, <1>9, InMemoryIs DEF RateInv
  <2>2. a \in Seq(Nat) /\ Len(a) \in Nat BY <2>1 DEF Trimmed
  <2>3. /\ Matches(a, byMemory, W, now)
        /\ ~robbed => Afresh(byMemory, Len(a), P, W, now)
    <3> HIDE DEF W, L, P, b, a
    <3> QED BY <1>1, <1>2, <2>1, AgedKeeps
  <2>4. CASE Len(a) < L
    <3>1. /\ Timely(byMemory', now) /\ Matches(Append(a, now), byMemory', W, now)
          /\ ~robbed => Afresh(byMemory', Len(Append(a, now)), P, W, now)
      <4> HIDE DEF W, L, P, b, a
      <4> QED BY <1>1, <1>2, <2>1, <2>2, <2>3, <2>4, PushKeeps
    <3>2. ~(watched \in Auth /\ outage) => Owed(byRedis, byMemory', count', L, W, now)
      <4> HIDE DEF W, L, P, b, a
      <4> QED BY <1>1, <1>2, <1>3, <1>7, <2>1, <2>4, NoteOwes
    <3>3. Accounts' BY <1>2, <1>6, <1>8, <2>1, <2>4, <3>1, <3>2, AccountsNext
    <3>4. RefusedHasSpent' BY <2>1, <2>4 DEF RefusedHasSpent
    <3> QED BY <1>4, <1>5, <3>3, <3>4 DEF RateInv
  <2>5. CASE ~(Len(a) < L)
    <3>1. Len(byMemory) >= L /\ Owed(byRedis, byMemory, count', L, W, now)
      <4> HIDE DEF W, L, P, b, a
      <4>1. Len(a) >= L BY <1>1, <2>2, <2>5
      <4> QED BY <1>1, <1>2, <1>3, <2>1, <4>1, RefusalIsOwed
    <3>2. Accounts' BY <1>2, <1>6, <1>8, <2>1, <2>3, <2>5, <3>1, AccountsNext
    <3>3. Len(byRedis) + Len(byMemory) >= L BY <1>1, <1>3, <3>1
    <3>4. RefusedHasSpent' BY <2>1, <2>5, <3>3 DEF RefusedHasSpent
    <3> QED BY <1>4, <1>5, <3>2, <3>4 DEF RateInv
  <2> QED BY <2>4, <2>5
<1>10. CASE k # watched
  <2>1. /\ byMemory' = byMemory /\ refused' = refused /\ count' = count
        /\ \/ (bucket')[watched] = b /\ robbed' = robbed
           \/ /\ (bucket')[watched] = <<>>
              /\ ~(robbed') => ~robbed /\ Len(b) > 0 /\ Ago(b, 0) + W <= now
    BY <1>3, <1>10, InMemoryIs DEF RateInv
  <2>2. RefusedHasSpent' BY <2>1 DEF RefusedHasSpent, RateInv
  <2>3. CASE (bucket')[watched] = b /\ robbed' = robbed
    <3>1. Accounts' BY <1>2, <1>6, <2>1, <2>3, AccountsNext
    <3> QED BY <1>4, <1>5, <2>2, <3>1 DEF RateInv
  <2>4. CASE /\ (bucket')[watched] = <<>>
             /\ ~(robbed') => ~robbed /\ Len(b) > 0 /\ Ago(b, 0) + W <= now
    <3>1. Len(<<>>) = 0 OBVIOUS
    <3>2. Matches(<<>>, byMemory, W, now) BY <3>1 DEF Matches
    <3>3. ~(robbed') => Afresh(byMemory, 0, P, W, now)
      <4> HIDE DEF W, L, P, b, a
      <4> QED BY <1>1, <1>2, <2>4, DropKeeps
    <3>4. Accounts' BY <1>2, <1>6, <2>1, <2>4, <3>1, <3>2, <3>3, AccountsNext
    <3> QED BY <1>4, <1>5, <2>2, <3>4 DEF RateInv
  <2> QED BY <2>1, <2>3, <2>4
<1> QED BY <1>9, <1>10

LEMMA FailedStep ==
  ASSUME RateInv, NEW k \in Keys, RedisFailed(k)
  PROVE  RateInv'
<1>1. /\ count \in 0..(MaxAttempts[watched] + 1) /\ MaxAttempts[watched] \in Nat \ {0} /\ count \in Nat
      /\ client \in {"unset", "none", "there"} /\ outage \in BOOLEAN
  BY WatchedIs DEF RateInv, RateTypes
<1>2. /\ outage' = (outage \/ k = watched)
      /\ count' \in {count} \cup {Counted : j \in {k} \cap {watched}}
      /\ UNCHANGED <<now, client, watched, byRedis, restarts>>
  BY DEF RedisFailed
<1>3. count' \in 0..(MaxAttempts[watched] + 1) /\ (count' = count \/ (k = watched /\ count' = count + 1))
  BY <1>1, <1>2 DEF Counted
<1>4. CASE ~FailsClosed(k)
  <2>1. InMemory(k) BY <1>4 DEF RedisFailed
  <2>2. outage' \in BOOLEAN /\ (outage => outage') /\ client' \in {"unset", "none", "there"}
    BY <1>1, <1>2
  <2> QED BY <1>2, <1>3, <2>1, <2>2, MemoryStep
<1>5. CASE FailsClosed(k)
  <2>1. Result(k, FALSE) /\ UNCHANGED <<bucket, byMemory, robbed>> BY <1>5 DEF RedisFailed
  <2>2. k \in Auth BY <1>5 DEF FailsClosed
  <2>3. RateTypes' /\ TableFits'
    <3>1. refused' \in BOOLEAN BY <2>1 DEF Result, RateInv, RateTypes
    <3>2. outage' \in BOOLEAN BY <1>1, <1>2
    <3> QED BY <1>2, <1>3, <2>1, <3>1, <3>2 DEF RateInv, RateTypes, TableFits, Tracked
  <2>4. /\ Timely(byRedis, now) /\ Timely(byMemory, now)
        /\ Matches(bucket[watched], byMemory, Window[watched], now)
        /\ ~robbed =>
             Afresh(byMemory, Len(bucket[watched]), MaxAttempts[watched] * restarts, Window[watched], now)
        /\ Spread(byRedis, MaxAttempts[watched], Window[watched])
        /\ Tallied(byRedis, count, Window[watched], now)
        /\ ~(watched \in Auth /\ outage) =>
             Owed(byRedis, byMemory, count, MaxAttempts[watched], Window[watched], now)
    BY DEF RateInv, Accounts
  <2>5. Tallied(byRedis, count', Window[watched], now)
    <3>1. now \in Nat /\ Window[watched] \in Nat \ {0} BY WatchedIs DEF RateInv
    <3>2. count' \in Nat /\ count <= count' BY <1>1, <1>3
    <3> QED BY <1>1, <2>4, <3>1, <3>2, TalliedGrows
  <2>6. ~(watched \in Auth /\ outage') =>
          Owed(byRedis, byMemory, count', MaxAttempts[watched], Window[watched], now)
    <3>1. CASE k = watched BY <1>2, <2>2, <3>1
    <3>2. CASE k # watched BY <1>2, <1>3, <2>4, <3>2
    <3> QED BY <3>1, <3>2
  <2>7. Accounts' BY <1>2, <2>1, <2>4, <2>5, <2>6, AccountsNext
  <2>8. RefusedHasSpent'
    <3>1. CASE k = watched BY <1>2, <2>2, <3>1 DEF RefusedHasSpent
    <3>2. CASE k # watched
      <4>1. refused' = refused /\ outage' = outage BY <1>1, <1>2, <2>1, <3>2 DEF Result
      <4> QED BY <1>2, <2>1, <4>1 DEF RateInv, RefusedHasSpent
    <3> QED BY <3>1, <3>2
  <2> QED BY <2>3, <2>7, <2>8 DEF RateInv
<1> QED BY <1>4, <1>5

LEMMA WithoutRedisStep ==
  ASSUME RateInv, NEW k \in Keys, WithoutRedis(k)
  PROVE  RateInv'
<1>1. /\ InMemory(k) /\ UNCHANGED <<now, client, count, watched, byRedis, outage, restarts>>
  BY DEF WithoutRedis
<1>2. /\ client \in {"unset", "none", "there"} /\ outage \in BOOLEAN
      /\ count \in 0..(MaxAttempts[watched] + 1)
  BY DEF RateInv, RateTypes
<1> QED BY <1>1, <1>2, MemoryStep

LEMMA ResolveStep ==
  ASSUME RateInv, Resolve \/ UNCHANGED rateVars
  PROVE  RateInv'
<1>1. /\ UNCHANGED <<now, count, bucket, history>>
      /\ client' \in {"unset", "none", "there"}
  BY DEF Resolve, rateVars, limiter, RateInv, RateTypes
<1>2. UNCHANGED <<now, count, bucket, watched, refused, byRedis, byMemory, robbed, outage, restarts>>
  BY <1>1 DEF history
<1>3. Accounts' BY <1>2 DEF RateInv, Accounts
<1>4. RateTypes' /\ TableFits' BY <1>1, <1>2 DEF RateInv, RateTypes, TableFits, Tracked
<1>5. RefusedHasSpent' BY <1>2 DEF RateInv, RefusedHasSpent
<1> QED BY <1>3, <1>4, <1>5 DEF RateInv

LEMMA RateInvInit ==
  ASSUME RateInit
  PROVE  RateInv
<1>1. /\ now = 0 /\ client = "unset" /\ bucket = NoBuckets /\ watched \in Keys /\ count = 0
      /\ refused = FALSE /\ byRedis = <<>> /\ byMemory = <<>>
      /\ robbed = FALSE /\ outage = FALSE /\ restarts = 0
  BY DEF RateInit
<1>2. Len(<<>>) = 0 /\ <<>> \in Seq(Nat) OBVIOUS
<1>3. MaxAttempts[watched] \in Nat \ {0} /\ Window[watched] \in Nat \ {0} BY <1>1, KeyBudget
<1>4. bucket \in [Keys -> Seq(Nat)] /\ \A k \in Keys : bucket[k] = <<>> BY <1>1, <1>2 DEF NoBuckets
<1>5. RateTypes
  <2>1. \A k \in Keys : Len(bucket[k]) <= MaxAttempts[k] BY <1>2, <1>4, KeyBudget
  <2>2. now \in 0..MaxTime /\ restarts \in 0..MaxRestarts BY <1>1, RateBounds
  <2>3. count \in 0..(MaxAttempts[watched] + 1) BY <1>1, <1>3
  <2> QED BY <1>1, <1>4, <2>1, <2>2, <2>3 DEF RateTypes
<1>6. TableFits
  <2>1. Tracked = {} BY <1>4 DEF Tracked
  <2> QED BY <2>1, FS_EmptySet, RateBounds DEF TableFits
<1>7. Timely(byRedis, now) /\ Timely(byMemory, now) BY <1>1, <1>2 DEF Timely
<1>8. Matches(bucket[watched], byMemory, Window[watched], now) BY <1>1, <1>2, <1>4 DEF Matches
<1>9. Afresh(byMemory, Len(bucket[watched]), MaxAttempts[watched] * restarts, Window[watched], now)
  <2>1. MaxAttempts[watched] * 0 = 0 BY <1>3
  <2> QED BY <1>1, <1>2, <1>4, <2>1 DEF Afresh
<1>10. Spread(byRedis, MaxAttempts[watched], Window[watched])
  <2> SUFFICES ASSUME NEW i \in Nat, i + MaxAttempts[watched] < Len(byRedis) PROVE FALSE BY DEF Spread
  <2> QED BY <1>1, <1>2, <1>3
<1>11. Tallied(byRedis, count, Window[watched], now) BY <1>1, <1>2 DEF Tallied
<1>12. Owed(byRedis, byMemory, count, MaxAttempts[watched], Window[watched], now)
  <2>1. 0 \in 0..Len(byRedis) /\ 0 \in 0..Len(byMemory) /\ 0 + 0 >= count BY <1>1, <1>2
  <2> QED BY <2>1 DEF Owed
<1>13. Accounts BY <1>7, <1>8, <1>9, <1>10, <1>11, <1>12 DEF Accounts
<1>14. RefusedHasSpent BY <1>1 DEF RefusedHasSpent
<1> QED BY <1>5, <1>6, <1>13, <1>14 DEF RateInv

LEMMA RateInvNext ==
  ASSUME RateInv, [RateNext]_rateVars
  PROVE  RateInv'
<1>1. ASSUME NEW k \in Keys, WithoutRedis(k) \/ RedisFailed(k) PROVE RateInv'
  BY <1>1, WithoutRedisStep, FailedStep
<1> QED BY <1>1, TickStep, ResolveStep, RestartStep, AnsweredStep DEF RateNext

\* The accounts are true of every state: the bucket is the end of the history of the
\* memory, no slot of Redis holds more than the limit, and the count of the current slot
\* is of admissions that have not left the history.
THEOREM RateInvariant == RateSpec => []RateInv
<1>1. RateInit => RateInv BY RateInvInit
<1>2. RateInv /\ [RateNext]_rateVars => RateInv' BY RateInvNext
<1> QED BY <1>1, <1>2, PTL DEF RateSpec

LEMMA InvTypes == RateInv => RateTypeOK
<1> SUFFICES ASSUME RateInv PROVE RateTypeOK OBVIOUS
<1> QED BY DEF RateInv, RateTypes, TableFits, RateTypeOK

\* Types, and the map never tracks more than RATE_LIMIT_MAX_KEYS identities.
THEOREM RateTypeCorrect == RateSpec => []RateTypeOK
BY InvTypes, RateInvariant, PTL

LEMMA InvBounded == RateInv => WindowBounded
<1> SUFFICES ASSUME RateInv PROVE WindowBounded OBVIOUS
<1> DEFINE W == Window[watched]
           L == MaxAttempts[watched]
           P == L * restarts
           m == Len(bucket[watched])
           q == Within(byMemory, W, now)
           r == Within(byRedis, W, now)
<1>1. /\ W \in Nat \ {0} /\ L \in Nat \ {0} /\ P \in Nat /\ now \in Nat /\ restarts \in Nat
      /\ m \in Nat /\ m <= L
  BY WatchedIs DEF RateInv
<1>2. /\ Timely(byRedis, now) /\ Timely(byMemory, now) /\ Spread(byRedis, L, W)
      /\ ~robbed => Afresh(byMemory, m, P, W, now)
  BY DEF RateInv, Accounts
<1>3. byRedis \in Seq(Nat) /\ byMemory \in Seq(Nat) BY <1>2 DEF Timely
<1>4. Trimmed(q, byMemory, W, now) /\ Trimmed(r, byRedis, W, now) BY <1>1, <1>3, WithinTrims
<1>5. L * (restarts + 1) = P + L
  <2> HIDE DEF L
  <2>1. \A n \in Nat : L * (n + 1) = L * n + L BY <1>1
  <2> QED BY <1>1, <2>1
<1>6. ~robbed => Len(q) <= m + P
  <2> HIDE DEF W, L, P, m, q
  <2> QED BY <1>1, <1>2, <1>4, MemoryBounded
<1>7. Len(r) <= 2 * L
  <2> HIDE DEF W, L, P, r
  <2> QED BY <1>1, <1>2, <1>4, RedisBounded
<1>8. ~robbed => Len(q) <= L * (restarts + 1)
  <2>1. Len(q) \in Nat BY <1>4 DEF Trimmed
  <2> HIDE DEF W, L, P, m, q
  <2> QED BY <1>1, <1>5, <1>6, <2>1
<1> QED BY <1>7, <1>8 DEF WindowBounded

\* No identity gets more attempts in a window of its own than its limit for each life of
\* the server from memory, nor than twice its limit from Redis, unless its live bucket was
\* dropped: for any identities that share the map and any failures of Redis.
THEOREM RateIsBounded == RateSpec => []WindowBounded
BY InvBounded, RateInvariant, PTL

LEMMA InvSpent == RateInv => RefusedHasSpent
BY DEF RateInv

\* Outside the sign-in doors in an outage, whoever is refused was admitted as often as the
\* limit within two windows, however Redis and the memory took turns.
THEOREM RefusalIsEarned == RateSpec => []RefusedHasSpent
BY InvSpent, RateInvariant, PTL
=============================================================================
