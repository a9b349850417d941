---------------------------- MODULE StoreGateProofs ----------------------------
(***************************************************************************)
(* Proofs about StoreGate, for any number of requests, workers, handoffs   *)
(* and restarts: every variable keeps its kind, one thread polls the gate, *)
(* an owner who types gets one runner, and for such an owner nobody builds *)
(* nor is another handoff answered while one awaits the gate, unless a     *)
(* green build was adopted beside a live thread.                           *)
(***************************************************************************)
EXTENDS StoreGate, TLAPS

Polling == {"open", "poll", "judge", "leave"}

\* Where a thread of a role may be.
PcsOf(role) ==
  CASE role \in Doors    -> {"door", "launch", "stamp", "open", "poll", "judge"}
    [] role = "waiter"   -> {"join"} \cup Polling
    [] role = "runner"   -> {"enter", "build", "join", "verdict"} \cup Polling
    [] role = "none"     -> {"idle"}

\* What the state of thread t may be: its role is one of its pool's, and what it
\* polls and saw is there when it is used.
GoodThread(t, v) ==
  /\ v \in ThreadStates /\ v.pc \in PcsOf(v.role)
  /\ t \in Requests => v.role \in Doors \cup {"none"}
  /\ t \in Workers => v.role \in {"waiter", "runner", "none"}
  /\ v.role = "none" => v = Idle
  /\ v.pc \in {"poll", "judge"} => v.of > 0
  /\ v.pc = "judge" => v.saw # "none"

GoodThreads == th \in [Threads -> ThreadStates] /\ \A t \in Threads : GoodThread(t, th[t])

\* A handoff is counted when it opens, and a server that is down runs nothing.
Bookkeeping ==
  /\ ledger.handoff => handoffs > 0
  /\ \A t \in Threads : GoodThread(t, th[t])
  /\ ~up => slot = None /\ runner = None /\ \A t \in Threads : th[t] = Idle

Registered == \A w \in Workers : th[w].pc \in Polling => slot = w

TInv == TypeOK /\ Bookkeeping

LEMMA IdleType == Idle \in ThreadStates
BY BoundsAreNumbers DEF Idle, ThreadStates, Pcs

LEMMA FreeWorkerType ==
  ASSUME IdleWorkers # {}
  PROVE  FreeWorker \in Workers /\ th[FreeWorker].pc = "idle"
BY DEF FreeWorker, IdleWorkers, At

LEMMA DownFree ==
  ASSUME TInv, ~up
  PROVE  IdleWorkers # {}
BY WorkersExist DEF TInv, Bookkeeping, IdleWorkers, At, Idle, Threads

\* A ledger after an event, and whether a handoff can be open in it.
LEMMA Writes ==
  ASSUME NEW l \in Ledgers, NEW e \in Events
  PROVE  /\ Appended(l, e) \in Ledgers
         /\ Appended(l, e).handoff => l.handoff \/ e.outcome = "HANDOFF_TO_N3"
<1>1. VerdictsAfter(l, e) \in [BuildRole -> Verdicts] /\ RunningAfter(l, e) \in SUBSET BuildRole
  BY DEF VerdictsAfter, RunningAfter, SetsVerdict, Verdicts, Ledgers
<1>2. TerminalAfter(l, e) \in Terminals
  BY DEF TerminalAfter, NoVerdict, Terminals, Ledgers, Events, Outcomes
<1>3. ReopeningAfter(e) \in SUBSET Failures /\ NamesAfter(l, e) \in SUBSET Failures
  BY DEF ReopeningAfter, NamesAfter, Ledgers, Events
<1>4. SpentAfter(l, e) \in [ReworkGates -> Nat] BY DEF SpentAfter, Ledgers
<1>5. PilotAfter(l, e) \in BOOLEAN /\ GreenAfter(l, e) \in BOOLEAN /\ HandoffAfter(l, e) \in BOOLEAN
  BY DEF PilotAfter, GreenAfter, HandoffAfter
<1>6. InputsAfter(l, e) \in Inputs \cup {"none"} BY DEF InputsAfter, Ledgers, Events
<1>7. Appended(l, e) \in Ledgers BY <1>1, <1>2, <1>3, <1>4, <1>5, <1>6 DEF Appended, Ledgers
<1> QED BY <1>7 DEF Appended, HandoffAfter

\* The events of this module.
LEMMA EventTypes ==
  /\ Note \in Events /\ BudgetReset \in Events /\ RunStarted("bp") \in Events
  /\ PhaseStarted("WRITER") \in Events /\ GatePassed("WRITER") \in Events
  /\ GateFailed("WRITER") \in Events /\ GatePassed("STORE_MANAGER") \in Events
  /\ N3Passed("STORE_MANAGER") \in Events
  /\ N3Failed({"store"}) \in Events /\ N3Failed({}) \in Events
  /\ RunSucceeded("SUCCESS", "pilot") \in Events
  /\ RunFailed("WRITER", "HANDOFF_TO_N3", {}) \in Events
  /\ RunFailed("STORE_MANAGER", "HANDOFF_TO_N3", {}) \in Events
  /\ RunFailed("WRITER", "FAILED_GATE", {}) \in Events
  /\ RunFailed("STORE_MANAGER", "FAILED_GATE", {}) \in Events
  /\ RunFailed("none", "FAILED_ROLE_ERROR", {}) \in Events
  /\ Rework("STORE_MANAGER", {"store"}, {"WRITER", "TESTER", "STORE_MANAGER"}) \in Events
<1>1. Note \in Events /\ BudgetReset \in Events /\ RunStarted("bp") \in Events
  BY BlueprintNamed DEF Events, EventKinds, Outcomes, Note, BudgetReset, RunStarted
<1>2. /\ PhaseStarted("WRITER") \in Events /\ GatePassed("WRITER") \in Events
      /\ GateFailed("WRITER") \in Events /\ GatePassed("STORE_MANAGER") \in Events
      /\ N3Passed("STORE_MANAGER") \in Events
  BY DEF Events, EventKinds, Outcomes, PhaseKinds, BuildRole, Note, PhaseStarted, GatePassed, GateFailed,
         N3Passed
<1>3. ASSUME NEW r \in BuildRole \cup {"none"}, NEW o \in Outcomes, NEW F \in SUBSET Failures
      PROVE  RunFailed(r, o, F) \in Events /\ N3Failed(F) \in Events
  <2>1. RunFailed(r, o, F) \in Events BY DEF Events, EventKinds, Note, RunFailed
  <2>2. RunFailed("STORE_MANAGER", "FAILED_GATE", F) \in Events
    BY DEF Events, EventKinds, Outcomes, BuildRole, Note, RunFailed
  <2>3. N3Failed(F) \in Events BY <2>2 DEF N3Failed, Events
  <2> QED BY <2>1, <2>3
<1>4. RunSucceeded("SUCCESS", "pilot") \in Events
  BY DEF Events, EventKinds, Outcomes, Note, RunSucceeded
<1>5. {"store"} \in SUBSET Failures /\ {} \in SUBSET Failures BY StoreFailureNamed
<1>6. Rework("STORE_MANAGER", {"store"}, {"WRITER", "TESTER", "STORE_MANAGER"}) \in Events
  BY <1>5 DEF Events, EventKinds, Outcomes, BuildRole, ReworkGates, Note, Rework
<1>7. {"WRITER", "STORE_MANAGER"} \subseteq BuildRole
      /\ {"HANDOFF_TO_N3", "FAILED_GATE", "FAILED_ROLE_ERROR"} \subseteq Outcomes
  BY DEF BuildRole, Outcomes
<1> QED BY <1>1, <1>2, <1>3, <1>4, <1>5, <1>6, <1>7

\* The events that open no handoff.
LEMMA NoHandoff ==
  /\ Note.outcome # "HANDOFF_TO_N3" /\ BudgetReset.outcome # "HANDOFF_TO_N3"
  /\ RunStarted("bp").outcome # "HANDOFF_TO_N3"
  /\ PhaseStarted("WRITER").outcome # "HANDOFF_TO_N3"
  /\ GatePassed("WRITER").outcome # "HANDOFF_TO_N3"
  /\ GateFailed("WRITER").outcome # "HANDOFF_TO_N3"
  /\ GatePassed("STORE_MANAGER").outcome # "HANDOFF_TO_N3"
  /\ N3Passed("STORE_MANAGER").outcome # "HANDOFF_TO_N3"
  /\ N3Failed({"store"}).outcome # "HANDOFF_TO_N3" /\ N3Failed({}).outcome # "HANDOFF_TO_N3"
  /\ RunSucceeded("SUCCESS", "pilot").outcome # "HANDOFF_TO_N3"
  /\ RunFailed("WRITER", "FAILED_GATE", {}).outcome # "HANDOFF_TO_N3"
  /\ RunFailed("STORE_MANAGER", "FAILED_GATE", {}).outcome # "HANDOFF_TO_N3"
  /\ RunFailed("none", "FAILED_ROLE_ERROR", {}).outcome # "HANDOFF_TO_N3"
  /\ Rework("STORE_MANAGER", {"store"}, {"WRITER", "TESTER", "STORE_MANAGER"}).outcome
       # "HANDOFF_TO_N3"
BY DEF Note, BudgetReset, RunStarted, PhaseStarted, GatePassed, GateFailed, N3Passed, N3Failed,
       RunSucceeded, RunFailed, Rework

\* A ledger that opened no handoff in this step.
Kept == ledger' \in Ledgers /\ (ledger'.handoff => ledger.handoff)

-----------------------------------------------------------------------------
(* Types and bookkeeping.                                                   *)

LEMMA GoodIdle ==
  ASSUME NEW t
  PROVE  GoodThread(t, Idle)
BY IdleType DEF GoodThread, Idle, PcsOf, Doors, ChatDoors

LEMMA GoodNow ==
  ASSUME TInv
  PROVE  GoodThreads
BY DEF TInv, TypeOK, Bookkeeping, GoodThreads

LEMMA OneThread ==
  ASSUME GoodThreads, NEW t \in Threads, NEW v, GoodThread(t, v), th' = [th EXCEPT ![t] = v]
  PROVE  GoodThreads' /\ th'[t] = v /\ \A u \in Threads \ {t} : th'[u] = th[u]
<1>1. v \in ThreadStates BY DEF GoodThread
<1>2. th' \in [Threads -> ThreadStates] /\ th'[t] = v /\ \A u \in Threads \ {t} : th'[u] = th[u]
  BY <1>1 DEF GoodThreads
<1>3. \A u \in Threads : GoodThread(u, th'[u]) BY <1>2 DEF GoodThreads
<1>4. GoodThreads' BY <1>2, <1>3 DEF GoodThreads, GoodThread
<1> QED BY <1>2, <1>4

LEMMA TwoThreads ==
  ASSUME GoodThreads, NEW t \in Threads, NEW w \in Threads, NEW v, GoodThread(w, v),
         th' = [th EXCEPT ![t] = Idle, ![w] = v]
  PROVE  /\ GoodThreads' /\ th'[w] = v /\ (t # w => th'[t] = Idle)
         /\ \A u \in Threads \ {t, w} : th'[u] = th[u]
<1>1. v \in ThreadStates BY DEF GoodThread
<1>2. /\ th' \in [Threads -> ThreadStates] /\ th'[w] = v /\ (t # w => th'[t] = Idle)
      /\ \A u \in Threads \ {t, w} : th'[u] = th[u]
  BY <1>1, IdleType DEF GoodThreads
<1>3. \A u \in Threads : GoodThread(u, th'[u]) BY <1>2, GoodIdle DEF GoodThreads
<1>4. GoodThreads' BY <1>2, <1>3 DEF GoodThreads, GoodThread
<1> QED BY <1>2, <1>4

\* A thread that moves on, to a place where it holds nothing it has not read.
LEMMA Going ==
  ASSUME GoodThreads, NEW t \in Threads, NEW pc \in PcsOf(th[t].role) \ {"idle", "poll", "judge"},
         Goes(t, pc)
  PROVE  GoodThreads' /\ th'[t].pc = pc
         /\ \A u \in Threads \ {t} : th'[u] = th[u]
<1>1. GoodThread(t, th[t]) BY DEF GoodThreads
<1>2. pc \in Pcs /\ th[t].role # "none"
  BY <1>1 DEF PcsOf, Polling, Pcs, Doors, ChatDoors, GoodThread, ThreadStates
<1>3. GoodThread(t, [th[t] EXCEPT !.pc = pc]) BY <1>1, <1>2 DEF GoodThread, ThreadStates
<1>4. th' = [th EXCEPT ![t] = [th[t] EXCEPT !.pc = pc]] BY DEF Goes
<1>5. [th[t] EXCEPT !.pc = pc].pc = pc BY <1>1 DEF GoodThread, ThreadStates
<1> QED BY <1>3, <1>4, <1>5, OneThread

LEMMA Ending ==
  ASSUME GoodThreads, NEW t \in Threads, Ends(t)
  PROVE  GoodThreads' /\ th'[t] = Idle /\ \A u \in Threads \ {t} : th'[u] = th[u]
BY GoodIdle, OneThread DEF Ends

\* A worker that is started: to wait, or to run.
LEMMA Fresh ==
  ASSUME NEW w \in Workers
  PROVE  /\ GoodThread(w, [Idle EXCEPT !.role = "waiter", !.pc = "join"])
         /\ GoodThread(w, [Idle EXCEPT !.role = "runner", !.pc = "enter"])
BY IdleType, ThreadsAreDistinct DEF GoodThread, ThreadStates, Idle, PcsOf, Doors, ChatDoors, Pcs

LEMMA InitTInv == Init => TInv
<1> SUFFICES ASSUME Init PROVE TInv OBVIOUS
<1>1. ledger \in Ledgers /\ ~ledger.handoff
  BY DEF Init, EmptyLedger, Ledgers, Terminals, NoVerdict, Verdicts, Outcomes
<1>2. \A t \in Threads : th[t] = Idle BY DEF Init
<1>3. th \in [Threads -> ThreadStates] BY IdleType DEF Init
<1>6. byFloor \in BOOLEAN /\ adopted \in BOOLEAN BY DEF Init
<1>4. TypeOK BY <1>1, <1>3, <1>6, BoundsAreNumbers DEF TypeOK, Init
<1>5. \A t \in Threads : GoodThread(t, th[t]) BY <1>2, GoodIdle
<1> QED BY <1>1, <1>2, <1>4, <1>5 DEF TInv, Bookkeeping, Init

LEMMA Watching ==
  ASSUME TInv, NEW t \in Threads, Watch(t)
  PROVE  GoodThreads' /\ slot' \in Workers \cup {None}
<1>1. GoodThreads BY GoodNow
<1>2. CASE slot # None BY <1>1, <1>2, Ending DEF Watch, TInv, TypeOK
<1>3. CASE slot = None
  <2>1. FreeWorker \in Workers /\ slot' = FreeWorker BY <1>3, FreeWorkerType DEF Watch
  <2>2. GoodThread(FreeWorker, [Idle EXCEPT !.role = "waiter", !.pc = "join"])
    BY <2>1, Fresh
  <2>3. th' = [th EXCEPT ![t] = Idle,
                         ![FreeWorker] = [Idle EXCEPT !.role = "waiter", !.pc = "join"]]
    BY <1>3 DEF Watch
  <2> QED BY <1>1, <2>1, <2>2, <2>3, TwoThreads DEF Threads
<1> QED BY <1>2, <1>3

LEMMA Rewatching ==
  ASSUME TInv, ~up, Rewatch(FreeWorker)
  PROVE  GoodThreads' /\ slot' \in Workers \cup {None}
<1>1. GoodThreads BY GoodNow
<1>2. FreeWorker \in Workers BY DownFree, FreeWorkerType
<1>3. GoodThread(FreeWorker, [Idle EXCEPT !.role = "waiter", !.pc = "join"])
  BY <1>2, Fresh
<1>4. CASE ledger.handoff BY <1>1, <1>2, <1>3, <1>4, OneThread DEF Rewatch, Threads
<1>5. CASE ~ledger.handoff
  BY <1>1, <1>5 DEF Rewatch, TInv, TypeOK, GoodThreads, GoodThread
<1> QED BY <1>4, <1>5

\* The kinds of everything but the threads.
Kinds ==
  /\ ledger \in Ledgers /\ handoffs \in 0..MaxHandoffs /\ up \in BOOLEAN
  /\ ledger.handoff => handoffs > 0
  /\ gate \in [1..MaxHandoffs -> Answers \cup {"pending"}]
  /\ slot \in Workers \cup {None} /\ runner \in Workers \cup {None}
  /\ answers \subseteq [for : 0..MaxHandoffs, of : 1..MaxHandoffs, saw : Answers]
  /\ lapsed \in 0..MaxHandoffs /\ byFloor \in BOOLEAN /\ adopted \in BOOLEAN
  /\ asked \in 0..MaxRequests /\ crashes \in 0..MaxCrashes

LEMMA KindsNow == TInv => Kinds
BY DEF TInv, TypeOK, Bookkeeping, Kinds

LEMMA Assembled ==
  ASSUME Kinds', GoodThreads', up'
  PROVE  TInv'
BY DEF TInv, TypeOK, Bookkeeping, Kinds, GoodThreads, GoodThread

\* A thread that takes a step is running, so the server is up.
LEMMA RunsUp ==
  ASSUME TInv, NEW t \in Threads, th[t].pc # "idle"
  PROVE  up
BY DEF TInv, Bookkeeping, Idle

LEMMA ThreadOf ==
  ASSUME TInv, NEW t \in Threads
  PROVE  th[t] \in ThreadStates /\ GoodThread(t, th[t])
BY GoodNow DEF GoodThreads

\* What the place of a thread says of its role, and the role of its places.
LEMMA RoleAt ==
  ASSUME TInv, NEW t \in Threads
  PROVE  /\ th[t].pc \in {"door", "launch", "stamp"} => th[t].role \in Doors
         /\ th[t].pc \in {"enter", "build", "verdict"} => th[t].role = "runner"
         /\ th[t].pc \in {"join", "leave"} => th[t].role \in {"waiter", "runner"}
         /\ th[t].role \in {"waiter", "runner"} => t \in Workers
<1>1. GoodThread(t, th[t]) BY ThreadOf
<1>2. th[t].role \in {"waiter", "runner", "none"} \cup Doors BY <1>1 DEF GoodThread, ThreadStates
<1>3. th[t].pc \in PcsOf(th[t].role) BY <1>1 DEF GoodThread
<1>4. CASE th[t].role \in Doors
  BY <1>1, <1>3, <1>4 DEF PcsOf, GoodThread, Doors, ChatDoors, Threads
<1>5. CASE th[t].role = "waiter"
  BY <1>1, <1>3, <1>5 DEF PcsOf, Polling, GoodThread, Doors, ChatDoors, Threads
<1>6. CASE th[t].role = "runner"
  BY <1>1, <1>3, <1>6 DEF PcsOf, Polling, GoodThread, Doors, ChatDoors, Threads
<1>7. CASE th[t].role = "none"
  BY <1>1, <1>3, <1>7 DEF PcsOf, GoodThread, Doors, ChatDoors, Idle
<1> QED BY <1>2, <1>4, <1>5, <1>6, <1>7

LEMMA Places ==
  /\ \A role \in Doors : {"open", "launch", "stamp"} \subseteq PcsOf(role) \ {"idle", "poll", "judge"}
  /\ \A role \in {"waiter", "runner"} :
       {"open", "leave"} \subseteq PcsOf(role) \ {"idle", "poll", "judge"}
  /\ {"enter", "build", "join", "verdict"} \subseteq PcsOf("runner") \ {"idle", "poll", "judge"}
BY DEF PcsOf, Doors, ChatDoors, Polling

\* Whoever is about to read the gate has a role in which it may.
LEMMA MayPoll ==
  ASSUME TInv, NEW t \in Threads, th[t].pc \in {"open", "poll"}
  PROVE  {"poll", "judge"} \subseteq PcsOf(th[t].role) /\ th[t].role # "none"
<1>1. GoodThread(t, th[t]) BY ThreadOf
<1>2. th[t].role \in {"waiter", "runner"} \cup Doors
  BY <1>1 DEF GoodThread, ThreadStates, Idle
<1> QED BY <1>2 DEF PcsOf, Doors, ChatDoors, Polling

LEMMA DoorSteps ==
  ASSUME TInv, NEW t \in Threads, FloorDoor(t) \/ Adopt(t) \/ HttpDoor(t) \/ Stamp(t)
  PROVE  TInv'
<1>1. GoodThreads /\ Kinds BY GoodNow, KindsNow
<1>2. th[t].role \in Doors
  BY RoleAt DEF FloorDoor, Adopt, HttpDoor, Stamp, At
<1>3. /\ {"open", "launch", "stamp"} \subseteq PcsOf(th[t].role) \ {"idle", "poll", "judge"}
      /\ th[t].pc # "idle"
  BY <1>2, Places DEF FloorDoor, Adopt, HttpDoor, Stamp, At
<1>4. CASE FloorDoor(t)
  <2>1. GoodThreads' BY <1>1, <1>3, <1>4, Going, Ending DEF FloorDoor, Continues, Approves
  <2>2. Kinds' BY <1>1, <1>4 DEF FloorDoor, Kinds, shared, history, bounds
  <2>3. up' BY <1>3, <1>4, RunsUp DEF FloorDoor, shared
  <2> QED BY <2>1, <2>2, <2>3, Assembled
<1>5. CASE HttpDoor(t)
  <2>1. Ends(t) \/ Goes(t, "launch") \/ Goes(t, "stamp") BY <1>5 DEF HttpDoor
  <2>2. GoodThreads' BY <1>1, <1>3, <2>1, Going, Ending
  <2>3. Kinds' BY <1>1, <1>5 DEF HttpDoor, Kinds, shared, history, bounds
  <2>4. up' BY <1>3, <1>5, RunsUp DEF HttpDoor, shared
  <2> QED BY <2>2, <2>3, <2>4, Assembled
<1>6. CASE Stamp(t)
  <2>1. GoodThreads' BY <1>1, <1>3, <1>6, Going, Ending DEF Stamp
  <2>2. up' BY <1>3, <1>6, RunsUp DEF Stamp
  <2>3. CASE UNCHANGED <<ledger, handoffs>>
    <3>1. Kinds' BY <1>1, <1>6, <2>3 DEF Stamp, Kinds, history, bounds
    <3> QED BY <2>1, <2>2, <3>1, Assembled
  <2>4. CASE ~UNCHANGED <<ledger, handoffs>>
    <3>1. handoffs < MaxHandoffs /\ handoffs' = handoffs + 1 BY <1>6, <2>4 DEF Stamp
    <3>2. ledger' = Appended(IF Exists(ledger) THEN ledger
                             ELSE Appended(ledger, RunStarted("bp")),
                             RunFailed("WRITER", "HANDOFF_TO_N3", {}))
      BY <1>6, <2>4 DEF Stamp
    <3>3. ledger' \in Ledgers BY <1>1, <3>2, Writes, EventTypes DEF Kinds
    <3>4. handoffs' \in 0..MaxHandoffs /\ handoffs' > 0
      BY <1>1, <3>1, BoundsAreNumbers DEF Kinds
    <3>5. Kinds' BY <1>1, <1>6, <3>3, <3>4 DEF Stamp, Kinds, history, bounds
    <3> QED BY <2>1, <2>2, <3>5, Assembled
  <2> QED BY <2>3, <2>4
<1>7. CASE Adopt(t)
  <2>1. GoodThreads' BY <1>1, <1>3, <1>7, Going DEF Adopt
  <2>2. up' BY <1>3, <1>7, RunsUp DEF Adopt
  <2>3. ledger' \in Ledgers BY <1>1, <1>7, Writes, EventTypes DEF Adopt, Kinds
  <2>4. handoffs' \in 0..MaxHandoffs /\ handoffs' > 0
    BY <1>1, <1>7, BoundsAreNumbers DEF Adopt, Kinds
  <2>5. gate' \in [1..MaxHandoffs -> Answers \cup {"pending"}]
    BY <1>1, <1>7 DEF Adopt, Kinds, Answers
  <2>6. adopted' \in BOOLEAN BY <1>7, Zenon DEF Adopt
  <2>7. Kinds' BY <1>1, <1>7, <2>3, <2>4, <2>5, <2>6 DEF Adopt, Kinds, bounds
  <2> QED BY <2>1, <2>2, <2>7, Assembled
<1> QED BY <1>4, <1>5, <1>6, <1>7

\* A ledger after two events that open no handoff.
LEMMA WritesTwo ==
  ASSUME NEW l \in Ledgers, NEW d \in Events, NEW e \in Events,
         d.outcome # "HANDOFF_TO_N3", e.outcome # "HANDOFF_TO_N3"
  PROVE  /\ Appended(Appended(l, d), e) \in Ledgers
         /\ Appended(Appended(l, d), e).handoff => l.handoff
<1>1. Appended(l, d) \in Ledgers /\ (Appended(l, d).handoff => l.handoff) BY Writes
<1> QED BY <1>1, Writes

\* What a start writes opens no handoff.
LEMMA OpenedKeeps ==
  ASSUME ledger \in Ledgers, NEW door, NEW status
  PROVE  /\ OpenedBy(door, status) \in Ledgers
         /\ OpenedBy(door, status).handoff => ledger.handoff
<1>1. OpenedFor(status) \in Ledgers /\ (OpenedFor(status).handoff => ledger.handoff)
  <2>1. CASE status = "unknown"
    BY <2>1, Writes, EventTypes, NoHandoff DEF OpenedFor
  <2>2. CASE status = "failed"
    <3>1. OpenedFor(status) = Appended(Appended(ledger, Note), BudgetReset)
      BY <2>2 DEF OpenedFor
    <3>2. /\ Note \in Events /\ Note.outcome # "HANDOFF_TO_N3"
          /\ BudgetReset \in Events /\ BudgetReset.outcome # "HANDOFF_TO_N3"
      BY EventTypes, NoHandoff
    <3> QED BY <3>1, <3>2, WritesTwo
  <2>3. CASE status \notin {"unknown", "failed"} BY <2>3 DEF OpenedFor
  <2> QED BY <2>1, <2>2, <2>3
<1> DEFINE l == OpenedFor(status)
<1>2. OpenedBy(door, status) = (IF door = "link" THEN Appended(l, Note) ELSE l)
  BY DEF OpenedBy
<1>3. l \in Ledgers /\ (l.handoff => ledger.handoff) BY <1>1
<1> HIDE DEF l
<1>4. Note \in Events /\ Note.outcome # "HANDOFF_TO_N3" BY EventTypes, NoHandoff
<1>5. Appended(l, Note) \in Ledgers /\ (Appended(l, Note).handoff => l.handoff)
  BY <1>3, <1>4, Writes
<1> QED BY <1>2, <1>3, <1>5

LEMMA LaunchStep ==
  ASSUME TInv, NEW t \in Threads, Launch(t)
  PROVE  TInv'
<1>1. GoodThreads /\ Kinds BY GoodNow, KindsNow
<1>2. up' BY RunsUp DEF Launch, At
<1>3. CASE Watch(t) /\ UNCHANGED <<ledger, runner>>
  <2>1. GoodThreads' /\ slot' \in Workers \cup {None} BY <1>3, Watching
  <2>2. Kinds' BY <1>1, <1>3, <2>1 DEF Launch, Kinds, history, bounds
  <2> QED BY <1>2, <2>1, <2>2, Assembled
<1>4. CASE Ends(t) /\ UNCHANGED <<ledger, runner, slot>>
  <2>1. GoodThreads' BY <1>1, <1>4, Ending
  <2>2. Kinds' BY <1>1, <1>4 DEF Launch, Kinds, history, bounds
  <2> QED BY <1>2, <2>1, <2>2, Assembled
<1>5. ASSUME NEW status, IdleWorkers # {}, ledger' = OpenedBy(th[t].role, status), runner' = FreeWorker,
             th' = [th EXCEPT ![t] = Idle,
                              ![FreeWorker] = [Idle EXCEPT !.role = "runner", !.pc = "enter"]],
             UNCHANGED slot
      PROVE  TInv'
  <2>1. FreeWorker \in Workers BY <1>5, FreeWorkerType
  <2>2. GoodThread(FreeWorker, [Idle EXCEPT !.role = "runner", !.pc = "enter"])
    BY <2>1, Fresh
  <2>3. GoodThreads' BY <1>1, <1>5, <2>1, <2>2, TwoThreads DEF Threads
  <2>4. Kept BY <1>1, <1>5, OpenedKeeps DEF Kept, Kinds
  <2>5. Kinds' BY <1>1, <1>5, <2>1, <2>4 DEF Launch, Kinds, Kept, history, bounds
  <2> QED BY <1>2, <2>3, <2>5, Assembled
<1>6. PICK status \in MayRead :
       CASE status = "waiting"  -> Watch(t) /\ UNCHANGED <<ledger, runner>>
         [] status = "building" -> Ends(t) /\ UNCHANGED <<ledger, runner, slot>>
         [] OTHER ->
              /\ IdleWorkers # {}
              /\ ledger' = OpenedBy(th[t].role, status)
              /\ runner' = FreeWorker
              /\ th' = [th EXCEPT ![t] = Idle,
                                  ![FreeWorker] = [Idle EXCEPT !.role = "runner", !.pc = "enter"]]
              /\ UNCHANGED slot
  BY DEF Launch
<1>7. CASE status = "waiting" BY <1>3, <1>6, <1>7
<1>8. CASE status = "building" BY <1>4, <1>6, <1>8
<1>9. CASE status \notin {"waiting", "building"} BY <1>5, <1>6, <1>9
<1> QED BY <1>7, <1>8, <1>9

LEMMA JudgedKeeps ==
  ASSUME ledger \in Ledgers, NEW saw, ledger' = Judged(saw)
  PROVE  Kept
<1>1. Appended(ledger, N3Passed("STORE_MANAGER")) \in Ledgers
      /\ (Appended(ledger, N3Passed("STORE_MANAGER")).handoff => ledger.handoff)
  BY Writes, EventTypes, NoHandoff
<1>2. CASE saw = "green" BY <1>1, <1>2, Writes, EventTypes, NoHandoff DEF Judged, Kept
<1>3. CASE saw # "green" BY <1>3, Writes, EventTypes, NoHandoff DEF Judged, Kept
<1> QED BY <1>2, <1>3

LEMMA IngestSteps ==
  ASSUME TInv, NEW t \in Threads, Ingest(t)
  PROVE  TInv'
<1>1. GoodThreads /\ Kinds BY GoodNow, KindsNow
<1>2. up' BY RunsUp DEF Ingest, Join, Open, Poll, Judge, Undecided, Leave, At, shared
<1>3. /\ Waits(t) => {"open", "leave"} \subseteq PcsOf(th[t].role) \ {"idle", "poll", "judge"}
      /\ th[t].role = "runner" => "verdict" \in PcsOf(th[t].role) \ {"idle", "poll", "judge"}
  BY Places DEF Waits
<1>4. th[t] \in ThreadStates /\ GoodThread(t, th[t]) BY ThreadOf
<1>5. CASE Join(t)
  <2>1. t \in Workers /\ Waits(t) BY <1>5, RoleAt DEF Join, At, Waits
  <2>2. GoodThreads' BY <1>1, <1>3, <1>5, <2>1, Going, Ending DEF Join, Registers
  <2>3. Kinds' BY <1>1, <1>5, <2>1 DEF Join, Registers, Kinds, history, bounds
  <2> QED BY <1>2, <2>2, <2>3, Assembled
<1>6. CASE Open(t)
  <2>1. GoodThreads'
    <3>1. CASE ledger.handoff
      <4> DEFINE v == [th[t] EXCEPT !.pc = "poll", !.of = handoffs]
      <4>1. th' = [th EXCEPT ![t] = v] BY <1>6, <3>1 DEF Open, Target
      <4>2. handoffs \in 0..MaxHandoffs /\ handoffs > 0 BY <1>1, <3>1 DEF Kinds
      <4>3. "poll" \in PcsOf(th[t].role) /\ th[t].role # "none" BY <1>6, MayPoll DEF Open, At
      <4>4. GoodThread(t, v) BY <1>4, <4>2, <4>3 DEF GoodThread, ThreadStates, Pcs
      <4> HIDE DEF v
      <4> QED BY <1>1, <4>1, <4>4, OneThread
    <3>2. CASE ~ledger.handoff BY <1>1, <1>3, <1>6, <3>2, Going, Ending DEF Open
    <3> QED BY <3>1, <3>2
  <2>2. Kinds' BY <1>1, <1>6 DEF Open, Kinds, shared, history, bounds
  <2> QED BY <1>2, <2>1, <2>2, Assembled
<1>7. CASE Poll(t)
  <2>1. PICK s \in Sees(t) : th' = [th EXCEPT ![t].pc = "judge", ![t].saw = s]
    BY <1>7 DEF Poll
  <2>2. th[t].of \in 1..MaxHandoffs BY <1>4, <1>7, BoundsAreNumbers DEF Poll, At, GoodThread, ThreadStates
  <2>3. s \in Answers \cup {"pending", "unreachable"}
    BY <1>1, <2>1, <2>2 DEF Sees, Kinds, Answers
  <2> DEFINE v == [th[t] EXCEPT !.pc = "judge", !.saw = s]
  <2>4. th' = [th EXCEPT ![t] = v] BY <2>1
  <2>5. th[t].of > 0 BY <2>2, BoundsAreNumbers
  <2>6. "judge" \in PcsOf(th[t].role) /\ th[t].role # "none" BY <1>7, MayPoll DEF Poll, At
  <2>7. GoodThread(t, v)
    BY <1>4, <2>3, <2>5, <2>6 DEF GoodThread, ThreadStates, Pcs, Answers
  <2>8. GoodThreads'
    <3> HIDE DEF v
    <3> QED BY <1>1, <2>4, <2>7, OneThread
  <2>9. Kinds' BY <1>1, <1>7 DEF Poll, Kinds, shared, history, bounds
  <2> QED BY <1>2, <2>8, <2>9, Assembled
<1>8. CASE Judge(t)
  <2>1. GoodThreads' BY <1>1, <1>3, <1>8, Going, Ending DEF Judge
  <2>2. Kept BY <1>1, <1>8, JudgedKeeps DEF Judge, Kinds
  <2>3. th[t].of \in 1..MaxHandoffs /\ th[t].saw \in Answers
    BY <1>4, <1>8, BoundsAreNumbers DEF Judge, At, GoodThread, ThreadStates, Answers
  <2>4. answers' \subseteq [for : 0..MaxHandoffs, of : 1..MaxHandoffs, saw : Answers]
    BY <1>1, <1>8, <2>3 DEF Judge, Kinds
  <2>5. Kinds' BY <1>1, <1>8, <2>2, <2>4 DEF Judge, Kept, Kinds, shared, bounds
  <2> QED BY <1>2, <2>1, <2>5, Assembled
<1>9. CASE Undecided(t)
  <2>1. GoodThreads' /\ slot' \in Workers \cup {None}
    BY <1>1, <1>3, <1>9, Going, Watching DEF Undecided, Kinds
  <2>2. lapsed' \in 0..MaxHandoffs BY <1>1, <1>4, <1>9 DEF Undecided, ThreadStates, Kinds
  <2>3. Kinds' BY <1>1, <1>9, <2>1, <2>2 DEF Undecided, Kinds, bounds
  <2> QED BY <1>2, <2>1, <2>3, Assembled
<1>10. CASE Leave(t)
  <2>1. GoodThreads' BY <1>1, <1>3, <1>10, Going, Ending DEF Leave
  <2>2. Kinds' BY <1>1, <1>10 DEF Leave, Kinds, history, bounds
  <2> QED BY <1>2, <2>1, <2>2, Assembled
<1> QED BY <1>5, <1>6, <1>7, <1>8, <1>9, <1>10 DEF Ingest

LEMMA BuildSteps ==
  ASSUME TInv, NEW t \in Threads, Build(t)
  PROVE  TInv'
<1>1. GoodThreads /\ Kinds BY GoodNow, KindsNow
<1>2. th[t].pc \in {"enter", "build", "verdict"}
  BY DEF Build, Builds, Enter, BuildFails, BuildSucceeds, BuildHandsOff, Reopen, Stopped, At
<1>3. up' BY <1>2, RunsUp DEF Build, Builds, Enter, BuildFails, BuildSucceeds, BuildHandsOff,
                              Reopen, Stopped, shared
<1>4. {"enter", "build", "join"} \subseteq PcsOf(th[t].role) \ {"idle", "poll", "judge"}
  BY <1>2, RoleAt, Places
<1>5. ASSUME RunnerEnds(t), Kept, UNCHANGED <<handoffs, gate, slot, up, history, bounds>>
      PROVE  TInv'
  <2>1. GoodThreads' BY <1>1, <1>5, Ending DEF RunnerEnds
  <2>2. runner' \in Workers \cup {None} BY <1>1, <1>5 DEF RunnerEnds, Unregistered, Kinds
  <2>3. Kinds' BY <1>1, <1>5, <2>2 DEF Kept, Kinds, history, bounds
  <2> QED BY <1>3, <2>1, <2>3, Assembled
<1>6. CASE Enter(t)
  <2>1. Kept
    <3>1. PICK e \in {RunSucceeded("SUCCESS", "pilot"), PhaseStarted("WRITER")} :
            ledger' = Appended(ledger, e)
      BY <1>6, Zenon DEF Enter
    <3>2. e \in Events /\ e.outcome # "HANDOFF_TO_N3" BY <3>1, EventTypes, NoHandoff
    <3> QED BY <1>1, <3>1, <3>2, Writes DEF Kept, Kinds
  <2>2. CASE ledger.terminal.kind = "RUN_SUCCEEDED" BY <1>5, <1>6, <2>1, <2>2 DEF Enter
  <2>3. CASE ledger.terminal.kind # "RUN_SUCCEEDED"
    <3>1. GoodThreads' BY <1>1, <1>4, <1>6, <2>3, Going DEF Enter
    <3>2. Kinds' BY <1>1, <1>6, <2>1, <2>3 DEF Enter, Kept, Kinds, history, bounds
    <3> QED BY <1>3, <3>1, <3>2, Assembled
  <2> QED BY <2>2, <2>3
<1>7. CASE BuildFails(t)
  <2>1. Kept BY <1>1, <1>7, WritesTwo, EventTypes, NoHandoff DEF BuildFails, Kept, Kinds
  <2> QED BY <1>5, <1>7, <2>1 DEF BuildFails
<1>8. CASE BuildSucceeds(t)
  <2>1. Kept BY <1>1, <1>8, WritesTwo, EventTypes, NoHandoff DEF BuildSucceeds, Kept, Kinds
  <2> QED BY <1>5, <1>8, <2>1 DEF BuildSucceeds
<1>9. CASE BuildHandsOff(t)
  <2>1. GoodThreads' BY <1>1, <1>4, <1>9, Going DEF BuildHandsOff
  <2>2. ledger' \in Ledgers BY <1>1, <1>9, Writes, EventTypes DEF BuildHandsOff, Kinds
  <2>3. handoffs' \in 0..MaxHandoffs /\ handoffs' > 0
    BY <1>1, <1>9, BoundsAreNumbers DEF BuildHandsOff, Kinds
  <2>4. Kinds' BY <1>1, <1>9, <2>2, <2>3 DEF BuildHandsOff, Kinds, history, bounds
  <2> QED BY <1>3, <2>1, <2>4, Assembled
<1>10. CASE Reopen(t)
  <2>1. GoodThreads' BY <1>1, <1>4, <1>10, Going DEF Reopen
  <2>2. Kept BY <1>1, <1>10, Writes, EventTypes, NoHandoff DEF Reopen, Kept, Kinds
  <2>3. Kinds' BY <1>1, <1>10, <2>2 DEF Reopen, Kept, Kinds, shared, history, bounds
  <2> QED BY <1>3, <2>1, <2>3, Assembled
<1>11. CASE Stopped(t)
  <2>1. Kept
    <3>1. CASE UNCHANGED ledger BY <1>1, <3>1 DEF Kept, Kinds
    <3>2. CASE ~UNCHANGED ledger
      <4>1. PICK e \in {RunFailed("STORE_MANAGER", "FAILED_GATE", {}), GatePassed("STORE_MANAGER")} :
              ledger' = Appended(ledger, e)
        BY <1>11, <3>2, Zenon DEF Stopped
      <4>2. e \in Events /\ e.outcome # "HANDOFF_TO_N3" BY <4>1, EventTypes, NoHandoff
      <4> QED BY <1>1, <4>1, <4>2, Writes DEF Kept, Kinds
    <3> QED BY <3>1, <3>2
  <2> QED BY <1>5, <1>11, <2>1 DEF Stopped
<1> QED BY <1>6, <1>7, <1>8, <1>9, <1>10, <1>11 DEF Build

LEMMA ServerSteps ==
  ASSUME TInv, (\E door \in Doors : Arrive(door)) \/ GateAnswers \/ Crash \/ Boot
  PROVE  TInv'
<1>1. GoodThreads /\ Kinds BY GoodNow, KindsNow
<1>2. ASSUME NEW door \in Doors, Arrive(door)
      PROVE  TInv'
  <2>1. FreeRequest \in Requests BY <1>2 DEF Arrive, FreeRequest
  <2> DEFINE v == [Idle EXCEPT !.role = door, !.pc = FirstStop(door)]
  <2>2. GoodThread(FreeRequest, v)
    BY <2>1, IdleType, ThreadsAreDistinct
    DEF FirstStop, GoodThread, ThreadStates, Idle, PcsOf, Doors, ChatDoors, Pcs
  <2>3. th' = [th EXCEPT ![FreeRequest] = v] BY <1>2 DEF Arrive
  <2>4. GoodThreads'
    <3> HIDE DEF v
    <3> QED BY <1>1, <2>1, <2>2, <2>3, OneThread DEF Threads
  <2>5. asked' \in 0..MaxRequests /\ byFloor' \in BOOLEAN
    <3>1. asked \in Nat BY <1>1, BoundsAreNumbers DEF Kinds
    <3>2. asked < MaxRequests /\ asked' = asked + 1 BY <1>2 DEF Arrive
    <3>3. byFloor' \in BOOLEAN BY <1>2, Zenon DEF Arrive
    <3> QED BY <3>1, <3>2, <3>3, BoundsAreNumbers
  <2>6. Kinds' BY <1>1, <1>2, <2>5 DEF Arrive, Kinds, shared
  <2> QED BY <1>2, <2>4, <2>6, Assembled DEF Arrive, shared
<1>3. CASE GateAnswers
  <2>1. GoodThreads' BY <1>1, <1>3 DEF GateAnswers, GoodThreads, GoodThread
  <2>2. gate' \in [1..MaxHandoffs -> Answers \cup {"pending"}]
    BY <1>1, <1>3 DEF GateAnswers, Kinds
  <2>3. Kinds' BY <1>1, <1>3, <2>2 DEF GateAnswers, Kinds, history, bounds
  <2>4. TypeOK' BY <2>1, <2>3 DEF TypeOK, Kinds, GoodThreads
  <2> QED BY <1>3, <2>1, <2>3, <2>4 DEF TInv, Bookkeeping, Kinds, GoodThreads, GateAnswers
<1>4. CASE Crash
  <2>1. GoodThreads' BY <1>4, IdleType, GoodIdle DEF Crash, GoodThreads, GoodThread
  <2>2. crashes' \in 0..MaxCrashes
    <3>1. crashes \in Nat /\ crashes < MaxCrashes /\ crashes' = crashes + 1
      BY <1>1, <1>4, BoundsAreNumbers DEF Crash, Kinds
    <3> QED BY <3>1, BoundsAreNumbers
  <2>3. Kinds' BY <1>1, <1>4, <2>2 DEF Crash, Kinds, history
  <2>4. TypeOK' BY <2>1, <2>3 DEF TypeOK, Kinds, GoodThreads
  <2> QED BY <1>4, <2>1, <2>3, <2>4 DEF TInv, Bookkeeping, Kinds, GoodThreads, Crash
<1>5. CASE BootIdle
  <2>1. GoodThreads' /\ slot' \in Workers \cup {None} BY <1>5, Rewatching DEF BootIdle
  <2>2. Kinds' BY <1>1, <1>5, <2>1 DEF BootIdle, Kinds, history, bounds
  <2> QED BY <1>5, <2>1, <2>2, Assembled DEF BootIdle
<1>6. CASE BootResumes
  <2>1. FreeWorker \in Workers BY <1>6, DownFree, FreeWorkerType DEF BootResumes
  <2>2. GoodThread(FreeWorker, [Idle EXCEPT !.role = "runner", !.pc = "enter"])
    BY <2>1, Fresh
  <2>3. GoodThreads' BY <1>1, <1>6, <2>1, <2>2, OneThread DEF BootResumes, Threads
  <2>4. Kept BY <1>1, <1>6, Writes, EventTypes, NoHandoff DEF BootResumes, Kept, Kinds
  <2>5. Kinds' BY <1>1, <1>6, <2>1, <2>4 DEF BootResumes, Kept, Kinds, history, bounds
  <2> QED BY <1>6, <2>3, <2>5, Assembled DEF BootResumes
<1>7. CASE BootFails
  <2>1. GoodThreads' /\ slot' \in Workers \cup {None} BY <1>7, Rewatching DEF BootFails
  <2>2. Kept BY <1>1, <1>7, Writes, EventTypes, NoHandoff DEF BootFails, Kept, Kinds
  <2>3. Kinds' BY <1>1, <1>7, <2>1, <2>2 DEF BootFails, Kept, Kinds, history, bounds
  <2> QED BY <1>7, <2>1, <2>3, Assembled DEF BootFails
<1> QED BY <1>2, <1>3, <1>4, <1>5, <1>6, <1>7 DEF Boot

LEMMA StepTInv == TInv /\ [Next]_vars => TInv'
<1> SUFFICES ASSUME TInv, [Next]_vars PROVE TInv' OBVIOUS
<1>1. ASSUME NEW t \in Threads, Step(t) PROVE TInv'
  BY <1>1, DoorSteps, LaunchStep, IngestSteps, BuildSteps DEF Step, Door
<1>2. CASE UNCHANGED vars
  BY <1>2 DEF vars, shared, history, bounds, TInv, TypeOK, Bookkeeping, GoodThread
<1> QED BY <1>1, <1>2, ServerSteps DEF Next

LEMMA AlwaysTInv == Spec => []TInv
BY InitTInv, StepTInv, PTL DEF Spec

\* Every variable of the store gate's model keeps its kind, for any number of
\* threads, handoffs and restarts.
THEOREM GateTyped == Spec => []TypeOK
<1>1. TInv => TypeOK BY DEF TInv
<1> QED BY <1>1, AlwaysTInv, PTL

-----------------------------------------------------------------------------
(* One waiter.                                                              *)

\* No worker starts polling in this step.
Quiet == \A w \in Workers : th'[w].pc \in Polling => th[w].pc \in Polling

LEMMA QuietKeeps ==
  ASSUME Registered, Quiet, slot' = slot
  PROVE  Registered'
BY DEF Registered, Quiet

\* Nobody polls while nobody is registered.
LEMMA NobodyPolls ==
  ASSUME TInv, Registered, slot = None
  PROVE  \A w \in Workers : th[w].pc \notin Polling
BY ThreadsAreDistinct DEF Registered

LEMMA WatchRegistered ==
  ASSUME TInv, Registered, NEW t \in Threads, Watch(t)
  PROVE  Registered'
<1>1. GoodThreads BY GoodNow
<1>2. CASE slot # None
  <2>1. Quiet BY <1>1, <1>2, Ending DEF Watch, Quiet, Threads, Idle, Polling
  <2> QED BY <1>2, <2>1, QuietKeeps DEF Watch
<1>3. CASE slot = None
  <2>1. FreeWorker \in Workers BY <1>3, FreeWorkerType DEF Watch
  <2> DEFINE v == [Idle EXCEPT !.role = "waiter", !.pc = "join"]
  <2>2. GoodThread(FreeWorker, v) BY <2>1, Fresh
  <2>3. th' = [th EXCEPT ![t] = Idle, ![FreeWorker] = v] BY <1>3 DEF Watch
  <2>4. v.pc \notin Polling /\ Idle.pc \notin Polling BY DEF Idle, Polling
  <2>5. \A w \in Workers : th'[w].pc \notin Polling
    <3> HIDE DEF v
    <3>1. \A w \in Workers : th[w].pc \notin Polling BY <1>3, NobodyPolls
    <3>2. /\ th'[FreeWorker] = v /\ (t # FreeWorker => th'[t] = Idle)
          /\ \A u \in Threads \ {t, FreeWorker} : th'[u] = th[u]
      BY <1>1, <2>1, <2>2, <2>3, TwoThreads DEF Threads
    <3> QED BY <2>4, <3>1, <3>2 DEF Threads
  <2> QED BY <2>5 DEF Registered
<1> QED BY <1>2, <1>3

LEMMA RewatchRegistered ==
  ASSUME TInv, Registered, ~up, Rewatch(FreeWorker)
  PROVE  Registered'
<1>1. FreeWorker \in Workers BY DownFree, FreeWorkerType
<1>2. \A w \in Workers : th[w].pc \notin Polling
  BY NobodyPolls DEF TInv, Bookkeeping
<1>3. th \in [Threads -> ThreadStates] BY DEF TInv, TypeOK
<1>4. CASE ledger.handoff
  <2>1. [Idle EXCEPT !.role = "waiter", !.pc = "join"].pc \notin Polling BY DEF Idle, Polling
  <2> QED BY <1>1, <1>2, <1>3, <1>4, <2>1 DEF Rewatch, Registered, Threads
<1>5. CASE ~ledger.handoff BY <1>2, <1>5 DEF Rewatch, Registered
<1> QED BY <1>4, <1>5

\* A request is not a worker.
LEMMA RequestQuiet ==
  ASSUME TInv, NEW t \in Threads, th[t].role \in Doors,
         \A u \in Threads \ {t} : th'[u] = th[u]
  PROVE  Quiet
<1>1. t \notin Workers BY ThreadOf DEF GoodThread, Doors, ChatDoors
<1> QED BY <1>1 DEF Quiet, Threads

LEMMA DoorRegistered ==
  ASSUME TInv, Registered, NEW t \in Threads,
         FloorDoor(t) \/ Adopt(t) \/ HttpDoor(t) \/ Stamp(t) \/ Launch(t)
  PROVE  Registered'
<1>1. GoodThreads BY GoodNow
<1>2. th[t].role \in Doors BY RoleAt DEF FloorDoor, Adopt, HttpDoor, Stamp, Launch, At
<1>3. {"open", "launch", "stamp"} \subseteq PcsOf(th[t].role) \ {"idle", "poll", "judge"}
  BY <1>2, Places
<1>4. ASSUME Ends(t) \/ Goes(t, "open") \/ Goes(t, "launch") \/ Goes(t, "stamp"), slot' = slot
      PROVE  Registered'
  <2>1. \A u \in Threads \ {t} : th'[u] = th[u] BY <1>1, <1>3, <1>4, Going, Ending
  <2> QED BY <1>2, <1>4, <2>1, RequestQuiet, QuietKeeps
<1>5. CASE FloorDoor(t) \/ Adopt(t) \/ HttpDoor(t) \/ Stamp(t)
  <2>1. slot' = slot BY <1>5 DEF FloorDoor, Adopt, HttpDoor, Stamp, shared
  <2>2. Ends(t) \/ Goes(t, "open") \/ Goes(t, "launch") \/ Goes(t, "stamp")
    BY <1>5 DEF FloorDoor, Continues, Approves, Adopt, HttpDoor, Stamp
  <2> QED BY <1>4, <2>1, <2>2
<1>6. CASE Launch(t)
  <2> DEFINE v == [Idle EXCEPT !.role = "runner", !.pc = "enter"]
  <2>1. \/ Watch(t)
        \/ Ends(t) /\ slot' = slot
        \/ IdleWorkers # {} /\ slot' = slot /\ th' = [th EXCEPT ![t] = Idle, ![FreeWorker] = v]
    BY <1>6, Zenon DEF Launch
  <2>2. CASE IdleWorkers # {} /\ slot' = slot /\ th' = [th EXCEPT ![t] = Idle, ![FreeWorker] = v]
    <3>1. FreeWorker \in Workers BY <2>2, FreeWorkerType
    <3>2. GoodThread(FreeWorker, v) BY <3>1, Fresh
    <3>3. v.pc \notin Polling /\ Idle.pc \notin Polling BY DEF Idle, Polling
    <3> HIDE DEF v
    <3>4. /\ th'[FreeWorker] = v /\ (t # FreeWorker => th'[t] = Idle)
          /\ \A u \in Threads \ {t, FreeWorker} : th'[u] = th[u]
      BY <1>1, <2>2, <3>1, <3>2, TwoThreads DEF Threads
    <3>5. Quiet BY <3>3, <3>4 DEF Quiet, Threads
    <3> QED BY <2>2, <3>5, QuietKeeps
  <2> QED BY <1>4, <2>1, <2>2, WatchRegistered
<1> QED BY <1>5, <1>6

LEMMA IngestRegistered ==
  ASSUME TInv, Registered, NEW t \in Threads, Ingest(t)
  PROVE  Registered'
<1>1. GoodThreads /\ th[t] \in ThreadStates BY GoodNow, ThreadOf
<1>2. /\ Waits(t) => {"open", "leave"} \subseteq PcsOf(th[t].role) \ {"idle", "poll", "judge"}
      /\ th[t].role = "runner" => "verdict" \in PcsOf(th[t].role) \ {"idle", "poll", "judge"}
  BY Places DEF Waits
<1>3. Idle.pc \notin Polling /\ "verdict" \notin Polling BY DEF Idle, Polling
\* A thread that already polls may do what it likes but leave the registry.
<1>4. ASSUME th[t].pc \in Polling, \A u \in Threads \ {t} : th'[u] = th[u], slot' = slot
      PROVE  Registered'
  BY <1>4, QuietKeeps DEF Quiet, Threads
<1>5. CASE Join(t)
  <2>1. t \in Workers /\ Waits(t) BY <1>5, RoleAt DEF Join, At, Waits
  <2>2. CASE slot \notin {None, t}
    <3>1. slot' = slot /\ ((Goes(t, "verdict") /\ th[t].role = "runner") \/ Ends(t))
      BY <1>5, <2>2 DEF Join, Registers
    <3>2. Quiet BY <1>1, <1>2, <1>3, <3>1, Going, Ending DEF Quiet, Threads, ThreadStates
    <3> QED BY <3>1, <3>2, QuietKeeps
  <2>3. CASE slot \in {None, t}
    <3>1. slot' = t /\ Goes(t, "open") BY <1>5, <2>3 DEF Join, Registers
    <3>2. \A u \in Threads \ {t} : th'[u] = th[u] BY <1>1, <1>2, <2>1, <3>1, Going
    <3>3. \A w \in Workers \ {t} : th[w].pc \notin Polling
      BY <2>3, ThreadsAreDistinct DEF Registered
    <3> QED BY <3>1, <3>2, <3>3 DEF Registered, Threads
  <2> QED BY <2>2, <2>3
<1>6. CASE Open(t)
  <2>1. \A u \in Threads \ {t} : th'[u] = th[u]
    <3>1. CASE ledger.handoff BY <1>1, <1>6, <3>1 DEF Open, GoodThreads
    <3>2. CASE ~ledger.handoff BY <1>1, <1>2, <1>6, <3>2, Going, Ending DEF Open
    <3> QED BY <3>1, <3>2
  <2> QED BY <1>4, <1>6, <2>1 DEF Open, At, shared, Polling
<1>7. CASE Poll(t)
  <2>1. \A u \in Threads \ {t} : th'[u] = th[u] BY <1>1, <1>7 DEF Poll, GoodThreads
  <2> QED BY <1>4, <1>7, <2>1 DEF Poll, At, shared, Polling
<1>8. CASE Judge(t)
  <2>1. \A u \in Threads \ {t} : th'[u] = th[u] BY <1>1, <1>2, <1>8, Going, Ending DEF Judge
  <2> QED BY <1>4, <1>8, <2>1 DEF Judge, At, shared, Polling
<1>9. CASE Undecided(t)
  <2>1. CASE Waits(t)
    <3>1. \A u \in Threads \ {t} : th'[u] = th[u] BY <1>1, <1>2, <1>9, <2>1, Going DEF Undecided
    <3> QED BY <1>4, <1>9, <2>1, <3>1 DEF Undecided, At, Polling
  <2>2. CASE ~Waits(t) BY <1>9, <2>2, WatchRegistered DEF Undecided
  <2> QED BY <2>1, <2>2
<1>10. CASE Leave(t)
  <2>1. t \in Workers /\ slot = t
    BY <1>10, RoleAt DEF Leave, At, Registered, Polling
  <2>2. (Goes(t, "verdict") /\ th[t].role = "runner") \/ Ends(t) BY <1>10 DEF Leave
  <2>3. th'[t].pc \notin Polling /\ \A u \in Threads \ {t} : th'[u] = th[u]
    BY <1>1, <1>2, <1>3, <2>2, Going, Ending DEF ThreadStates
  <2>4. \A w \in Workers \ {t} : th[w].pc \notin Polling BY <2>1 DEF Registered
  <2> QED BY <2>3, <2>4 DEF Registered, Threads
<1> QED BY <1>5, <1>6, <1>7, <1>8, <1>9, <1>10 DEF Ingest

LEMMA BuildRegistered ==
  ASSUME TInv, Registered, NEW t \in Threads, Build(t)
  PROVE  Registered'
<1>1. GoodThreads /\ th[t] \in ThreadStates BY GoodNow, ThreadOf
<1>2. th[t].pc \in {"enter", "build", "verdict"} /\ slot' = slot
  BY DEF Build, Builds, Enter, BuildFails, BuildSucceeds, BuildHandsOff, Reopen, Stopped, At, shared
<1>3. {"enter", "build", "join"} \subseteq PcsOf(th[t].role) \ {"idle", "poll", "judge"}
  BY <1>2, RoleAt, Places
<1>4. Ends(t) \/ Goes(t, "enter") \/ Goes(t, "build") \/ Goes(t, "join")
  BY DEF Build, Enter, BuildFails, BuildSucceeds, BuildHandsOff, Reopen, Stopped, RunnerEnds
<1>5. th'[t].pc \notin Polling /\ \A u \in Threads \ {t} : th'[u] = th[u]
  BY <1>1, <1>3, <1>4, Going, Ending DEF ThreadStates, Idle, Polling
<1> QED BY <1>2, <1>5, QuietKeeps DEF Quiet, Threads

LEMMA ServerRegistered ==
  ASSUME TInv, Registered, (\E door \in Doors : Arrive(door)) \/ GateAnswers \/ Crash \/ Boot
  PROVE  Registered'
<1>1. th \in [Threads -> ThreadStates] BY DEF TInv, TypeOK
<1>2. ASSUME NEW door \in Doors, Arrive(door) PROVE Registered'
  <2>1. FreeRequest \in Requests BY <1>2 DEF Arrive, FreeRequest
  <2>2. \A w \in Workers : th'[w] = th[w]
    BY <1>1, <1>2, <2>1, ThreadsAreDistinct DEF Arrive, Threads
  <2> QED BY <1>2, <2>2, QuietKeeps DEF Quiet, Arrive, shared
<1>3. CASE GateAnswers BY <1>3 DEF GateAnswers, Registered
<1>4. CASE Crash BY <1>4 DEF Crash, Registered, Threads, Idle, Polling
<1>5. CASE BootIdle \/ BootFails BY <1>5, RewatchRegistered DEF BootIdle, BootFails
<1>6. CASE BootResumes
  <2>1. FreeWorker \in Workers BY <1>6, DownFree, FreeWorkerType DEF BootResumes
  <2>2. [Idle EXCEPT !.role = "runner", !.pc = "enter"].pc \notin Polling BY DEF Idle, Polling
  <2>3. Quiet BY <1>1, <1>6, <2>1, <2>2 DEF BootResumes, Quiet, Threads
  <2> QED BY <1>6, <2>3, QuietKeeps DEF BootResumes
<1> QED BY <1>2, <1>3, <1>4, <1>5, <1>6 DEF Boot

LEMMA StepRegistered == TInv /\ Registered /\ [Next]_vars => Registered'
<1> SUFFICES ASSUME TInv, Registered, [Next]_vars PROVE Registered' OBVIOUS
<1>1. ASSUME NEW t \in Threads, Step(t) PROVE Registered'
  BY <1>1, DoorRegistered, IngestRegistered, BuildRegistered DEF Step, Door
<1>2. CASE UNCHANGED vars BY <1>2 DEF vars, shared, Registered
<1> QED BY <1>1, <1>2, ServerRegistered DEF Next

LEMMA AlwaysRegistered == Spec => []Registered
<1>1. Init => Registered BY DEF Init, Registered, Idle, Polling, Threads
<1> QED BY <1>1, AlwaysTInv, StepRegistered, PTL DEF Spec

\* However many requests, runners, crashes and restarts there are, one thread polls
\* the gate of a workspace, and _N3_THREADS names it.
THEOREM OnePolls == Spec => []OneWaiter
<1>1. Registered => OneWaiter BY DEF Registered, OneWaiter, Polling
<1> QED BY <1>1, AlwaysRegistered, PTL

-----------------------------------------------------------------------------
(* One runner, for an owner who keeps to the Floor's typed actions.         *)

\* A runner is the registered one; the requests are one typed message; and between
\* its look at the registry and its start there is no runner.
FloorRuns ==
  /\ \A w \in Workers : Running(w) => runner = w
  /\ \A q \in Requests : th[q].role \in {"none", "floor"}
  /\ \A p, q \in Requests : th[p].role = "floor" /\ th[q].role = "floor" => p = q
  /\ \A q \in Requests : At(q, "launch") => runner = None

Floored == byFloor => FloorRuns

\* A thread whose role is kept, or that ends, and does not go to launch.
LEMMA FloorKeeps ==
  ASSUME FloorRuns, runner' = runner, NEW t \in Threads,
         th'[t].role \in {th[t].role, "none"}, th'[t].pc = "launch" => t \in Workers \/ runner = None,
         \A u \in Threads \ {t} : th'[u] = th[u]
  PROVE  FloorRuns'
BY ThreadsAreDistinct DEF FloorRuns, Running, At, Threads

\* A request that ends as it starts a waiter.
LEMMA FloorWatch ==
  ASSUME TInv, FloorRuns, runner' = runner, NEW t \in Threads, Watch(t)
  PROVE  FloorRuns'
<1>1. GoodThreads BY GoodNow
<1>2. CASE slot # None BY <1>1, <1>2, FloorKeeps, Ending DEF Watch, Idle
<1>3. CASE slot = None
  <2>1. FreeWorker \in Workers BY <1>3, FreeWorkerType DEF Watch
  <2> DEFINE v == [Idle EXCEPT !.role = "waiter", !.pc = "join"]
  <2>2. GoodThread(FreeWorker, v) BY <2>1, Fresh
  <2>3. th' = [th EXCEPT ![t] = Idle, ![FreeWorker] = v] BY <1>3 DEF Watch
  <2>4. v.role = "waiter" /\ Idle.role = "none" /\ Idle.pc = "idle" BY DEF Idle
  <2> HIDE DEF v
  <2>5. /\ th'[FreeWorker] = v /\ (t # FreeWorker => th'[t] = Idle)
        /\ \A u \in Threads \ {t, FreeWorker} : th'[u] = th[u]
    BY <1>1, <2>1, <2>2, <2>3, TwoThreads DEF Threads
  <2> QED BY <2>1, <2>4, <2>5, ThreadsAreDistinct DEF FloorRuns, Running, At, Threads
<1> QED BY <1>2, <1>3

LEMMA FloorRewatch ==
  ASSUME TInv, FloorRuns, ~up, runner' = runner, Rewatch(FreeWorker)
  PROVE  FloorRuns'
<1>1. FreeWorker \in Workers BY DownFree, FreeWorkerType
<1>2. th \in [Threads -> ThreadStates] BY DEF TInv, TypeOK
<1>3. CASE ledger.handoff
  <2> DEFINE v == [Idle EXCEPT !.role = "waiter", !.pc = "join"]
  <2>1. v.role = "waiter" BY DEF Idle
  <2>2. th' = [th EXCEPT ![FreeWorker] = v] BY <1>3 DEF Rewatch
  <2> HIDE DEF v
  <2>3. th'[FreeWorker] = v /\ \A u \in Threads \ {FreeWorker} : th'[u] = th[u]
    BY <1>1, <1>2, <2>2 DEF Threads
  <2> QED BY <1>1, <2>1, <2>3, ThreadsAreDistinct DEF FloorRuns, Running, At, Threads
<1>4. CASE ~ledger.handoff BY <1>4 DEF Rewatch, FloorRuns, Running, At
<1> QED BY <1>3, <1>4

\* A typed message that starts a runner is the only request there is.
LEMMA FloorStarts ==
  ASSUME TInv, FloorRuns, NEW t \in Threads, At(t, "launch"), NEW w \in Workers, runner' = w,
         th'[t] = Idle, \A u \in Threads \ {t, w} : th'[u] = th[u]
  PROVE  FloorRuns'
<1>1. th[t].role \in Doors /\ t \in Requests /\ th[t].role = "floor" /\ runner = None
  BY RoleAt, ThreadOf DEF At, Threads, GoodThread, FloorRuns, Doors, ChatDoors
<1>2. \A u \in Workers : th[u].role # "runner"
  BY <1>1, ThreadsAreDistinct DEF FloorRuns, Running
<1>3. \A q \in Requests \ {t} : th[q].role = "none" /\ th[q].pc = "idle"
  BY <1>1, ThreadOf DEF FloorRuns, Threads, GoodThread, Idle
<1>4. Idle.role = "none" /\ Idle.pc = "idle" BY DEF Idle
<1> QED BY <1>1, <1>2, <1>3, <1>4, ThreadsAreDistinct DEF FloorRuns, Running, At, Threads

LEMMA DoorFloor ==
  ASSUME TInv, FloorRuns, NEW t \in Threads,
         FloorDoor(t) \/ Adopt(t) \/ HttpDoor(t) \/ Stamp(t) \/ Launch(t)
  PROVE  FloorRuns'
<1>1. GoodThreads BY GoodNow
<1>2. th[t].role = "floor" /\ t \in Requests
  <2>1. th[t].role \in Doors BY RoleAt DEF FloorDoor, Adopt, HttpDoor, Stamp, Launch, At
  <2>2. t \in Requests BY <2>1, ThreadOf DEF GoodThread, Doors, ChatDoors, Threads
  <2> QED BY <2>1, <2>2 DEF FloorRuns, Doors, ChatDoors
<1>3. {"open", "launch", "stamp"} \subseteq PcsOf(th[t].role) \ {"idle", "poll", "judge"}
  BY <1>2, Places DEF Doors, ChatDoors
<1>4. ASSUME Ends(t) \/ Goes(t, "open"), runner' = runner
      PROVE  FloorRuns'
  <2>1. CASE Ends(t) BY <1>1, <1>4, <2>1, Ending, FloorKeeps DEF Idle
  <2>2. CASE Goes(t, "open")
    <3>1. th'[t].pc = "open" /\ \A u \in Threads \ {t} : th'[u] = th[u]
      BY <1>1, <1>3, <2>2, Going
    <3>2. th'[t].role = th[t].role BY <1>1, <2>2 DEF Goes, GoodThreads, ThreadStates
    <3> QED BY <1>4, <3>1, <3>2, FloorKeeps
  <2> QED BY <1>4, <2>1, <2>2
<1>5. CASE FloorDoor(t)
  <2>1. runner' = runner BY <1>5 DEF FloorDoor, shared
  <2>2. CASE Goes(t, "launch") /\ ~Live
    <3>1. th'[t].pc = "launch" /\ \A u \in Threads \ {t} : th'[u] = th[u]
      BY <1>1, <1>3, <2>2, Going
    <3>2. th'[t].role = th[t].role BY <1>1, <2>2 DEF Goes, GoodThreads, ThreadStates
    <3> QED BY <2>1, <2>2, <3>1, <3>2, FloorKeeps DEF Live
  <2>3. Ends(t) \/ Goes(t, "open") \/ (Goes(t, "launch") /\ ~Live)
    BY <1>5 DEF FloorDoor, Continues, Approves
  <2> QED BY <1>4, <2>1, <2>2, <2>3
<1>6. CASE HttpDoor(t) \/ Stamp(t) \/ Adopt(t)
  <2>1. CASE HttpDoor(t) BY <1>2, <2>1 DEF HttpDoor
  <2>2. CASE Stamp(t)
    <3>1. GoodThread(t, th[t]) BY <1>1 DEF GoodThreads
    <3>2. runner' = runner /\ (Ends(t) \/ Goes(t, "open")) BY <2>2 DEF Stamp
    <3> QED BY <1>4, <3>2
  <2>3. CASE Adopt(t) BY <1>4, <2>3 DEF Adopt
  <2> QED BY <1>6, <2>1, <2>2, <2>3
<1>7. CASE Launch(t)
  <2> DEFINE v == [Idle EXCEPT !.role = "runner", !.pc = "enter"]
  <2>1. \/ Watch(t) /\ runner' = runner
        \/ Ends(t) /\ runner' = runner
        \/ /\ IdleWorkers # {} /\ runner' = FreeWorker
           /\ th' = [th EXCEPT ![t] = Idle, ![FreeWorker] = v]
    BY <1>7, Zenon DEF Launch
  <2>2. ASSUME IdleWorkers # {}, runner' = FreeWorker,
               th' = [th EXCEPT ![t] = Idle, ![FreeWorker] = v]
        PROVE  FloorRuns'
    <3>1. FreeWorker \in Workers /\ t # FreeWorker
      BY <1>2, <2>2, FreeWorkerType, ThreadsAreDistinct
    <3>2. GoodThread(FreeWorker, v) BY <3>1, Fresh
    <3> HIDE DEF v
    <3>3. th'[t] = Idle /\ \A u \in Threads \ {t, FreeWorker} : th'[u] = th[u]
      BY <1>1, <2>2, <3>1, <3>2, TwoThreads DEF Threads
    <3> QED BY <1>7, <2>2, <3>1, <3>3, FloorStarts DEF Launch
  <2> QED BY <1>4, <2>1, <2>2, FloorWatch
<1> QED BY <1>5, <1>6, <1>7

\* A thread that takes another step of its role, or ends without being the runner.
LEMMA FloorStays ==
  ASSUME TInv, FloorRuns, runner' = runner, NEW t \in Threads,
         \/ Ends(t)
         \/ \E pc \in PcsOf(th[t].role) \ {"idle", "poll", "judge", "launch"} : Goes(t, pc)
  PROVE  FloorRuns'
<1>1. GoodThreads BY GoodNow
<1>2. CASE Ends(t) BY <1>1, <1>2, Ending, FloorKeeps DEF Idle
<1>3. CASE ~Ends(t)
  <2>1. PICK pc \in PcsOf(th[t].role) \ {"idle", "poll", "judge", "launch"} : Goes(t, pc)
    BY <1>3
  <2>2. th'[t].pc = pc /\ \A u \in Threads \ {t} : th'[u] = th[u] BY <1>1, <2>1, Going
  <2>3. th'[t].role = th[t].role BY <1>1, <2>1 DEF Goes, GoodThreads, ThreadStates
  <2> QED BY <2>1, <2>2, <2>3, FloorKeeps
<1> QED BY <1>2, <1>3

LEMMA IngestFloor ==
  ASSUME TInv, FloorRuns, NEW t \in Threads, Ingest(t)
  PROVE  FloorRuns'
<1>1. GoodThreads /\ th[t] \in ThreadStates BY GoodNow, ThreadOf
<1>2. /\ Waits(t) => {"open", "leave"} \subseteq PcsOf(th[t].role) \ {"idle", "poll", "judge", "launch"}
      /\ th[t].role = "runner"
           => "verdict" \in PcsOf(th[t].role) \ {"idle", "poll", "judge", "launch"}
  BY Places DEF Waits
<1>3. runner' = runner
  BY DEF Ingest, Join, Open, Poll, Judge, Undecided, Leave, shared
<1>4. CASE Join(t)
  <2>1. Waits(t) BY <1>4, RoleAt DEF Join, At, Waits
  <2> QED BY <1>2, <1>3, <1>4, <2>1, FloorStays DEF Join, Registers
<1>5. ASSUME NEW v, th' = [th EXCEPT ![t] = v], v.role = th[t].role, v.pc \in {"poll", "judge"}
      PROVE  FloorRuns'
  <2>1. th'[t] = v /\ \A u \in Threads \ {t} : th'[u] = th[u] BY <1>1, <1>5 DEF GoodThreads
  <2> QED BY <1>3, <1>5, <2>1, FloorKeeps
<1>6. CASE Open(t)
  <2>1. CASE ledger.handoff
    <3> DEFINE v == [th[t] EXCEPT !.pc = "poll", !.of = Target]
    <3>1. th' = [th EXCEPT ![t] = v] BY <1>6, <2>1 DEF Open
    <3>2. v.role = th[t].role /\ v.pc = "poll" BY <1>1 DEF ThreadStates
    <3> HIDE DEF v
    <3> QED BY <1>5, <3>1, <3>2
  <2>2. CASE ~ledger.handoff BY <1>2, <1>3, <1>6, <2>2, FloorStays DEF Open
  <2> QED BY <2>1, <2>2
<1>7. CASE Poll(t)
  <2>1. PICK s \in Sees(t) : th' = [th EXCEPT ![t].pc = "judge", ![t].saw = s]
    BY <1>7 DEF Poll
  <2> DEFINE v == [th[t] EXCEPT !.pc = "judge", !.saw = s]
  <2>2. th' = [th EXCEPT ![t] = v] BY <2>1
  <2>3. v.role = th[t].role /\ v.pc = "judge" BY <1>1 DEF ThreadStates
  <2> HIDE DEF v
  <2> QED BY <1>5, <2>2, <2>3
<1>8. CASE Judge(t) BY <1>2, <1>3, <1>8, FloorStays DEF Judge
<1>9. CASE Undecided(t) BY <1>2, <1>3, <1>9, FloorStays, FloorWatch DEF Undecided
<1>10. CASE Leave(t) BY <1>2, <1>3, <1>10, FloorStays DEF Leave
<1> QED BY <1>4, <1>6, <1>7, <1>8, <1>9, <1>10 DEF Ingest

LEMMA BuildFloor ==
  ASSUME TInv, FloorRuns, NEW t \in Threads, Build(t)
  PROVE  FloorRuns'
<1>1. GoodThreads BY GoodNow
<1>2. th[t].pc \in {"enter", "build", "verdict"}
  BY DEF Build, Builds, Enter, BuildFails, BuildSucceeds, BuildHandsOff, Reopen, Stopped, At
<1>3. th[t].role = "runner" /\ t \in Workers BY <1>2, RoleAt
<1>4. {"enter", "build", "join"} \subseteq PcsOf(th[t].role) \ {"idle", "poll", "judge", "launch"}
  BY <1>3, Places
<1>5. \/ RunnerEnds(t)
      \/ (Goes(t, "enter") \/ Goes(t, "build") \/ Goes(t, "join")) /\ runner' = runner
  BY DEF Build, Enter, BuildFails, BuildSucceeds, BuildHandsOff, Reopen, Stopped, shared
<1>6. CASE RunnerEnds(t)
  <2>1. th'[t] = Idle /\ \A u \in Threads \ {t} : th'[u] = th[u]
    BY <1>1, <1>6, Ending DEF RunnerEnds
  <2>2. runner = t /\ runner' = None
    BY <1>3, <1>6 DEF RunnerEnds, Unregistered, FloorRuns, Running
  <2>3. Idle.role = "none" /\ Idle.pc = "idle" BY DEF Idle
  <2>4. \A w \in Workers : th'[w].role # "runner"
    BY <2>1, <2>2, <2>3 DEF FloorRuns, Running, Threads
  <2>5. \A q \in Requests : th'[q] = th[q] BY <1>3, <2>1, ThreadsAreDistinct DEF Threads
  <2> QED BY <2>2, <2>4, <2>5 DEF FloorRuns, Running, At
<1>7. CASE (Goes(t, "enter") \/ Goes(t, "build") \/ Goes(t, "join")) /\ runner' = runner
  BY <1>4, <1>7, FloorStays
<1> QED BY <1>5, <1>6, <1>7

LEMMA ServerFloor ==
  ASSUME TInv, FloorRuns, byFloor',
         (\E door \in Doors : Arrive(door)) \/ GateAnswers \/ Crash \/ Boot
  PROVE  FloorRuns'
<1>1. th \in [Threads -> ThreadStates] BY DEF TInv, TypeOK
<1>2. ASSUME NEW door \in Doors, Arrive(door) PROVE FloorRuns'
  <2>1. FreeRequest \in Requests /\ door = "floor" /\ runner' = runner
    BY <1>2 DEF Arrive, FreeRequest, shared
  <2> DEFINE v == [Idle EXCEPT !.role = door, !.pc = FirstStop(door)]
  <2>2. v.role = "floor" /\ v.pc = "door" BY <2>1 DEF Idle, FirstStop
  <2>3. th' = [th EXCEPT ![FreeRequest] = v] BY <1>2 DEF Arrive
  <2>4. \A q \in Requests : th[q].role # "floor" BY <1>2, <2>1 DEF Arrive, ChatDoors
  <2> HIDE DEF v
  <2>5. th'[FreeRequest] = v /\ \A u \in Threads \ {FreeRequest} : th'[u] = th[u]
    BY <1>1, <2>1, <2>3 DEF Threads
  <2> QED BY <2>1, <2>2, <2>4, <2>5, ThreadsAreDistinct DEF FloorRuns, Running, At, Threads
<1>3. CASE GateAnswers BY <1>3 DEF GateAnswers, FloorRuns, Running, At
<1>4. CASE Crash BY <1>4 DEF Crash, FloorRuns, Running, At, Threads, Idle
<1>5. CASE BootIdle \/ BootFails BY <1>5, FloorRewatch DEF BootIdle, BootFails
<1>6. CASE BootResumes
  <2>1. FreeWorker \in Workers BY <1>6, DownFree, FreeWorkerType DEF BootResumes
  <2>2. th' = [th EXCEPT ![FreeWorker] = [Idle EXCEPT !.role = "runner", !.pc = "enter"]]
        /\ runner' = FreeWorker
    BY <1>6 DEF BootResumes
  <2>3. \A u \in Threads : th[u].role = "none" /\ th[u].pc = "idle"
    BY <1>6 DEF BootResumes, TInv, Bookkeeping, Idle
  <2>4. \A u \in Threads \ {FreeWorker} : th'[u] = th[u] BY <1>1, <2>2
  <2> QED BY <2>1, <2>2, <2>3, <2>4, ThreadsAreDistinct DEF FloorRuns, Running, At, Threads
<1> QED BY <1>2, <1>3, <1>4, <1>5, <1>6 DEF Boot

\* What has once been asked or adopted is not forgotten.
LEMMA Recalled ==
  ASSUME [Next]_vars
  PROVE  (byFloor' => byFloor) /\ (adopted => adopted')
<1> DEFINE same == UNCHANGED <<byFloor, adopted>>
           goal == (byFloor' => byFloor) /\ (adopted => adopted')
<1>1. same => goal
  OBVIOUS
<1>2. ASSUME NEW t \in Threads, Adopt(t) PROVE goal
  BY <1>2, Zenon DEF Adopt
<1>3. ASSUME NEW t \in Threads, FloorDoor(t) \/ HttpDoor(t) \/ Launch(t) \/ Stamp(t)  PROVE same
  BY <1>3, Zenon DEF FloorDoor, HttpDoor, Launch, Stamp, history
<1>4. ASSUME NEW t \in Threads, Ingest(t) PROVE same
  BY <1>4, Zenon DEF Ingest, Join, Open, Poll, Judge, Undecided, Leave, history
<1>5. ASSUME NEW t \in Threads, Build(t) PROVE same
  BY <1>5, Zenon DEF Build, Enter, BuildFails, BuildSucceeds, BuildHandsOff, Reopen, Stopped, history
<1>6. ASSUME NEW door \in Doors, Arrive(door) PROVE goal
  BY <1>6, Zenon DEF Arrive
<1>7. ASSUME GateAnswers \/ Crash \/ Boot PROVE same
  BY <1>7, Zenon DEF GateAnswers, Crash, Boot, BootIdle, BootResumes, BootFails, history
<1>8. ASSUME UNCHANGED vars PROVE same
  BY <1>8, Zenon DEF vars, history
<1> HIDE DEF same, goal
<1>9. ASSUME NEW t \in Threads, Step(t) PROVE goal
  BY <1>1, <1>2, <1>3, <1>4, <1>5, <1>9 DEF Step, Door
<1>10. goal
  BY <1>1, <1>6, <1>7, <1>8, <1>9 DEF Next
<1> QED BY <1>10 DEF goal

LEMMA StepFloored == TInv /\ Floored /\ [Next]_vars => Floored'
<1> SUFFICES ASSUME TInv, Floored, [Next]_vars, byFloor' PROVE FloorRuns' BY DEF Floored
<1>1. byFloor /\ FloorRuns BY Recalled DEF Floored
<1>2. ASSUME NEW t \in Threads, Step(t) PROVE FloorRuns'
  BY <1>1, <1>2, DoorFloor, IngestFloor, BuildFloor DEF Step, Door
<1>3. CASE UNCHANGED vars BY <1>1, <1>3 DEF vars, shared, FloorRuns, Running, At
<1> QED BY <1>1, <1>2, <1>3, ServerFloor DEF Next

\* An owner who starts builds only by the Floor's typed actions -- not by HTTP, not by a
\* pasted link -- never has two runners on a workspace, through any number of messages,
\* resumes, adoptions, reworks, crashes and restarts.
THEOREM FloorRunsOne == Spec => []OneRunnerByFloor
<1>1. Init => Floored
  BY ThreadsAreDistinct DEF Init, Floored, FloorRuns, Running, At, Idle, Threads
<1>2. Floored => OneRunnerByFloor
  BY DEF Floored, FloorRuns, OneRunnerByFloor, SingleFlight
<1> QED BY <1>1, <1>2, AlwaysTInv, StepFloored, PTL DEF Spec

-----------------------------------------------------------------------------
(* The open handoff, and the answer it gets.                                *)

\* While a handoff is open the run's verdict is a failure that charges nobody: the
\* handoff's own record, or one that later writers left of the same kind.
Settled(l) == l.handoff => l.terminal.kind = "RUN_FAILED" /\ l.terminal.names = {}

\* Whoever builds, was handed off, or holds a commit to ask the gate about, has a run
\* recorded.
Backed ==
  ~Exists(ledger) =>
    /\ ~ledger.handoff /\ handoffs = 0 /\ ledger.running = {}
    /\ \A t \in Threads : th[t].role # "runner" /\ th[t].pc \notin {"poll", "judge"}

Watched == Settled(ledger) /\ Backed

\* The events that keep Settled: a failure that charges nobody, what closes a handoff,
\* and what leaves the verdict and the handoff alone.
Harmless(l, e) ==
  \/ e.kind = "RUN_FAILED" /\ e.names = {}
  \/ /\ e.outcome # "HANDOFF_TO_N3"
     /\ \/ ~l.handoff \/ e.key = "n3" \/ e.kind = "RUN_SUCCEEDED"
        \/ e.kind # "RUN_FAILED" /\ ~Reopens(e)

LEMMA HarmlessSettles ==
  ASSUME NEW l \in Ledgers, NEW e \in Events, Settled(l), Harmless(l, e)
  PROVE  Settled(Appended(l, e))
<1> DEFINE n == Appended(l, e)
<1>1. n.terminal = TerminalAfter(l, e) /\ n.handoff = HandoffAfter(l, e)
  BY DEF Appended
<1>2. SUFFICES Settled(n)  OBVIOUS
<1> HIDE DEF n
<1>3. CASE e.kind = "RUN_FAILED" /\ e.names = {}
  BY <1>1, <1>3 DEF TerminalAfter, Settled
<1>4. CASE e.outcome # "HANDOFF_TO_N3" /\ (~l.handoff \/ e.key = "n3" \/ e.kind = "RUN_SUCCEEDED")
  BY <1>1, <1>4 DEF HandoffAfter, Settled
<1>5. CASE /\ e.outcome # "HANDOFF_TO_N3" /\ e.kind \notin {"RUN_FAILED", "RUN_SUCCEEDED"}
           /\ ~Reopens(e)
  BY <1>1, <1>5 DEF HandoffAfter, TerminalAfter, Settled
<1> QED  BY <1>3, <1>4, <1>5 DEF Harmless

\* The events that a writer of this module may append whatever the ledger says.
Plain ==
  {Note, BudgetReset, RunStarted("bp"), PhaseStarted("WRITER"), GatePassed("WRITER"),
   GateFailed("WRITER"), GatePassed("STORE_MANAGER"), N3Passed("STORE_MANAGER"),
   N3Failed({"store"}), N3Failed({}), RunSucceeded("SUCCESS", "pilot"),
   RunFailed("WRITER", "HANDOFF_TO_N3", {}), RunFailed("STORE_MANAGER", "HANDOFF_TO_N3", {}),
   RunFailed("WRITER", "FAILED_GATE", {}), RunFailed("STORE_MANAGER", "FAILED_GATE", {}),
   RunFailed("none", "FAILED_ROLE_ERROR", {})}

\* ... and the one that a writer appends when no handoff is open.
StoreRework == Rework("STORE_MANAGER", {"store"}, {"WRITER", "TESTER", "STORE_MANAGER"})

LEMMA PlainHarmless ==
  ASSUME NEW e \in Plain
  PROVE  /\ e \in Events /\ e.key # "inputs_rebased"
         /\ \A l : Harmless(l, e)
<1>1. e \in Events
  BY EventTypes DEF Plain
<1>2. CASE e \in {Note, BudgetReset, RunStarted("bp")}
  <2>1. e.kind \in {"NOTE", "RUN_STARTED"} /\ e.key # "inputs_rebased"
    <3>1. CASE e = Note
      BY <3>1 DEF Note
    <3>2. CASE e = BudgetReset
      BY <3>2 DEF BudgetReset, Note
    <3>3. CASE e = RunStarted("bp")
      BY <3>3 DEF RunStarted, Note
    <3> QED  BY <1>2, <3>1, <3>2, <3>3
  <2>2. e.outcome # "HANDOFF_TO_N3"
    BY <1>2, NoHandoff
  <2> QED  BY <1>1, <2>1, <2>2 DEF Harmless, Reopens
<1>3. CASE e \in {PhaseStarted("WRITER"), GatePassed("WRITER"), GateFailed("WRITER"),
                  GatePassed("STORE_MANAGER")}
  BY <1>1, <1>3, NoHandoff DEF Harmless, Reopens, Note, PhaseStarted, GatePassed, GateFailed
<1>4. CASE e = N3Passed("STORE_MANAGER")
  BY <1>1, <1>4, NoHandoff DEF Harmless, Note, N3Passed, GatePassed
<1>5. CASE e = N3Failed({"store"})
  BY <1>1, <1>5, NoHandoff DEF Harmless, Note, N3Failed, RunFailed
<1>6. CASE e = RunSucceeded("SUCCESS", "pilot")
  BY <1>1, <1>6, NoHandoff DEF Harmless, Note, RunSucceeded
<1>7. CASE e = N3Failed({})
  BY <1>1, <1>7, NoHandoff DEF Harmless, Note, N3Failed, RunFailed
<1>8. \A r, o : /\ RunFailed(r, o, {}).kind = "RUN_FAILED" /\ RunFailed(r, o, {}).names = {}
               /\ RunFailed(r, o, {}).key = "none"
  BY DEF RunFailed, Note
<1>9. CASE e \in {RunFailed("WRITER", "HANDOFF_TO_N3", {}),
                  RunFailed("STORE_MANAGER", "HANDOFF_TO_N3", {}),
                  RunFailed("WRITER", "FAILED_GATE", {}), RunFailed("STORE_MANAGER", "FAILED_GATE", {}),
                  RunFailed("none", "FAILED_ROLE_ERROR", {})}
  BY <1>1, <1>8, <1>9 DEF Harmless
<1> QED  BY <1>2, <1>3, <1>4, <1>5, <1>6, <1>7, <1>9 DEF Plain

\* A run once recorded stays recorded, and a start records one.
LEMMA Recorded ==
  ASSUME NEW l \in Ledgers, NEW e \in Events, e.key # "inputs_rebased"
  PROVE  /\ Exists(l) => Exists(Appended(l, e))
         /\ e = RunStarted("bp") => Exists(Appended(l, e))
<1>1. Appended(l, e).inputs = InputsAfter(l, e)
  BY DEF Appended
<1>2. e = RunStarted("bp") => e.kind = "RUN_STARTED" /\ e.inputs = "bp"
  BY DEF RunStarted, Note
<1>3. "bp" # "none"
  BY BlueprintNamed, InputsAreHashes
<1> QED  BY <1>1, <1>2, <1>3 DEF Exists, InputsAfter

\* What a writer leaves, of the two things followed here.
LEMMA PlainWrite ==
  ASSUME NEW l \in Ledgers, Settled(l), NEW e \in Plain
  PROVE  /\ Appended(l, e) \in Ledgers /\ Settled(Appended(l, e))
         /\ Exists(l) => Exists(Appended(l, e))
         /\ e = RunStarted("bp") => Exists(Appended(l, e))
  BY PlainHarmless, HarmlessSettles, Recorded, Writes

LEMMA ReworkWrite ==
  ASSUME NEW l \in Ledgers, ~l.handoff
  PROVE  /\ Appended(l, StoreRework) \in Ledgers /\ Settled(Appended(l, StoreRework))
         /\ Exists(l) => Exists(Appended(l, StoreRework))
<1>1. StoreRework \in Events /\ StoreRework.outcome # "HANDOFF_TO_N3"
  BY EventTypes, NoHandoff DEF StoreRework
<1>2. StoreRework.key = "none"
  BY DEF StoreRework, Rework, Note
<1>3. Settled(l) /\ Harmless(l, StoreRework)
  BY <1>1 DEF Settled, Harmless
<1> QED  BY <1>1, <1>2, <1>3, HarmlessSettles, Recorded, Writes

\* A step in which no thread becomes a runner, sets out to build or to reseed, or takes up
\* a commit.
Shy ==
  \A u \in Threads :
    /\ th'[u].role = "runner" => th[u].role = "runner"
    /\ th'[u].pc \in {"poll", "judge"} => th'[u] = th[u]
    /\ th'[u].pc \in {"enter", "build"} => th[u].pc \in {"enter", "build"}
    /\ th'[u].pc = "stamp" => th[u].pc = "stamp"

LEMMA ShyEnds ==
  ASSUME TInv, NEW t \in Threads, Ends(t)
  PROVE  Shy
<1>1. th'[t] = Idle /\ \A u \in Threads \ {t} : th'[u] = th[u]
  BY GoodNow, Ending
<1> QED  BY <1>1 DEF Shy, Idle

LEMMA ShyGoes ==
  ASSUME TInv, NEW t \in Threads, NEW pc \in PcsOf(th[t].role) \ {"idle", "poll", "judge", "stamp"},
         Goes(t, pc), pc \in {"enter", "build"} => th[t].pc \in {"enter", "build"}
  PROVE  Shy
<1>1. th'[t].pc = pc /\ \A u \in Threads \ {t} : th'[u] = th[u]
  BY GoodNow, Going
<1>2. th'[t].role = th[t].role
  BY GoodNow DEF Goes, GoodThreads, ThreadStates
<1> QED  BY <1>1, <1>2 DEF Shy

LEMMA ShyWatch ==
  ASSUME TInv, NEW t \in Threads, Watch(t)
  PROVE  Shy
<1>1. CASE slot # None
  BY <1>1, ShyEnds DEF Watch
<1>2. CASE slot = None
  <2>1. FreeWorker \in Workers
    BY <1>2, FreeWorkerType DEF Watch
  <2> DEFINE v == [Idle EXCEPT !.role = "waiter", !.pc = "join"]
  <2>2. GoodThread(FreeWorker, v)
    BY <2>1, Fresh
  <2>3. th' = [th EXCEPT ![t] = Idle, ![FreeWorker] = v]
    BY <1>2 DEF Watch
  <2>4. v.role = "waiter" /\ v.pc = "join" /\ Idle.role = "none" /\ Idle.pc = "idle"
    BY DEF Idle
  <2> HIDE DEF v
  <2>5. /\ th'[FreeWorker] = v /\ (t # FreeWorker => th'[t] = Idle)
        /\ \A u \in Threads \ {t, FreeWorker} : th'[u] = th[u]
    BY <2>1, <2>2, <2>3, GoodNow, TwoThreads DEF Threads
  <2> QED  BY <2>4, <2>5 DEF Shy
<1> QED  BY <1>1, <1>2

LEMMA ShyRewatch ==
  ASSUME TInv, ~up, Rewatch(FreeWorker)
  PROVE  Shy
<1>1. FreeWorker \in Workers
  BY DownFree, FreeWorkerType
<1>2. CASE ledger.handoff
  <2> DEFINE v == [Idle EXCEPT !.role = "waiter", !.pc = "join"]
  <2>1. v.role = "waiter" /\ v.pc = "join"
    BY DEF Idle
  <2>2. th' = [th EXCEPT ![FreeWorker] = v]
    BY <1>2 DEF Rewatch
  <2> HIDE DEF v
  <2>3. th'[FreeWorker] = v /\ \A u \in Threads \ {FreeWorker} : th'[u] = th[u]
    BY <1>1, <2>2 DEF Threads, TInv, TypeOK
  <2> QED  BY <2>1, <2>3 DEF Shy
<1>3. CASE ~ledger.handoff
  BY <1>3 DEF Rewatch, Shy
<1> QED  BY <1>2, <1>3

\* A handoff of an owner who types awaits the gate undisturbed: nobody builds or reseeds
\* meanwhile, and whoever has asked the gate has asked it about this handoff.
Undisturbed ==
  /\ \A t \in Threads : th[t].pc # "stamp"
  /\ ledger.handoff => \A w \in Workers : th[w].pc \notin {"enter", "build"}
  /\ \A t \in Threads : th[t].pc \in {"poll", "judge"} => th[t].of = handoffs
  /\ \A a \in answers : a.for = a.of

\* The invariant of the two properties; its second part is about the Floor's typed actions.
Aligned == Watched /\ (byFloor /\ ~adopted => Undisturbed)

\* In a step of this kind the second part is kept.
Calm == byFloor /\ ~adopted' /\ FloorRuns /\ Undisturbed => Undisturbed'

\* A written ledger with a run in it keeps the first part.
LEMMA Backing ==
  ASSUME Settled(ledger'), Exists(ledger')
  PROVE  Watched'
  BY DEF Watched, Settled, Backed, Exists

LEMMA ShyKeeps ==
  ASSUME TInv, Watched, Shy
  PROVE  /\ ledger' = ledger /\ handoffs' = handoffs => Watched'
         /\ handoffs' = handoffs /\ answers' = answers /\ (ledger'.handoff => ledger.handoff)
              => Calm
<1>1. ledger' = ledger /\ handoffs' = handoffs => Watched'
  BY DEF Watched, Settled, Backed, Exists, Shy
<1>2. ASSUME handoffs' = handoffs, answers' = answers, ledger'.handoff => ledger.handoff
      PROVE  Calm
  BY <1>2 DEF Calm, Undisturbed, Shy, Threads
<1> QED  BY <1>1, <1>2

LEMMA DoorAligned ==
  ASSUME TInv, Registered, Watched, NEW t \in Threads, FloorDoor(t) \/ Adopt(t) \/ HttpDoor(t) \/ Stamp(t)
  PROVE  Watched' /\ Calm
<1>1. th[t].role \in Doors /\ t \in Requests
  <2>1. th[t].role \in Doors
    BY RoleAt DEF FloorDoor, Adopt, HttpDoor, Stamp, At
  <2> QED  BY <2>1, ThreadOf DEF GoodThread, Doors, ChatDoors, Threads
<1>2. {"open", "launch", "stamp"} \subseteq PcsOf(th[t].role) \ {"idle", "poll", "judge"}
  BY <1>1, Places
<1>3. ASSUME Ends(t) \/ Goes(t, "open") \/ Goes(t, "launch")  PROVE  Shy
  BY <1>2, <1>3, ShyEnds, ShyGoes
<1>4. CASE FloorDoor(t)
  <2>1. Ends(t) \/ Goes(t, "open") \/ Goes(t, "launch")
    BY <1>4 DEF FloorDoor, Continues, Approves
  <2> QED  BY <1>3, <1>4, <2>1, ShyKeeps DEF FloorDoor, shared, history
<1>5. CASE HttpDoor(t)
  <2>1. Calm
    BY <1>1, <1>5 DEF HttpDoor, Calm, FloorRuns
  <2>2. /\ ledger' = ledger /\ handoffs' = handoffs
        /\ Ends(t) \/ Goes(t, "launch") \/ Goes(t, "stamp")
    BY <1>5 DEF HttpDoor, shared
  <2>3. \A u \in Threads : /\ th'[u].role = "runner" => th[u].role = "runner"
                           /\ th'[u].pc \in {"poll", "judge"} => th'[u] = th[u]
    <3>1. CASE Ends(t)
      BY <3>1, ShyEnds DEF Shy
    <3>2. CASE Goes(t, "launch") \/ Goes(t, "stamp")
      <4>1. th'[t].pc \in {"launch", "stamp"} /\ \A u \in Threads \ {t} : th'[u] = th[u]
        BY <1>2, <3>2, GoodNow, Going
      <4>2. th'[t].role = th[t].role
        BY <3>2, GoodNow DEF Goes, GoodThreads, ThreadStates
      <4> QED  BY <4>1, <4>2
    <3> QED  BY <2>2, <3>1, <3>2
  <2>4. Watched'
    BY <2>2, <2>3 DEF Watched, Settled, Backed, Exists
  <2> QED  BY <2>1, <2>4
<1>6. CASE Stamp(t)
  <2>1. Calm
    BY <1>6 DEF Stamp, At, Calm, Undisturbed
  <2>2. CASE UNCHANGED <<ledger, handoffs>>
    <3>1. Ends(t) \/ Goes(t, "open")
      BY <1>6 DEF Stamp
    <3> QED  BY <1>3, <2>1, <2>2, <3>1, ShyKeeps
  <2>3. CASE ~UNCHANGED <<ledger, handoffs>>
    <3> DEFINE l == IF Exists(ledger) THEN ledger ELSE Appended(ledger, RunStarted("bp"))
    <3>1. ledger' = Appended(l, RunFailed("WRITER", "HANDOFF_TO_N3", {}))
      BY <1>6, <2>3 DEF Stamp
    <3>2. ledger \in Ledgers /\ Settled(ledger)
      BY DEF TInv, TypeOK, Watched
    <3>3. l \in Ledgers /\ Settled(l) /\ Exists(l)
      BY <3>2, PlainWrite DEF Plain
    <3> HIDE DEF l
    <3>4. Settled(ledger') /\ Exists(ledger')
      BY <3>1, <3>3, PlainWrite DEF Plain
    <3> QED  BY <2>1, <3>4, Backing
  <2> QED  BY <2>2, <2>3
<1>7. CASE Adopt(t)
  <2>1. /\ ledger' = Appended(ledger, RunFailed("WRITER", "HANDOFF_TO_N3", {}))
        /\ handoffs' = handoffs + 1 /\ answers' = answers /\ Goes(t, "open") /\ At(t, "door")
        /\ th[t].role = "floor" /\ handoffs \in 0..MaxHandoffs /\ handoffs # 0
    BY <1>7 DEF Adopt, TInv, TypeOK
  <2>2. ledger \in Ledgers /\ Settled(ledger) /\ Exists(ledger)
    BY <2>1 DEF TInv, TypeOK, Watched, Backed
  <2>3. Settled(ledger') /\ Exists(ledger')
    BY <2>1, <2>2, PlainWrite DEF Plain
  <2>4. Calm
    <3> SUFFICES ASSUME ~adopted', FloorRuns, Undisturbed PROVE Undisturbed'
      BY DEF Calm
    <3>1. ~Live /\ slot = None
      BY <1>7 DEF Adopt
    <3>2. \A w \in Workers : th[w].pc \notin {"enter", "build", "poll", "judge"}
      <4> SUFFICES ASSUME NEW w \in Workers
                   PROVE  th[w].pc \notin {"enter", "build", "poll", "judge"}
        OBVIOUS
      <4>1. th[w].pc \notin Polling
        BY <3>1, NobodyPolls
      <4>2. th[w].role # "runner"
        BY <3>1, ThreadsAreDistinct DEF FloorRuns, Running, Live
      <4> QED  BY <4>1, <4>2, RoleAt DEF Polling, Threads
    <3>3. \A q \in Requests \ {t} : th[q].pc \notin {"poll", "judge"}
      BY <1>1, <2>1, ThreadOf DEF FloorRuns, GoodThread, Idle, Threads
    <3>4. th'[t].pc = "open" /\ \A u \in Threads \ {t} : th'[u] = th[u]
      BY <1>2, <2>1, GoodNow, Going
    <3>5. \A u \in Threads \ {t} : th[u].pc \notin {"poll", "judge"}
      BY <3>2, <3>3 DEF Threads
    <3>6. \A w \in Workers : th'[w].pc \notin {"enter", "build"}
      BY <3>2, <3>4 DEF Threads
    <3>7. \A u \in Threads : th'[u].pc # "stamp" /\ th'[u].pc \notin {"poll", "judge"}
      BY <3>4, <3>5 DEF Undisturbed
    <3> QED  BY <2>1, <3>6, <3>7 DEF Undisturbed
  <2> QED  BY <2>3, <2>4, Backing
<1> QED  BY <1>4, <1>5, <1>6, <1>7

\* A build is started on a ledger with no open handoff: with one the status is "waiting".
LEMMA OpensNothing ==
  ASSUME TInv, Watched, NEW status \in MayRead, status \notin {"waiting", "building"}
  PROVE  /\ ~ledger.handoff
         /\ Settled(OpenedFor(status)) /\ Exists(OpenedFor(status))
         /\ ~OpenedFor(status).handoff
<1>1. ledger \in Ledgers /\ Settled(ledger)
  BY DEF TInv, TypeOK, Watched
<1>2. ~ledger.handoff
  BY DEF MayRead, Watched, Settled, Backed
<1>3. CASE status = "unknown"
  BY <1>1, <1>2, <1>3, PlainWrite, Writes, EventTypes, NoHandoff DEF OpenedFor, Plain
<1>4. CASE status = "failed"
  <2>1. Exists(ledger)
    BY <1>4 DEF MayRead
  <2> DEFINE l == Appended(ledger, Note)
  <2>2. l \in Ledgers /\ Settled(l) /\ Exists(l) /\ ~l.handoff
    BY <1>1, <1>2, <2>1, PlainWrite, Writes, EventTypes, NoHandoff DEF Plain
  <2> HIDE DEF l
  <2>3. OpenedFor(status) = Appended(l, BudgetReset)
    BY <1>4 DEF OpenedFor, l
  <2>4. Settled(OpenedFor(status)) /\ Exists(OpenedFor(status))
    BY <2>2, <2>3, PlainWrite DEF Plain
  <2>5. ~OpenedFor(status).handoff
    BY <2>2, <2>3, Writes, EventTypes, NoHandoff
  <2> QED  BY <1>2, <2>4, <2>5
<1>5. CASE status \notin {"unknown", "failed"}
  <2>1. Exists(ledger)
    BY <1>5 DEF MayRead
  <2> QED  BY <1>1, <1>2, <1>5, <2>1 DEF OpenedFor
<1> QED  BY <1>3, <1>4, <1>5

LEMMA StartOpensNothing ==
  ASSUME TInv, Watched, NEW status \in MayRead, status \notin {"waiting", "building"}, NEW door
  PROVE  /\ Settled(OpenedBy(door, status)) /\ Exists(OpenedBy(door, status))
         /\ ~OpenedBy(door, status).handoff
<1> DEFINE l == OpenedFor(status)
<1>1. ~ledger.handoff /\ Settled(l) /\ Exists(l) /\ ~l.handoff
  BY OpensNothing
<1>2. OpenedBy("floor", status) = l /\ OpenedBy(door, status) \in {l, Appended(l, Note)}
  BY DEF OpenedBy
<1>3. l \in Ledgers
  BY <1>2, OpenedKeeps DEF TInv, TypeOK
<1> HIDE DEF l
<1>4. /\ Settled(Appended(l, Note)) /\ Exists(Appended(l, Note))
      /\ ~Appended(l, Note).handoff
  BY <1>1, <1>3, PlainWrite, Writes, EventTypes, NoHandoff DEF Plain
<1> QED  BY <1>1, <1>2, <1>4

LEMMA LaunchAligned ==
  ASSUME TInv, Watched, NEW t \in Threads, Launch(t)
  PROVE  Watched' /\ Calm
<1>1. handoffs' = handoffs /\ answers' = answers
  BY DEF Launch, history
<1> DEFINE v == [Idle EXCEPT !.role = "runner", !.pc = "enter"]
<1>2. PICK status \in MayRead :
        \/ (Watch(t) \/ Ends(t)) /\ ledger' = ledger
        \/ /\ status \notin {"waiting", "building"} /\ IdleWorkers # {}
           /\ ledger' = OpenedBy(th[t].role, status)
           /\ th' = [th EXCEPT ![t] = Idle, ![FreeWorker] = v]
  BY DEF Launch
<1>3. CASE (Watch(t) \/ Ends(t)) /\ ledger' = ledger
  BY <1>1, <1>3, ShyWatch, ShyEnds, ShyKeeps
<1>4. CASE ~((Watch(t) \/ Ends(t)) /\ ledger' = ledger)
  <2>1. Settled(ledger') /\ Exists(ledger') /\ ~ledger'.handoff
    BY <1>2, <1>4, StartOpensNothing
  <2>2. FreeWorker \in Workers
    BY <1>2, <1>4, FreeWorkerType
  <2>3. GoodThread(FreeWorker, v)
    BY <2>2, Fresh
  <2>4. v.pc = "enter" /\ Idle.pc = "idle"
    BY DEF Idle
  <2>5. th' = [th EXCEPT ![t] = Idle, ![FreeWorker] = v]
    BY <1>2, <1>4
  <2> HIDE DEF v
  <2>6. /\ th'[FreeWorker] = v /\ (t # FreeWorker => th'[t] = Idle)
        /\ \A u \in Threads \ {t, FreeWorker} : th'[u] = th[u]
    BY <2>2, <2>3, <2>5, GoodNow, TwoThreads DEF Threads
  <2>7. Calm
    BY <1>1, <2>1, <2>4, <2>6 DEF Calm, Undisturbed
  <2> QED  BY <2>1, <2>7, Backing
<1> QED  BY <1>3, <1>4

\* A verdict from the gate closes the handoff or leaves it closed, and has a run to be
\* written in.
LEMMA JudgedAligned ==
  ASSUME TInv, Watched, NEW saw, Exists(ledger), ledger' = Judged(saw)
  PROVE  Watched' /\ (ledger'.handoff => ledger.handoff)
<1>1. ledger \in Ledgers /\ Settled(ledger)
  BY DEF TInv, TypeOK, Watched
<1>2. CASE saw = "green"
  <2> DEFINE l == Appended(ledger, N3Passed("STORE_MANAGER"))
  <2>1. l \in Ledgers /\ Settled(l) /\ Exists(l) /\ (l.handoff => ledger.handoff)
    BY <1>1, PlainWrite, Writes, EventTypes, NoHandoff DEF Plain
  <2>2. ledger' = Appended(l, RunSucceeded("SUCCESS", "pilot"))
    BY <1>2 DEF Judged
  <2> HIDE DEF l
  <2>3. Settled(ledger') /\ Exists(ledger') /\ (ledger'.handoff => l.handoff)
    <3> DEFINE e == RunSucceeded("SUCCESS", "pilot")
    <3>1. e \in Plain /\ e \in Events /\ e.outcome # "HANDOFF_TO_N3"
      BY EventTypes, NoHandoff DEF Plain
    <3>2. ledger' = Appended(l, e)
      BY <2>2
    <3> HIDE DEF e
    <3> QED  BY <2>1, <3>1, <3>2, PlainWrite, Writes
  <2> QED  BY <2>1, <2>3, Backing
<1>3. CASE saw # "green"
  <2>1. PICK e \in {N3Failed({"store"}), N3Failed({})} : ledger' = Appended(ledger, e)
    BY <1>3 DEF Judged
  <2>2. e \in Plain /\ e.outcome # "HANDOFF_TO_N3" /\ e \in Events
    BY NoHandoff, EventTypes DEF Plain
  <2>3. Settled(ledger') /\ Exists(ledger') /\ (ledger'.handoff => ledger.handoff)
    BY <1>1, <2>1, <2>2, PlainWrite, Writes
  <2> QED  BY <2>3, Backing
<1> QED  BY <1>2, <1>3

LEMMA IngestAligned ==
  ASSUME TInv, Watched, NEW t \in Threads, Ingest(t)
  PROVE  Watched' /\ Calm
<1>1. GoodThreads /\ th[t] \in ThreadStates
  BY GoodNow, ThreadOf
<1>2. /\ Waits(t) => {"open", "leave"} \subseteq PcsOf(th[t].role) \ {"idle", "poll", "judge", "stamp"}
      /\ th[t].role = "runner"
           => "verdict" \in PcsOf(th[t].role) \ {"idle", "poll", "judge", "stamp"}
  BY Places DEF Waits
<1>3. /\ Ends(t) => Shy
      /\ Waits(t) /\ (Goes(t, "open") \/ Goes(t, "leave")) => Shy
      /\ th[t].role = "runner" /\ Goes(t, "verdict") => Shy
  BY <1>2, ShyEnds, ShyGoes
<1>4. CASE Join(t)
  <2>1. Waits(t)
    BY <1>4, RoleAt DEF Join, At, Waits
  <2>2. ledger' = ledger /\ handoffs' = handoffs /\ answers' = answers
    BY <1>4 DEF Join, history
  <2>3. Shy
    BY <1>3, <1>4, <2>1 DEF Join, Registers
  <2> QED  BY <2>2, <2>3, ShyKeeps
<1>5. CASE Open(t)
  <2>1. ledger' = ledger /\ handoffs' = handoffs /\ answers' = answers
    BY <1>5 DEF Open, shared, history
  <2>2. CASE ledger.handoff
    <3> DEFINE v == [th[t] EXCEPT !.pc = "poll", !.of = handoffs]
    <3>1. th' = [th EXCEPT ![t] = v]
      BY <1>5, <2>2 DEF Open, Target
    <3>2. v.pc = "poll" /\ v.of = handoffs
      BY <1>1 DEF ThreadStates
    <3> HIDE DEF v
    <3>3. th'[t] = v /\ \A u \in Threads \ {t} : th'[u] = th[u]
      BY <1>1, <3>1 DEF GoodThreads
    <3>4. Settled(ledger') /\ Exists(ledger')
      BY <2>1, <2>2 DEF Watched, Backed, Exists
    <3>5. Calm
      BY <2>1, <3>2, <3>3 DEF Calm, Undisturbed, Threads
    <3> QED  BY <3>4, <3>5, Backing
  <2>3. CASE ~ledger.handoff
    <3>1. Shy
      BY <1>3, <1>5, <2>3 DEF Open
    <3> QED  BY <2>1, <3>1, ShyKeeps
  <2> QED  BY <2>2, <2>3
<1>6. CASE Poll(t)
  <2>1. ledger' = ledger /\ handoffs' = handoffs /\ answers' = answers /\ th[t].pc = "poll"
    BY <1>6 DEF Poll, At, shared, history
  <2>2. PICK s \in Sees(t) : th' = [th EXCEPT ![t].pc = "judge", ![t].saw = s]
    BY <1>6 DEF Poll
  <2> DEFINE v == [th[t] EXCEPT !.pc = "judge", !.saw = s]
  <2>3. th' = [th EXCEPT ![t] = v]
    BY <2>2
  <2>4. v.pc = "judge" /\ v.of = th[t].of
    BY <1>1 DEF ThreadStates
  <2> HIDE DEF v
  <2>5. th'[t] = v /\ \A u \in Threads \ {t} : th'[u] = th[u]
    BY <1>1, <2>3 DEF GoodThreads
  <2>6. Settled(ledger') /\ Exists(ledger')
    BY <2>1 DEF Watched, Backed, Exists
  <2>7. Calm
    BY <2>1, <2>4, <2>5 DEF Calm, Undisturbed, Threads
  <2> QED  BY <2>6, <2>7, Backing
<1>7. CASE Judge(t)
  <2>1. /\ ledger' = Judged(th[t].saw) /\ handoffs' = handoffs /\ th[t].pc = "judge"
        /\ answers' = answers \cup {[for |-> handoffs, of |-> th[t].of, saw |-> th[t].saw]}
    BY <1>7 DEF Judge, At, shared
  <2>2. Exists(ledger)
    BY <2>1 DEF Watched, Backed
  <2>3. Watched' /\ (ledger'.handoff => ledger.handoff)
    BY <2>1, <2>2, JudgedAligned
  <2>4. Shy
    BY <1>3, <1>7 DEF Judge
  <2>5. Calm
    <3> SUFFICES ASSUME Undisturbed PROVE Undisturbed'
      BY DEF Calm
    <3>1. \A a \in answers' : a.for = a.of
      BY <2>1 DEF Undisturbed
    <3> QED  BY <2>1, <2>3, <2>4, <3>1 DEF Undisturbed, Shy, Threads
  <2> QED  BY <2>3, <2>5
<1>8. CASE Undecided(t)
  <2>1. ledger' = ledger /\ handoffs' = handoffs /\ answers' = answers
    BY <1>8 DEF Undecided
  <2>2. Shy
    BY <1>3, <1>8, ShyWatch DEF Undecided
  <2> QED  BY <2>1, <2>2, ShyKeeps
<1>9. CASE Leave(t)
  <2>1. ledger' = ledger /\ handoffs' = handoffs /\ answers' = answers
    BY <1>9 DEF Leave, history
  <2>2. Shy
    BY <1>3, <1>9 DEF Leave
  <2> QED  BY <2>1, <2>2, ShyKeeps
<1> QED  BY <1>4, <1>5, <1>6, <1>7, <1>8, <1>9 DEF Ingest

\* A runner's two events: a run stays recorded, and no handoff opens but its own.
LEMMA RunnerWrites ==
  ASSUME TInv, Watched, Exists(ledger), NEW e \in Plain
  PROVE  /\ ledger' = Appended(ledger, e) =>
              /\ Watched' /\ (e.outcome # "HANDOFF_TO_N3" /\ ledger'.handoff => ledger.handoff)
         /\ \A d \in Plain : ledger' = Appended(Appended(ledger, e), d) =>
              /\ Watched'
              /\ /\ e.outcome # "HANDOFF_TO_N3" /\ d.outcome # "HANDOFF_TO_N3" /\ ledger'.handoff
                 => ledger.handoff
<1>1. ledger \in Ledgers /\ Settled(ledger)
  BY DEF TInv, TypeOK, Watched
<1>2. e \in Events /\ \A d \in Plain : d \in Events
  BY PlainHarmless
<1> DEFINE l == Appended(ledger, e)
<1>4. l \in Ledgers /\ Settled(l) /\ Exists(l)
        /\ (e.outcome # "HANDOFF_TO_N3" /\ l.handoff => ledger.handoff)
  BY <1>1, <1>2, PlainWrite, Writes
<1>5. SUFFICES /\ ledger' = l =>
                    Watched' /\ (e.outcome # "HANDOFF_TO_N3" /\ ledger'.handoff => ledger.handoff)
               /\ \A d \in Plain : ledger' = Appended(l, d) =>
                    /\ Watched'
                    /\ /\ e.outcome # "HANDOFF_TO_N3" /\ d.outcome # "HANDOFF_TO_N3"
                       /\ ledger'.handoff
                       => ledger.handoff
  OBVIOUS
<1> HIDE DEF l
<1>6. ASSUME NEW d \in Plain, ledger' = Appended(l, d)
      PROVE  /\ Watched'
             /\ /\ e.outcome # "HANDOFF_TO_N3" /\ d.outcome # "HANDOFF_TO_N3" /\ ledger'.handoff
                => ledger.handoff
  <2>1. /\ Settled(ledger') /\ Exists(ledger')
        /\ (d.outcome # "HANDOFF_TO_N3" /\ ledger'.handoff => l.handoff)
    BY <1>2, <1>4, <1>6, PlainWrite, Writes
  <2> QED  BY <1>4, <2>1, Backing
<1> QED  BY <1>4, <1>6, Backing

LEMMA BuildAligned ==
  ASSUME TInv, Watched, NEW t \in Threads, Build(t)
  PROVE  Watched' /\ Calm
<1>1. GoodThreads /\ th[t] \in ThreadStates
  BY GoodNow, ThreadOf
<1>2. th[t].pc \in {"enter", "build", "verdict"}
  BY DEF Build, Builds, Enter, BuildFails, BuildSucceeds, BuildHandsOff, Reopen, Stopped, At
<1>3. th[t].role = "runner" /\ t \in Workers
  BY <1>2, RoleAt
<1>4. Exists(ledger)
  BY <1>3 DEF Watched, Backed
<1>5. {"enter", "build", "join"} \subseteq PcsOf(th[t].role) \ {"idle", "poll", "judge", "stamp"}
  BY <1>3, Places
<1>6. /\ RunnerEnds(t) => Shy
      /\ Goes(t, "join") => Shy
      /\ Goes(t, "build") /\ th[t].pc = "enter" => Shy
  BY <1>5, ShyEnds, ShyGoes DEF RunnerEnds
<1>7. CASE Enter(t)
  <2>1. handoffs' = handoffs /\ answers' = answers /\ Shy
    BY <1>6, <1>7 DEF Enter, At, history
  <2>2. PICK e \in {RunSucceeded("SUCCESS", "pilot"), PhaseStarted("WRITER")} :
          ledger' = Appended(ledger, e)
    BY <1>7 DEF Enter
  <2>3. e \in Plain /\ e.outcome # "HANDOFF_TO_N3"
    BY NoHandoff DEF Plain
  <2> QED  BY <1>4, <2>1, <2>2, <2>3, RunnerWrites, ShyKeeps
<1>8. CASE BuildFails(t) \/ BuildSucceeds(t)
  <2>1. handoffs' = handoffs /\ answers' = answers /\ Shy
    BY <1>6, <1>8 DEF BuildFails, BuildSucceeds, history
  <2>2. PICK e \in {GateFailed("WRITER"), GatePassed("WRITER")},
             d \in {RunFailed("WRITER", "FAILED_GATE", {}), RunSucceeded("SUCCESS", "pilot")} :
          ledger' = Appended(Appended(ledger, e), d)
    BY <1>8 DEF BuildFails, BuildSucceeds
  <2>3. e \in Plain /\ e.outcome # "HANDOFF_TO_N3" /\ d \in Plain /\ d.outcome # "HANDOFF_TO_N3"
    BY NoHandoff DEF Plain
  <2> QED  BY <1>4, <2>1, <2>2, <2>3, RunnerWrites, ShyKeeps
<1>9. CASE BuildHandsOff(t)
  <2>1. /\ handoffs' = handoffs + 1 /\ answers' = answers /\ Goes(t, "join") /\ BuildOutlastsPolls
        /\ ledger' = Appended(Appended(ledger, GatePassed("WRITER")),
                              RunFailed("STORE_MANAGER", "HANDOFF_TO_N3", {}))
    BY <1>9 DEF BuildHandsOff, history
  <2>2. GatePassed("WRITER") \in Plain /\ RunFailed("STORE_MANAGER", "HANDOFF_TO_N3", {}) \in Plain
    BY DEF Plain
  <2>3. Watched'
    BY <1>4, <2>1, <2>2, RunnerWrites
  <2>4. Calm
    <3> SUFFICES ASSUME FloorRuns, Undisturbed PROVE Undisturbed'
      BY DEF Calm
    <3>1. th'[t].pc = "join" /\ \A u \in Threads \ {t} : th'[u] = th[u]
      BY <1>1, <1>5, <2>1, Going
    <3>2. \A w \in Workers \ {t} : th[w].role # "runner"
      BY <1>3 DEF FloorRuns, Running
    <3>5. ~ledger.handoff
      BY <1>3, <1>9 DEF BuildHandsOff, Builds, At, Undisturbed
    <3>3. \A w \in Workers \ {t} : th[w].pc \notin {"enter", "build", "poll", "judge"}
      <4> SUFFICES ASSUME NEW w \in Workers \ {t}
                   PROVE  th[w].pc \notin {"enter", "build", "poll", "judge"}
        OBVIOUS
      <4>1. GoodThread(w, th[w]) /\ th[w].role # "waiter" /\ th[w].role # "runner"
        BY <2>1, <3>2, <3>5, ThreadOf DEF BuildOutlastsPolls, Threads
      <4> QED  BY <4>1 DEF GoodThread, Idle
    <3>4. \A q \in Requests : th[q].pc \notin {"poll", "judge"}
      BY <2>1, <3>5 DEF BuildOutlastsPolls
    <3> QED  BY <2>1, <3>1, <3>3, <3>4 DEF Undisturbed, Threads
  <2> QED  BY <2>3, <2>4
<1>10. CASE Reopen(t)
  <2>1. /\ ledger' = Appended(ledger, StoreRework) /\ ProductFailed
        /\ handoffs' = handoffs /\ answers' = answers /\ Goes(t, "enter")
    BY <1>10 DEF Reopen, StoreRework, shared, history
  <2>2. ~ledger.handoff /\ ledger \in Ledgers
    BY <2>1 DEF ProductFailed, Watched, Settled, TInv, TypeOK
  <2>3. Settled(ledger') /\ Exists(ledger')
    BY <1>4, <2>1, <2>2, ReworkWrite
  <2>4. ~ledger'.handoff
    BY <2>1, <2>2, Writes, EventTypes, NoHandoff DEF StoreRework
  <2>5. th'[t].pc = "enter" /\ \A u \in Threads \ {t} : th'[u] = th[u]
    BY <1>1, <1>5, <2>1, Going
  <2>6. Calm
    BY <2>1, <2>4, <2>5 DEF Calm, Undisturbed
  <2> QED  BY <2>3, <2>6, Backing
<1>11. CASE Stopped(t)
  <2>1. handoffs' = handoffs /\ answers' = answers /\ Shy
    BY <1>6, <1>11 DEF Stopped, history
  <2>2. \/ ledger' = ledger
        \/ \E e \in {RunFailed("STORE_MANAGER", "FAILED_GATE", {}), GatePassed("STORE_MANAGER")} :
             ledger' = Appended(ledger, e)
    BY <1>11 DEF Stopped
  <2>3. \A e \in {RunFailed("STORE_MANAGER", "FAILED_GATE", {}), GatePassed("STORE_MANAGER")} :
          e \in Plain /\ e.outcome # "HANDOFF_TO_N3"
    BY NoHandoff DEF Plain
  <2> QED  BY <1>4, <2>1, <2>2, <2>3, RunnerWrites, ShyKeeps
<1> QED  BY <1>7, <1>8, <1>9, <1>10, <1>11 DEF Build

LEMMA ServerAligned ==
  ASSUME TInv, Watched, (\E door \in Doors : Arrive(door)) \/ GateAnswers \/ Crash \/ Boot
  PROVE  Watched' /\ Calm
<1>1. th \in [Threads -> ThreadStates]
  BY DEF TInv, TypeOK
<1>2. ASSUME NEW door \in Doors, Arrive(door)  PROVE  Watched' /\ Calm
  <2>1. FreeRequest \in Threads /\ ledger' = ledger /\ handoffs' = handoffs /\ answers' = answers
    BY <1>2 DEF Arrive, FreeRequest, shared, Threads
  <2> DEFINE v == [Idle EXCEPT !.role = door, !.pc = FirstStop(door)]
  <2>2. v.role # "runner" /\ v.pc \in {"door", "launch"}
    BY DEF Idle, Doors, ChatDoors, FirstStop
  <2>3. th' = [th EXCEPT ![FreeRequest] = v]
    BY <1>2 DEF Arrive
  <2> HIDE DEF v
  <2>4. th'[FreeRequest] = v /\ \A u \in Threads \ {FreeRequest} : th'[u] = th[u]
    BY <1>1, <2>1, <2>3
  <2>5. Shy
    BY <2>2, <2>4 DEF Shy
  <2> QED  BY <2>1, <2>5, ShyKeeps
<1>3. CASE GateAnswers
  <2>1. Shy
    BY <1>3 DEF GateAnswers, Shy
  <2> QED  BY <1>3, <2>1, ShyKeeps DEF GateAnswers, history
<1>4. CASE Crash
  <2>1. Shy
    BY <1>4 DEF Crash, Shy, Idle
  <2> QED  BY <1>4, <2>1, ShyKeeps DEF Crash, history
<1>5. CASE BootIdle
  <2>1. Shy
    BY <1>5, ShyRewatch DEF BootIdle
  <2> QED  BY <1>5, <2>1, ShyKeeps DEF BootIdle, history
<1>6. CASE BootFails
  <2>1. Shy /\ handoffs' = handoffs /\ answers' = answers
    BY <1>6, ShyRewatch DEF BootFails, history
  <2>2. Exists(ledger)
    BY <1>6 DEF BootFails, Orphaned, Watched, Backed
  <2>3. RunFailed("none", "FAILED_ROLE_ERROR", {}) \in Plain
    BY DEF Plain
  <2> QED  BY <1>6, <2>1, <2>2, <2>3, NoHandoff, RunnerWrites, ShyKeeps DEF BootFails
<1>7. CASE BootResumes
  <2>1. /\ Orphaned /\ ~up /\ ledger' = Appended(ledger, Note)
        /\ handoffs' = handoffs /\ answers' = answers
    BY <1>7 DEF BootResumes, history
  <2>2. Exists(ledger) /\ ~ledger.handoff
    BY <2>1 DEF Orphaned, Watched, Backed, Settled
  <2>3. Note \in Plain
    BY DEF Plain
  <2>4. Watched' /\ ~ledger'.handoff
    BY <2>1, <2>2, <2>3, NoHandoff, RunnerWrites
  <2>5. FreeWorker \in Threads
    BY <2>1, DownFree, FreeWorkerType DEF Threads
  <2> DEFINE v == [Idle EXCEPT !.role = "runner", !.pc = "enter"]
  <2>6. th' = [th EXCEPT ![FreeWorker] = v] /\ v.pc = "enter"
    BY <1>7 DEF BootResumes, Idle
  <2> HIDE DEF v
  <2>7. th'[FreeWorker] = v /\ \A u \in Threads \ {FreeWorker} : th'[u] = th[u]
    BY <1>1, <2>5, <2>6
  <2>8. Calm
    BY <2>1, <2>4, <2>6, <2>7 DEF Calm, Undisturbed
  <2> QED  BY <2>4, <2>8
<1> QED  BY <1>2, <1>3, <1>4, <1>5, <1>6, <1>7 DEF Boot

LEMMA StepAligned == TInv /\ Registered /\ Floored /\ Aligned /\ [Next]_vars => Aligned'
<1> SUFFICES ASSUME TInv, Registered, Floored, Aligned, [Next]_vars PROVE Aligned'  OBVIOUS
<1>1. Watched
  BY DEF Aligned
<1>2. ASSUME NEW t \in Threads, Step(t)  PROVE  Watched' /\ Calm
  BY <1>1, <1>2, DoorAligned, LaunchAligned, IngestAligned, BuildAligned DEF Step, Door
<1>3. CASE UNCHANGED vars
  BY <1>3 DEF vars, shared, history, Aligned, Watched, Settled, Backed, Exists, Undisturbed
<1>4. CASE Next
  <2>1. Watched' /\ Calm
    BY <1>1, <1>2, <1>4, ServerAligned DEF Next
  <2>2. (byFloor' => byFloor) /\ (adopted => adopted')
    BY Recalled
  <2> QED  BY <2>1, <2>2 DEF Aligned, Calm, Floored
<1> QED  BY <1>3, <1>4

LEMMA AlwaysAligned == Spec => []Aligned
<1>1. Init => Floored /\ Aligned
  BY ThreadsAreDistinct DEF Init, Floored, FloorRuns, Running, At, Idle, Threads, Aligned, Watched,
     Settled, Backed, Undisturbed, EmptyLedger
<1> QED  BY <1>1, AlwaysTInv, AlwaysRegistered, StepFloored, StepAligned, PTL DEF Spec

\* No runner of such an owner builds while a handoff of its workspace awaits the Store
\* gate, as long as no green build was adopted beside a live runner or waiter.
THEOREM FloorBuildsNothingMeanwhile == Spec => []NoBuildOnOpenHandoff
<1>1. Aligned => NoBuildOnOpenHandoff
  BY DEF Aligned, Undisturbed, NoBuildOnOpenHandoff, Builds, At
<1> QED  BY <1>1, AlwaysAligned, PTL

\* Nor, in the same case, is a verdict written for another handoff than the one whose commit
\* the gate judged, whatever crashes, reworks and second waiters come between the read and the write.
THEOREM FloorAnswersItsHandoff == Spec => []AnswersItsHandoff
<1>1. Aligned => AnswersItsHandoff
  BY DEF Aligned, Undisturbed, AnswersItsHandoff
<1> QED  BY <1>1, AlwaysAligned, PTL

=============================================================================
