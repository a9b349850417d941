------------------------------- MODULE StoreGate -------------------------------
(***************************************************************************)
(* One platform's workspace and the threads that meet on it: the requests  *)
(* of its owner (the Floor's actions and build links pasted into the chat, *)
(* POST /generate, POST /n3-reseed), the runner threads they start, and    *)
(* the waiters that poll the Store gate after a handoff.  Each thread      *)
(* reads the ledger, goes away -- to GitHub, or to the next line -- and    *)
(* comes back to act on what it read.                                      *)
(* RoleRunner models what one runner does inside a build; here a build is  *)
(* its first event and its verdict.                                        *)
(***************************************************************************)
EXTENDS BuildLedger

CONSTANTS
  Requests,     \* threads that serve the owner's requests
  Workers,      \* daemon threads: runners and waiters
  None,         \* no thread
  MaxHandoffs,  \* bound on the handoffs of a behaviour
  MaxRequests,  \* bound on the requests made
  MaxCrashes    \* bound on the restarts of the server

\* A thread is one or the other, and None is neither.
ASSUME ThreadsAreDistinct == Requests \cap Workers = {} /\ None \notin Requests \cup Workers

\* There is a thread to watch a handoff with, and the bounds are numbers.
ASSUME WorkersExist == Workers # {}
ASSUME BoundsAreNumbers == MaxHandoffs \in Nat /\ MaxRequests \in Nat /\ MaxCrashes \in Nat

\* What a red Store gate charges to the product.
ASSUME StoreFailureNamed == "store" \in Failures
ASSUME BlueprintNamed == "bp" \in Inputs

VARIABLES
  ledger,    \* the workspace's ledger
  handoffs,  \* how many handoffs it holds; the newest is the one awaiting
  gate,      \* handoff -> what the store-gate status of its commit says
  slot,      \* _N3_THREADS: the registered waiter
  runner,    \* _RUNNER_THREADS: the runner registered last
  th,        \* thread -> what it is, where it is, the handoff it polls, what it saw
  up,        \* the server is running
  answers,   \* history: [for, of, saw] of each Store-gate verdict in the ledger
  lapsed,    \* history: the last handoff a waiter gave up on, GitHub out of reach
  byFloor,   \* history: the owner has only used the Floor's typed actions so far
  adopted,   \* history: a build was adopted as green beside a live runner or waiter
  asked, crashes

shared == <<handoffs, gate, slot, runner, up>>
history == <<answers, lapsed, byFloor, adopted>>
bounds == <<asked, crashes>>
vars == <<ledger, shared, th, history, bounds>>

\* Passed, failed on the product, failed on what the Factory wrote or never scored.
Answers == {"green", "red", "owed"}

Threads == Requests \cup Workers
ChatDoors == {"floor", "link"}
Doors == ChatDoors \cup {"generate", "reseed"}

Idle == [role |-> "none", pc |-> "idle", of |-> 0, saw |-> "none"]
At(t, pc) == th[t].pc = pc
IdleWorkers == {w \in Workers : At(w, "idle")}

\* Threads of a pool are interchangeable, so any one that is free will do.
FreeWorker == CHOOSE w \in IdleWorkers : TRUE
FreeRequest == CHOOSE q \in Requests : At(q, "idle")

Goes(t, pc) == th' = [th EXCEPT ![t].pc = pc]
Ends(t) == th' = [th EXCEPT ![t] = Idle]

-----------------------------------------------------------------------------
(* Readings.                                                                *)

\* Mutant of Live: the status is trusted over the registry.
LiveByStatus == runner # None /\ ledger.terminal.kind = "none"

\* live_runner_thread: the thread registered last, while it is alive.
Live == runner # None

\* What build_status may answer.  With no verdict and no thread it is a matter of
\* how long the ledger has been quiet.
MayRead ==
  IF ~Exists(ledger) THEN {"unknown"}
  ELSE IF ledger.terminal.kind = "RUN_SUCCEEDED" THEN {"succeeded"}
  ELSE IF ledger.terminal.kind = "RUN_FAILED"
    THEN {IF ledger.handoff THEN "waiting" ELSE "failed"}
  ELSE IF Live THEN {"building"} ELSE {"building", "stalled"}

Init ==
  /\ ledger = EmptyLedger /\ handoffs = 0
  /\ gate = [h \in 1..MaxHandoffs |-> "pending"]
  /\ slot = None /\ runner = None /\ up = TRUE
  /\ th = [t \in Threads |-> Idle]
  /\ answers = {} /\ lapsed = 0 /\ byFloor = TRUE /\ adopted = FALSE
  /\ asked = 0 /\ crashes = 0

-----------------------------------------------------------------------------
(* Starting a waiter: registered under the guard, before it runs.           *)

\* Mutant of Watch: the registry is not looked at again under the guard.
WatchUnguarded(t) ==
  /\ IdleWorkers # {}
  /\ slot' = FreeWorker
  /\ th' = [th EXCEPT ![t] = Idle,
                      ![FreeWorker] = [Idle EXCEPT !.role = "waiter", !.pc = "join"]]

\* start_n3_ingest_job, called by request t as the last thing it does.
Watch(t) ==
  IF slot # None THEN Ends(t) /\ UNCHANGED slot
  ELSE /\ IdleWorkers # {}
       /\ slot' = FreeWorker
       /\ th' = [th EXCEPT ![t] = Idle,
                           ![FreeWorker] = [Idle EXCEPT !.role = "waiter", !.pc = "join"]]

-----------------------------------------------------------------------------
(* The owner's doors.                                                       *)

\* attach_from_link asks nothing of the workspace it clones or re-enters: whether a handoff
\* awaits the gate there, the platform is finished or a thread is alive.  A Continue whose
\* workspace has left this host enters by it too, and is a "link" here.
FirstStop(door) == IF door = "link" THEN "launch" ELSE "door"

\* A chat message is handled on the event loop without a pause, be it an action of the
\* Floor or a pasted link; the HTTP routes run on the thread pool.
Arrive(door) ==
  /\ up /\ asked < MaxRequests /\ \E q \in Requests : At(q, "idle")
  /\ door \in ChatDoors => \A q \in Requests : th[q].role \notin ChatDoors
  /\ th' = [th EXCEPT ![FreeRequest] = [Idle EXCEPT !.role = door, !.pc = FirstStop(door)]]
  /\ asked' = asked + 1 /\ byFloor' = (byFloor /\ door = "floor")
  /\ UNCHANGED <<ledger, shared, answers, lapsed, adopted, crashes>>

\* start_or_resume_coder: a handoff is ingested, a finished platform is left alone,
\* a build with a live thread is not started again.
Continues(t) ==
  IF ledger.handoff THEN Goes(t, "open")
  ELSE IF PilotReady(ledger) \/ Live THEN Ends(t)
  ELSE Goes(t, "launch")

\* approve_and_generate, of a feature list drafted anew under the same product: it looks
\* for a live thread, and leaves the ledger to the start.
Approves(t) == IF Live THEN Ends(t) ELSE Goes(t, "launch")

FloorDoor(t) ==
  /\ th[t].role = "floor" /\ At(t, "door")
  /\ Continues(t) \/ Approves(t)
  /\ UNCHANGED <<ledger, shared, history, bounds>>

\* has_running_build: only a status of "building" refuses.
HttpDoor(t) ==
  /\ th[t].role \in {"generate", "reseed"} /\ At(t, "door")
  /\ \E status \in MayRead :
       IF status = "building" THEN Ends(t)
       ELSE Goes(t, IF th[t].role = "generate" THEN "launch" ELSE "stamp")
  /\ UNCHANGED <<ledger, shared, history, bounds>>

\* What start_runner_build writes before the thread starts.
OpenedFor(status) ==
  CASE status = "unknown" -> Appended(ledger, RunStarted("bp"))
    [] status = "failed"  -> Appended(Appended(ledger, Note), BudgetReset)
    [] OTHER              -> ledger

\* ... and of a pasted link, which branch it resumes.
OpenedBy(door, status) ==
  IF door = "link" THEN Appended(OpenedFor(status), Note) ELSE OpenedFor(status)

\* start_runner_build: it reads the status again, and does not ask for a live thread.
Launch(t) ==
  /\ At(t, "launch")
  /\ \E status \in MayRead :
       CASE status = "waiting"  -> Watch(t) /\ UNCHANGED <<ledger, runner>>
         [] status = "building" -> Ends(t) /\ UNCHANGED <<ledger, runner, slot>>
         [] OTHER ->
              /\ IdleWorkers # {}
              /\ ledger' = OpenedBy(th[t].role, status)
              /\ runner' = FreeWorker
              /\ th' = [th EXCEPT ![t] = Idle,
                                  ![FreeWorker] = [Idle EXCEPT !.role = "runner", !.pc = "enter"]]
              /\ UNCHANGED slot
  /\ UNCHANGED <<handoffs, gate, up, history, bounds>>

Green == \E a \in answers : a.saw = "green"

\* reseed_handoff_ledger: a new handoff, unless one is open or the gate ever passed.
Stamp(t) ==
  /\ At(t, "stamp")
  /\ IF ledger.handoff THEN Goes(t, "open") /\ UNCHANGED <<ledger, handoffs>>
     ELSE IF PilotReady(ledger) \/ Green THEN Ends(t) /\ UNCHANGED <<ledger, handoffs>>
     ELSE /\ handoffs < MaxHandoffs
          /\ ledger' = Appended(IF Exists(ledger) THEN ledger
                                ELSE Appended(ledger, RunStarted("bp")),
                                RunFailed("WRITER", "HANDOFF_TO_N3", {}))
          /\ handoffs' = handoffs + 1
          /\ Goes(t, "open")
  /\ UNCHANGED <<gate, slot, runner, up, history, bounds>>

\* _adopt_green_build, which the Floor's Continue tries before it looks for a thread: a
\* branch the gate has passed, if the workspace still equals it, is handed off anew.
Adopt(t) ==
  /\ th[t].role = "floor" /\ At(t, "door")
  /\ ~ledger.handoff /\ ~PilotReady(ledger) /\ ~Green
  /\ handoffs < MaxHandoffs /\ \E h \in 1..handoffs : gate[h] = "green"
  /\ ledger' = Appended(ledger, RunFailed("WRITER", "HANDOFF_TO_N3", {}))
  /\ handoffs' = handoffs + 1
  /\ gate' = [gate EXCEPT ![handoffs + 1] = "green"]
  /\ adopted' = (adopted \/ Live \/ slot # None)
  /\ Goes(t, "open")
  /\ UNCHANGED <<slot, runner, up, answers, lapsed, byFloor, bounds>>

-----------------------------------------------------------------------------
(* One ingest: by a request (one read of the gate) or a waiter (a long poll). *)

Waits(t) == th[t].role \in {"waiter", "runner"}

\* wait_and_ingest_n3: a waiter that finds another one alive goes without.
Registers(t) ==
  IF slot \notin {None, t}
  THEN UNCHANGED slot /\ IF th[t].role = "runner" THEN Goes(t, "verdict") ELSE Ends(t)
  ELSE slot' = t /\ Goes(t, "open")

Join(t) ==
  /\ At(t, "join") /\ Registers(t)
  /\ UNCHANGED <<ledger, handoffs, gate, runner, up, history, bounds>>

\* Mutant of Target: the oldest handoff's commit outlives it.
TargetOldest == 1

\* builds_fields_from_ledger: the newest record that names the gate's branch.
Target == handoffs

\* ingest_n3_store_gate: is a handoff open, and which commit is it about.
Open(t) ==
  /\ At(t, "open")
  /\ IF ledger.handoff THEN th' = [th EXCEPT ![t].pc = "poll", ![t].of = Target]
     ELSE IF Waits(t) THEN Goes(t, "leave") ELSE Ends(t)
  /\ UNCHANGED <<ledger, shared, history, bounds>>

\* What a read of the gate can end with: its answer; for a poll no answer by its wall,
\* written like a failure the Factory owes, nobody's rework; or GitHub refusing to be
\* asked -- which a poll gives up on at its wall and a request takes for no answer yet.
Sees(t) ==
  (IF Waits(t) THEN {"unreachable"} ELSE {"pending"})
    \cup (IF gate[th[t].of] # "pending" THEN {gate[th[t].of]}
          ELSE IF Waits(t) THEN {"owed"} ELSE {})

Poll(t) ==
  /\ At(t, "poll")
  /\ \E s \in Sees(t) : th' = [th EXCEPT ![t].pc = "judge", ![t].saw = s]
  /\ UNCHANGED <<ledger, shared, history, bounds>>

\* judge_snapshot: the events written for what was seen.
Judged(saw) ==
  CASE saw = "green" -> Appended(Appended(ledger, N3Passed("STORE_MANAGER")),
                                 RunSucceeded("SUCCESS", "pilot"))
    [] saw = "red"   -> Appended(ledger, N3Failed({"store"}))
    [] OTHER         -> Appended(ledger, N3Failed({}))

\* The verdict is written as it was read; the ledger is not looked at again.
Judge(t) ==
  /\ At(t, "judge") /\ th[t].saw \notin {"pending", "unreachable"}
  /\ ledger' = Judged(th[t].saw)
  /\ answers' = answers \cup {[for |-> handoffs, of |-> th[t].of, saw |-> th[t].saw]}
  /\ IF Waits(t) THEN Goes(t, "leave") ELSE Ends(t)
  /\ UNCHANGED <<shared, lapsed, byFloor, adopted, bounds>>

\* No verdict: a request leaves a waiter behind, a waiter leaves the handoff open.
Undecided(t) ==
  /\ At(t, "judge") /\ th[t].saw \in {"pending", "unreachable"}
  /\ IF Waits(t) THEN Goes(t, "leave") /\ lapsed' = th[t].of /\ UNCHANGED slot
     ELSE Watch(t) /\ UNCHANGED lapsed
  /\ UNCHANGED <<ledger, handoffs, gate, runner, up, answers, byFloor, adopted, bounds>>

\* The waiter takes itself out of the registry.
Leave(t) ==
  /\ At(t, "leave")
  /\ slot' = IF slot = t THEN None ELSE slot
  /\ IF th[t].role = "runner" THEN Goes(t, "verdict") ELSE Ends(t)
  /\ UNCHANGED <<ledger, handoffs, gate, runner, up, history, bounds>>

-----------------------------------------------------------------------------
(* The runner thread: build_jobs._run around RoleRunner.run.                *)

Unregistered(t) == IF runner = t THEN None ELSE runner

RunnerEnds(t) == Ends(t) /\ runner' = Unregistered(t)

Builds(t) == th[t].role = "runner" /\ At(t, "build")

Enter(t) ==
  /\ th[t].role = "runner" /\ At(t, "enter")
  /\ IF ledger.terminal.kind = "RUN_SUCCEEDED"
     THEN /\ ledger' = Appended(ledger, RunSucceeded("SUCCESS", "pilot"))
          /\ RunnerEnds(t)
     ELSE /\ ledger' = Appended(ledger, PhaseStarted("WRITER"))
          /\ Goes(t, "build") /\ UNCHANGED runner
  /\ UNCHANGED <<handoffs, gate, slot, up, history, bounds>>

BuildFails(t) ==
  /\ Builds(t) /\ RunnerEnds(t)
  /\ ledger' = Appended(Appended(ledger, GateFailed("WRITER")),
                        RunFailed("WRITER", "FAILED_GATE", {}))
  /\ UNCHANGED <<handoffs, gate, slot, up, history, bounds>>

BuildSucceeds(t) ==
  /\ Builds(t) /\ RunnerEnds(t)
  /\ ledger' = Appended(Appended(ledger, GatePassed("WRITER")),
                        RunSucceeded("SUCCESS", "pilot"))
  /\ UNCHANGED <<handoffs, gate, slot, up, history, bounds>>

\* Whoever holds or is about to read the answer to a handoff that is no longer open is
\* through within half a minute, a poll's interval; the phases of a build take many.
BuildOutlastsPolls ==
  ~ledger.handoff =>
    /\ \A w \in Workers : th[w].role # "waiter"
    /\ \A q \in Requests : th[q].pc \notin {"open", "poll", "judge"}

BuildHandsOff(t) ==
  /\ Builds(t) /\ handoffs < MaxHandoffs /\ BuildOutlastsPolls
  /\ ledger' = Appended(Appended(ledger, GatePassed("WRITER")),
                        RunFailed("STORE_MANAGER", "HANDOFF_TO_N3", {}))
  /\ handoffs' = handoffs + 1
  /\ Goes(t, "join")
  /\ UNCHANGED <<gate, slot, runner, up, history, bounds>>

\* After the poll: a product-owned failure goes through the rule (RoleRunner), which
\* re-opens the run, stops it or lets it pass as advice; anything else ends the thread.
\* Mutant of ProductFailed: any failed verdict sends the runner back in.
AnyFailed == ledger.terminal.kind = "RUN_FAILED"

ProductFailed == ledger.terminal.kind = "RUN_FAILED" /\ ledger.terminal.names # {}

Reopen(t) ==
  /\ At(t, "verdict") /\ ProductFailed
  /\ ledger' = Appended(ledger, Rework("STORE_MANAGER", {"store"},
                                       {"WRITER", "TESTER", "STORE_MANAGER"}))
  /\ Goes(t, "enter")
  /\ UNCHANGED <<shared, history, bounds>>

Stopped(t) ==
  /\ At(t, "verdict") /\ RunnerEnds(t)
  /\ IF ProductFailed
     THEN \E e \in {RunFailed("STORE_MANAGER", "FAILED_GATE", {}), GatePassed("STORE_MANAGER")} :
            ledger' = Appended(ledger, e)
     ELSE UNCHANGED ledger
  /\ UNCHANGED <<handoffs, gate, slot, up, history, bounds>>

-----------------------------------------------------------------------------
(* GitHub, and the server's restarts.                                       *)

GateAnswers ==
  /\ \E h \in 1..handoffs, a \in Answers :
       gate[h] = "pending" /\ gate' = [gate EXCEPT ![h] = a]
  /\ UNCHANGED <<ledger, handoffs, slot, runner, th, up, history, bounds>>

Crash ==
  /\ up /\ crashes < MaxCrashes /\ crashes' = crashes + 1
  /\ up' = FALSE /\ slot' = None /\ runner' = None
  /\ th' = [t \in Threads |-> Idle]
  /\ UNCHANGED <<ledger, handoffs, gate, history, asked>>

\* recover_stranded_n3_handoffs, after the orphans: w is free for the waiter.
\* Mutant of Rewatch: only a runner's own thread polls for it.
RewatchNothing(w) == UNCHANGED <<slot, th>>

Rewatch(w) ==
  IF ledger.handoff
  THEN slot' = w /\ th' = [th EXCEPT ![w] = [Idle EXCEPT !.role = "waiter", !.pc = "join"]]
  ELSE UNCHANGED <<slot, th>>

\* is_boot_resumable_orphan is about a writer's open call in a run with no verdict;
\* its age, and what the session's files hold, decide between the three outcomes.
Orphaned == ledger.terminal.kind = "none" /\ "WRITER" \in ledger.running

BootIdle ==
  /\ ~up /\ up' = TRUE /\ Rewatch(FreeWorker)
  /\ UNCHANGED <<ledger, handoffs, gate, runner, history, bounds>>

BootResumes ==
  /\ ~up /\ Orphaned /\ up' = TRUE
  /\ ledger' = Appended(ledger, Note)
  /\ runner' = FreeWorker
  /\ th' = [th EXCEPT ![FreeWorker] = [Idle EXCEPT !.role = "runner", !.pc = "enter"]]
  /\ UNCHANGED <<handoffs, gate, slot, history, bounds>>

\* No blueprint, no account or no coder to resume with: failed closed.
BootFails ==
  /\ ~up /\ Orphaned /\ up' = TRUE /\ Rewatch(FreeWorker)
  /\ ledger' = Appended(ledger, RunFailed("none", "FAILED_ROLE_ERROR", {}))
  /\ UNCHANGED <<handoffs, gate, runner, history, bounds>>

Boot == BootIdle \/ BootResumes \/ BootFails

-----------------------------------------------------------------------------

Ingest(t) == Join(t) \/ Open(t) \/ Poll(t) \/ Judge(t) \/ Undecided(t) \/ Leave(t)

Build(t) == Enter(t) \/ BuildFails(t) \/ BuildSucceeds(t) \/ BuildHandsOff(t)
              \/ Reopen(t) \/ Stopped(t)

Door(t) == FloorDoor(t) \/ Adopt(t) \/ HttpDoor(t) \/ Launch(t) \/ Stamp(t)

Step(t) == Door(t) \/ Ingest(t) \/ Build(t)

Next ==
  \/ \E door \in Doors : Arrive(door)
  \/ \E t \in Threads : Step(t)
  \/ GateAnswers \/ Crash \/ Boot

Spec == Init /\ [][Next]_vars

\* The processor is not left idle while a thread can run, and the service is
\* restarted when it is down.  No fairness between the threads is needed.
FairSpec == Spec /\ WF_vars(Boot \/ \E t \in Threads : Step(t))

-----------------------------------------------------------------------------
(* Properties.                                                              *)

Pcs == {"idle", "door", "launch", "stamp", "join", "open", "poll", "judge", "leave",
        "enter", "build", "verdict"}
ThreadStates ==
  [role : {"none", "waiter", "runner"} \cup Doors, pc : Pcs, of : 0..MaxHandoffs,
   saw : Answers \cup {"none", "pending", "unreachable"}]

\* Every variable holds a value of its kind.
TypeOK ==
  /\ ledger \in Ledgers /\ handoffs \in 0..MaxHandoffs /\ up \in BOOLEAN
  /\ gate \in [1..MaxHandoffs -> Answers \cup {"pending"}]
  /\ slot \in Workers \cup {None} /\ runner \in Workers \cup {None}
  /\ th \in [Threads -> ThreadStates]
  /\ answers \subseteq [for : 0..MaxHandoffs, of : 1..MaxHandoffs, saw : Answers]
  /\ lapsed \in 0..MaxHandoffs /\ byFloor \in BOOLEAN /\ adopted \in BOOLEAN
  /\ asked \in 0..MaxRequests /\ crashes \in 0..MaxCrashes

\* At most one thread polls the gate for a workspace, and it is the registered one,
\* whoever asked for it: the runner that handed off, a request, or the boot.
OneWaiter ==
  \A w \in Workers : th[w].pc \in {"open", "poll", "judge", "leave"} => slot = w

Running(w) == th[w].role = "runner"

\* The tests of /generate ask for this of every door: a second start while a build
\* runs is refused.  A run resumed after a failure reads "failed" until an event
\* re-opens it, and a failed run may be started.
SingleFlight == \A v, w \in Workers : Running(v) /\ Running(w) => v = w

\* An owner who starts builds only by the Floor's typed actions -- neither by HTTP nor by
\* a link pasted into the chat -- never has two runners on one workspace, through
\* resumes, reworks and restarts: these actions look for a live thread.
OneRunnerByFloor == byFloor => SingleFlight

\* Nor does a runner build while a handoff of its workspace awaits the Store gate, as
\* long as Continue adopted no green build beside a live thread, which it does not look for.
NoBuildOnOpenHandoff ==
  byFloor /\ ~adopted => \A w \in Workers : Builds(w) => ~ledger.handoff

\* Nor is a verdict written for another handoff than the one whose commit the gate
\* judged -- also by a waiter that read the gate before a crash, a rework or the
\* ingest of the same handoff by another thread.
AnswersItsHandoff == byFloor /\ ~adopted => \A a \in answers : a.for = a.of

\* A handoff is answered, across restarts of the server, unless GitHub was out of reach
\* to the end of a waiter's wall, or a reseed, an adoption or a second runner may have
\* opened it while the waiter of another one was leaving.
HandoffIsAnswered ==
  ledger.handoff ~> (~ledger.handoff \/ lapsed = handoffs \/ ~byFloor \/ adopted)
=============================================================================
