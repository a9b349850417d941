------------------------------ MODULE RoleRunner ------------------------------
(***************************************************************************)
(* One platform's build: the runner that walks a workspace through the     *)
(* five phases (factory/build/runner.py, RoleRunner.run), the thread that  *)
(* carries it and its Store-gate wait (factory/build_jobs.py, _run), and   *)
(* the calls that start, resume and kill it.  The workspace and its ledger *)
(* survive a crash; everything else is the runner's memory.                *)
(*                                                                         *)
(* One action is one stretch of code between two effects a crash can       *)
(* separate: a ledger append, the WRITER's commit, a push.                 *)
(***************************************************************************)
EXTENDS BuildLedger

CONSTANTS
  GateBudget,     \* BuildBudget.max_rework: rework rounds each gate may spend
  Ceiling,        \* REWORK_CEILING: rework rounds the whole build may spend
  Climbing,       \* the inputs whose build level reaches the Store gate
  Declared,       \* the inputs whose blueprint declares a build level
  Suites,         \* the cycles a caller asks for, a subset of {"code", "pilot"}
  Attached,       \* the run has a branch of record to checkpoint to
  Armed,          \* cerebrum-builds can take a Store-gate handoff
  Links,          \* build links a caller pastes: to a "fresh" tip, to a "stale" one
  CollectAll,     \* the values of FACTORY_GATE_COLLECT_ALL a process runs under
  MaxStarts,      \* bound: starts of the build, resumes included
  MaxCrashes      \* bound: crashes of the process or of the thread

ASSUME BudgetAssumption == GateBudget \in Nat /\ Ceiling \in Nat
ASSUME SwitchAssumption ==
  /\ Climbing \subseteq Inputs /\ Declared \subseteq Inputs
  /\ Attached \in BOOLEAN /\ Armed \in BOOLEAN
  /\ Suites \subseteq {"code", "pilot"} /\ CollectAll \subseteq BOOLEAN
  /\ Links \subseteq {"fresh", "stale"}
ASSUME BoundAssumption == MaxStarts \in Nat /\ MaxCrashes \in Nat

VARIABLES
  \* what survives a crash
  led,        \* the ledger
  tree,       \* app/ in the workspace: "bare", "whole", or "torn" inside a commit
  branch,     \* the branch of record: what its tip carries and records
  \* what the runner holds in memory
  pc,         \* where the build thread is; "down" when there is none
  phase,      \* the phase being run
  done,       \* run()'s `done`
  cycle,      \* RoleRunner.cycle
  suite,      \* the cycle _run was asked for
  given,      \* the inputs hash this run was given
  collecting, \* the FACTORY_GATE_COLLECT_ALL its process runs under
  work,       \* run()'s `work_list`: the failures the next phase is told of
  verdict,    \* the failed verdict under decision
  regens,     \* test_defect_rounds
  reprompts,  \* factory_file_reprompts
  collected,  \* run()'s `collected` is non-empty
  ending,     \* the outcome _finish is about to record
  \* history the properties need; no action reads it
  judged,     \* phases whose last pass judged the product as it now stands
  basis,      \* the inputs those passes were given against
  heard,      \* failures a finished WRITER pass was told of since the last reset
  passes,     \* WRITER passes of this run(), counted up to PassBound
  \* bounds
  starts, crashes

disk    == <<led, tree, branch>>
memory  == <<pc, phase, done, cycle, suite, given, collecting, work, verdict, regens,
             reprompts, collected, ending>>
history == <<judged, basis, heard, passes>>
bounds  == <<starts, crashes>>
vars    == <<disk, memory, history, bounds>>

\* The parts of memory a run() carries from phase to phase.
counters == <<regens, reprompts>>
request  == <<suite, given, collecting>>

-----------------------------------------------------------------------------
\* What the budgets add up to: the first pass, one when the pilot cycle opens,
\* and every rework, regeneration and re-prompt.
PassLimit == 2 + Ceiling + 2 * GateBudget
PassBound == PassLimit + 1

\* _climbs_past_code
Climbs == given \in Climbing

NoFailure == [class |-> "none", names |-> {}]
NoEnding  == [outcome |-> "none", role |-> "none", names |-> {}]

\* How failure_owner and brief_gates class a failed verdict, by phase.
VerdictClasses ==
  [COLLECTOR |-> {"plain"}, CLONER |-> {"plain"},
   WRITER |-> {"product", "advisory", "factory_file"},
   TESTER |-> {"product", "advisory", "test_defect", "not_product"},
   STORE_MANAGER |-> {"plain", "docker_unavailable"}]

FailedVerdicts(r) ==
  [class : VerdictClasses[r] \ {"product"}, names : {{}}]
    \cup (IF "product" \in VerdictClasses[r]
          THEN [class : {"product"}, names : (SUBSET Failures) \ {{}}] ELSE {})

\* RoleRunner.run seeds the first re-run phase from the event that stopped or
\* re-opened the run.
Seed(l) ==
  IF l.terminal.kind = "RUN_FAILED" /\ l.terminal.role # "none"
     /\ l.terminal.role = ResumePoint(l)
  THEN l.terminal.names
  ELSE IF ResumePoint(l) = "WRITER" THEN l.reopening ELSE {}

\* The branch of record.  A push lays the workspace over the tip, so an app/ it
\* does not have yet stays; its commit may carry a phase's checkpoint trailer,
\* except the push that creates the branch.  checkpointed_phases reads trailers
\* back from the tip until a commit without one.
NoBranch == [tree |-> "none", recorded |-> {}, judged |-> {}, inputs |-> "none",
             moved |-> FALSE, lags |-> FALSE]

Pushed(trailer) ==
  [tree     |-> IF tree = "bare" /\ branch.tree # "none" THEN branch.tree ELSE tree,
   recorded |-> IF branch.tree = "none" \/ trailer = "none" THEN {}
                ELSE branch.recorded \cup {trailer},
   judged   |-> judged, inputs |-> given, moved |-> TRUE, lags |-> FALSE]

\* A phase has passed that the branch has not been given yet.
Lagging == [branch EXCEPT !.lags = Attached]

\* build_status: the ledger reads "building" while the Store gate is awaited.
AwaitsN3(l) == l.terminal.kind = "RUN_FAILED" /\ l.handoff

\* Mutant of MayReadFailed: a handed-off run is a failed one.
MayReadFailedHandedOff(l) ==
  l.terminal.kind = "RUN_FAILED" \/ (l.terminal.kind = "none" /\ l.running # {})

\* build_status reads "failed": a recorded failure, or a killed run whose last
\* model call is past its deadline.
MayReadFailed(l) ==
  \/ l.terminal.kind = "RUN_FAILED" /\ ~l.handoff
  \/ l.terminal.kind = "none" /\ l.running # {}

\* _live_build_thread / build_status leave these two other answers.
ReadsStalled(l)   == l.terminal.kind = "none"
ReadsSucceeded(l) == l.terminal.kind = "RUN_SUCCEEDED"

-----------------------------------------------------------------------------
Init ==
  /\ led = EmptyLedger /\ tree = "bare" /\ branch = NoBranch
  /\ pc = "down" /\ phase = "none" /\ done = {} /\ cycle = "code"
  /\ suite = "code" /\ given = "none" /\ collecting = FALSE /\ work = {} /\ verdict = NoFailure
  /\ regens = 0 /\ reprompts = 0 /\ collected = FALSE /\ ending = NoEnding
  /\ judged = {} /\ basis = "none" /\ heard = {} /\ passes = 0
  /\ starts = 0 /\ crashes = 0

-----------------------------------------------------------------------------
(* start_runner_build.  It records the request and starts the thread; the   *)
(* run itself begins with Enter.                                            *)

Launch(s, h, collectAll) ==
  /\ pc' = "entered" /\ suite' = s /\ given' = h /\ collecting' = collectAll
  /\ phase' = "none" /\ done' = {} /\ cycle' = s /\ work' = {} /\ collected' = FALSE
  /\ verdict' = NoFailure /\ ending' = NoEnding /\ regens' = 0 /\ reprompts' = 0
  /\ passes' = 0

CanStart == pc = "down" /\ starts < MaxStarts /\ starts' = starts + 1

OpenFresh(h) ==
  /\ led' = Appended(EmptyLedger, RunStarted(h))
  /\ tree' = "bare" /\ branch' = [branch EXCEPT !.lags = FALSE]
  /\ judged' = {} /\ basis' = h /\ heard' = {}

StartFresh ==
  /\ CanStart /\ ~Exists(led)
  /\ \E h \in Inputs, s \in Suites, c \in CollectAll : OpenFresh(h) /\ Launch(s, h, c)
  /\ UNCHANGED crashes

\* "Start over" is the one door to a second workspace; the branch stays.
StartOver ==
  /\ CanStart /\ Exists(led) /\ ~AwaitsN3(led) /\ ~PilotReady(led)
  /\ \E h \in Inputs, c \in CollectAll : OpenFresh(h) /\ Launch("code", h, c)
  /\ UNCHANGED crashes

\* A pasted build link: a workspace cloned from the branch, whose new ledger
\* records the phases the branch is taken to prove as passed.
DERIVED_DONE == {"COLLECTOR", "CLONER", "WRITER"}
Proven       == DERIVED_DONE \cup branch.recorded
TipIsFresh   == /\ Proven \subseteq branch.judged /\ branch.tree = "whole"
                /\ \A r \in Proven : Earlier(r) \subseteq Proven

StartAttached ==
  /\ CanStart /\ branch.tree \in {"torn", "whole"} /\ branch.moved
  /\ (IF TipIsFresh THEN "fresh" ELSE "stale") \in Links
  /\ led' = [Appended(EmptyLedger, RunStarted(branch.inputs)) EXCEPT
               !.verdicts = [r \in BuildRole |-> IF r \in Proven THEN "GATE_PASSED" ELSE "none"]]
  /\ tree' = branch.tree /\ branch' = [branch EXCEPT !.moved = FALSE, !.lags = FALSE]
  /\ judged' = branch.judged /\ basis' = branch.inputs /\ heard' = {}
  /\ \E c \in CollectAll : Launch("code", branch.inputs, c)
  /\ UNCHANGED crashes

\* A failed run is re-entered in place with its budget reset; a changed intake
\* re-pins the run to the new inputs first.
ResumeFailed ==
  /\ CanStart /\ Exists(led) /\ MayReadFailed(led)
  /\ \E h \in Inputs, s \in Suites, c \in CollectAll, intakeChanged \in BOOLEAN :
       /\ led' = LET rebased == IF intakeChanged /\ led.inputs # h
                                THEN Appended(led, InputsRebased(h)) ELSE led
                 IN  Appended(Appended(rebased, Note), BudgetReset)
       /\ Launch(s, h, c)
  /\ heard' = {}
  /\ UNCHANGED <<tree, branch, judged, basis, crashes>>

\* A killed run with no verdict, or a finished one, is started as it is.
StartKept ==
  /\ CanStart /\ Exists(led) /\ (ReadsStalled(led) \/ ReadsSucceeded(led))
  /\ \E h \in Inputs, s \in Suites, c \in CollectAll : Launch(s, h, c)
  /\ UNCHANGED <<disk, judged, basis, heard, crashes>>

\* A handed-off run is never re-run: the start only gives the handoff a waiter.
StartIngest ==
  /\ CanStart /\ AwaitsN3(led)
  /\ pc' = "ingest"
  /\ UNCHANGED <<disk, phase, done, cycle, request, work, verdict, counters, collected,
                 ending, history, crashes>>

-----------------------------------------------------------------------------
(* The prelude of run().                                                    *)

\* The thread is gone, and what it held in memory with it.
Held == <<phase, done, cycle, request, work, verdict, counters, collected, ending, passes>>
Down ==
  /\ pc' = "down"
  /\ phase' = "none" /\ done' = {} /\ cycle' = "code" /\ suite' = "code" /\ given' = "none"
  /\ collecting' = FALSE
  /\ work' = {} /\ verdict' = NoFailure /\ regens' = 0 /\ reprompts' = 0
  /\ collected' = FALSE /\ ending' = NoEnding /\ passes' = 0

\* _run's except clause: an exception in the runner is a recorded failure that
\* names no phase.
RecordsCrash ==
  /\ led' = Appended(led, RunFailed("none", "none", {}))
  /\ Down
  /\ UNCHANGED <<tree, branch, judged, basis, heard, starts>>

\* assert_resumable refuses inputs the ledger was not pinned to.
RefuseInputs ==
  /\ pc = "entered" /\ given # led.inputs
  /\ RecordsCrash
  /\ UNCHANGED crashes

LevelNoted(l) == IF given \in Declared THEN Appended(l, Note) ELSE l

\* The phase and its verdict are locals of one turn of the loop over the phases.
Turned == phase' = "none" /\ verdict' = NoFailure

Stop(outcome, role, names) ==
  /\ pc' = "stopping" /\ Turned
  /\ ending' = [outcome |-> outcome, role |-> role, names |-> names]

FailPreflight ==
  /\ pc = "entered" /\ given = led.inputs
  /\ led' = LevelNoted(led)
  /\ Stop("FAILED_GATE", "none", {})
  /\ UNCHANGED <<tree, branch, done, cycle, request, work, counters,
                 collected, history, bounds>>

\* A pilot run re-opens a code-green workspace.  Whether the accepted product
\* must be measured again, and whether its WRITER must run, is read off the tree.
MayOpenPilot(l) == suite = "pilot" /\ l.green /\ ~l.pilot
\* Mutant of DoneAtEntry: a resume starts from the first phase.
DoneAtEntryRestarted(l) == {}

\* run()'s `done` at its start.
DoneAtEntry(l) == Completed(l)

OpenPilot(l, reopenWriter) == Appended(Appended(l, Note), PilotOpened(reopenWriter))

Enter ==
  /\ pc = "entered" /\ given = led.inputs
  /\ \E opens, reopenWriter \in BOOLEAN :
       /\ opens => MayOpenPilot(led)
       /\ MayOpenPilot(led) /\ ~PilotReady(led) => opens
       /\ led' = IF opens THEN OpenPilot(LevelNoted(led), reopenWriter) ELSE LevelNoted(led)
  /\ done' = DoneAtEntry(led') /\ work' = Seed(led')
  /\ pc' = "pick"
  /\ judged' = IF basis = given THEN judged ELSE {}
  /\ basis' = given
  /\ UNCHANGED <<tree, branch, phase, cycle, request, verdict, counters, collected,
                 ending, heard, passes, bounds>>

-----------------------------------------------------------------------------
(* The loop over BUILD_PHASES and one phase (_run_phase).                    *)

Advance ==
  /\ done' = done \cup {phase} /\ work' = {} /\ pc' = "pick" /\ Turned

\* The wall clock, or a stage stop after an inspect, ends the run before the
\* phase.  Time is abstracted to the choice.
SpendWall ==
  /\ pc = "pick" /\ done # BuildRole
  /\ Stop("FAILED_BUDGET_SPENT", NextPhase(done), {})
  /\ UNCHANGED <<disk, done, cycle, request, work, counters, collected,
                 history, bounds>>

\* The WRITER is staged: its phase leaves app/ alone until it commits.  Every
\* other role writes in place, so what later phases judged is stale from here.
StartPhase ==
  /\ pc = "pick" /\ done # BuildRole
  /\ LET r == NextPhase(done)
     IN  /\ phase' = r
         /\ led' = Appended(led, PhaseStarted(r))
         /\ judged' = IF r = "WRITER" THEN judged ELSE judged \cap Earlier(r)
         /\ passes' = IF r = "WRITER" /\ passes < PassBound THEN passes + 1 ELSE passes
  /\ pc' = "role"
  /\ UNCHANGED <<tree, branch, done, cycle, request, work, verdict, counters, collected,
                 ending, basis, heard, bounds>>

\* A lane violation: terminal even in collect-all.
LeaveLane ==
  /\ pc = "role"
  /\ led' = Appended(led, PhaseAborted(phase))
  /\ Stop("FAILED_AUTHORITY", phase, {})
  /\ UNCHANGED <<tree, branch, done, cycle, request, work, counters,
                 collected, history, bounds>>

FailRole ==
  /\ pc = "role"
  /\ \/ /\ ~collecting
        /\ led' = Appended(led, PhaseAborted(phase))
        /\ Stop("FAILED_ROLE_ERROR", phase, {})
        /\ UNCHANGED <<done, work, collected>>
     \/ /\ collecting
        /\ led' = Appended(led, Note)
        /\ collected' = TRUE /\ Advance
        /\ UNCHANGED ending
  /\ UNCHANGED <<tree, branch, cycle, request, counters, history, bounds>>

\* The role returned.  The WRITER's staged files now replace app/ one by one.
FinishRole ==
  /\ pc = "role"
  /\ IF phase = "WRITER"
     THEN /\ pc' = "commit" /\ tree' = "torn"
          /\ judged' = judged \cap Earlier(phase) /\ heard' = heard \cup work
     ELSE /\ pc' = "gate" /\ UNCHANGED <<tree, judged, heard>>
  /\ UNCHANGED <<led, branch, phase, done, cycle, request, work, verdict, counters,
                 collected, ending, basis, passes, bounds>>

FinishCommit ==
  /\ pc = "commit"
  /\ pc' = "gate" /\ tree' = "whole"
  /\ UNCHANGED <<led, branch, phase, done, cycle, request, work, verdict, counters,
                 collected, ending, history, bounds>>

PassGate ==
  /\ pc = "gate"
  /\ led' = Appended(led, GatePassed(phase))
  /\ judged' = judged \cup {phase} /\ branch' = Lagging
  /\ pc' = "passed"
  /\ UNCHANGED <<tree, phase, done, cycle, request, work, verdict, counters, collected,
                 ending, basis, heard, passes, bounds>>

FailGate ==
  /\ pc = "gate"
  /\ led' = Appended(led, GateFailed(phase))
  /\ \E v \in FailedVerdicts(phase) : verdict' = v
  /\ pc' = "failed"
  /\ UNCHANGED <<tree, branch, phase, done, cycle, request, work, counters, collected,
                 ending, history, bounds>>

\* A stage stop noted while the phase ran ends the run whatever the gate said.
HaltStage ==
  /\ pc \in {"passed", "failed"}
  /\ Stop("FAILED_BUDGET_SPENT", phase, {})
  /\ UNCHANGED <<disk, done, cycle, request, work, counters, collected,
                 history, bounds>>

\* A passed phase is checkpointed to the branch of record before the next.
Checkpoint ==
  /\ pc = "passed" /\ Attached
  /\ led' = Appended(led, Note)
  /\ branch' = Pushed(phase)
  /\ Advance
  /\ UNCHANGED <<tree, cycle, request, counters, collected, ending,
                 history, bounds>>

FailCheckpoint ==
  /\ pc = "passed" /\ Attached
  /\ Stop("FAILED_GATE", phase, {})
  /\ UNCHANGED <<disk, done, cycle, request, work, counters, collected,
                 history, bounds>>

PassUnattached ==
  /\ pc = "passed" /\ ~Attached
  /\ Advance
  /\ UNCHANGED <<disk, cycle, request, counters, collected, ending,
                 history, bounds>>

-----------------------------------------------------------------------------
(* A failed gate.                                                           *)

\* Collect-all: the failure is a finding and the phase counts as done.
CollectFinding ==
  /\ pc = "failed" /\ collecting
  /\ led' = Appended(led, Note)
  /\ collected' = TRUE /\ Advance
  /\ UNCHANGED <<tree, branch, cycle, request, counters, ending,
                 history, bounds>>

Halting == pc = "failed" /\ ~collecting

\* No docker on the host: the workspace is pushed and handed to the Store gate.
\* The client's own repository is pushed last, and its failure fails the run.
HandOff ==
  /\ Halting /\ verdict.class = "docker_unavailable" /\ Armed
  /\ led' = Appended(led, Note)
  /\ branch' = IF Attached THEN Pushed("none") ELSE branch
  /\ \E outcome \in {"HANDOFF_TO_N3", "FAILED_GATE"} : Stop(outcome, phase, {})
  /\ UNCHANGED <<tree, done, cycle, request, work, counters, collected,
                 history, bounds>>

\* A handoff whose push fails is a named failure, and so is every gate with no role
\* positioned to act on its findings.
FailTerminal ==
  /\ Halting /\ phase \notin {"WRITER", "TESTER"}
  /\ Stop("FAILED_GATE", phase, {})
  /\ UNCHANGED <<disk, done, cycle, request, work, counters, collected,
                 history, bounds>>

(* decide(): the one rule for a failed verdict of a rework gate.  The same   *)
(* rule answers the runner's own gates (reopen = {}) and, after the run has  *)
(* ended, the Store gate's (reopen names the phases to run again).           *)

Deciding == Halting /\ phase \in {"WRITER", "TESTER"}

\* Checks the brief never defined: recorded, and the phase passes.
PassAdvisory ==
  /\ Deciding /\ verdict.class = "advisory"
  /\ led' = Appended(Appended(led, Note), GatePassed(phase))
  /\ judged' = judged \cup {phase} /\ branch' = Lagging
  /\ Advance
  /\ UNCHANGED <<tree, cycle, request, counters, collected, ending,
                 basis, heard, passes, bounds>>

\* Mutant of SendBack: the WRITER is sent back with nothing to fix.
SendBackUntold(told) ==
  /\ done' = done \ {"WRITER"} /\ work' = {} /\ pc' = "pick" /\ Turned

\* Back to the WRITER, whose earlier pass no longer counts.
SendBack(told) ==
  /\ done' = done \ {"WRITER"} /\ work' = told /\ pc' = "pick" /\ Turned

RegenerateTest ==
  /\ Deciding /\ verdict.class = "test_defect" /\ regens < GateBudget
  /\ led' = Appended(led, Note)
  /\ regens' = regens + 1
  /\ SendBack({})
  /\ UNCHANGED <<tree, branch, cycle, request, reprompts, collected,
                 ending, history, bounds>>

\* Mutant of Reprompt: the re-prompt is not counted.
RepromptUncounted ==
  /\ Deciding /\ verdict.class = "factory_file" /\ reprompts < GateBudget
  /\ led' = Appended(Appended(led, Note), Note)
  /\ SendBack(work)
  /\ UNCHANGED <<tree, branch, cycle, request, regens, reprompts, collected, ending,
                 history, bounds>>

\* A writer pass that touched Factory files is re-prompted with what it still owes.
Reprompt ==
  /\ Deciding /\ verdict.class = "factory_file" /\ reprompts < GateBudget
  /\ led' = Appended(Appended(led, Note), Note)
  /\ reprompts' = reprompts + 1
  /\ SendBack(work)
  /\ UNCHANGED <<tree, branch, cycle, request, regens, collected,
                 ending, history, bounds>>

\* Failures no rework can answer: a bound of its own is spent, or the fault is
\* the Factory's or the environment's.
StopUnowned ==
  /\ Deciding
  /\ \/ verdict.class = "test_defect" /\ regens >= GateBudget
     \/ verdict.class = "factory_file" /\ reprompts >= GateBudget
     \/ verdict.class = "not_product"
  /\ led' = IF verdict.class = "not_product" THEN Appended(led, Note) ELSE led
  /\ Stop("FAILED_GATE", phase, {})
  /\ UNCHANGED <<tree, branch, done, cycle, request, work, counters,
                 collected, history, bounds>>

\* The hard stops of a product failure, in the order the rule asks them.
Repeats(names)  == names \cap led.names # {}
GateSpent(gate) == led.spent[gate] >= GateBudget

\* Mutant of CeilingReached: one round past the ceiling.
CeilingPassed  == SpentInBuild(led) > Ceiling
CeilingReached == SpentInBuild(led) >= Ceiling

StopTwice ==
  /\ Deciding /\ verdict.class = "product" /\ Repeats(verdict.names)
  /\ Stop("FAILED_GATE", phase, verdict.names)
  /\ UNCHANGED <<disk, done, cycle, request, work, counters, collected,
                 history, bounds>>

StopSpent ==
  /\ Deciding /\ verdict.class = "product" /\ ~Repeats(verdict.names)
  /\ GateSpent(phase) \/ CeilingReached
  /\ Stop("FAILED_BUDGET_SPENT", phase, verdict.names)
  /\ UNCHANGED <<disk, done, cycle, request, work, counters, collected,
                 history, bounds>>

MayRework(gate) ==
  ~Repeats(verdict.names) /\ ~GateSpent(gate) /\ ~CeilingReached

\* The foreman is asked only once a round is allowed, and can only end it.
StopForeman ==
  /\ Deciding /\ verdict.class = "product" /\ MayRework(phase)
  /\ Stop("FAILED_GATE", phase, verdict.names)
  /\ UNCHANGED <<disk, done, cycle, request, work, counters, collected,
                 history, bounds>>

ReworkWriter ==
  /\ Deciding /\ verdict.class = "product" /\ MayRework(phase)
  /\ led' = Appended(Appended(led, Note), Rework(phase, verdict.names, {}))
  /\ SendBack(verdict.names)
  /\ UNCHANGED <<tree, branch, cycle, request, counters, collected,
                 ending, history, bounds>>

-----------------------------------------------------------------------------
(* Every phase is done.                                                     *)

AllDone == pc = "pick" /\ done = BuildRole

Report ==
  /\ AllDone /\ collected
  /\ Stop("COLLECT_ALL_REPORT", "none", {})
  /\ UNCHANGED <<disk, done, cycle, request, work, counters, collected,
                 history, bounds>>

\* Code-phase success of a climbing run opens the pilot cycle on the same tree;
\* the WRITER runs again when the tree misses what the gate measures, or when
\* its CLI was ready and never used.
OpenAutoPilot ==
  /\ AllDone /\ ~collected /\ cycle = "code" /\ Climbs
  /\ \E reopenWriter, cliReopen \in BOOLEAN :
       /\ led' = IF cliReopen THEN Appended(OpenPilot(led, reopenWriter), Note)
                 ELSE OpenPilot(led, reopenWriter)
       /\ done' = IF cliReopen THEN Completed(led') \ {"WRITER"} ELSE Completed(led')
  /\ cycle' = "pilot" /\ work' = {}
  /\ UNCHANGED <<tree, branch, pc, phase, request, verdict, counters, collected, ending,
                 history, bounds>>

Succeed ==
  /\ AllDone /\ ~collected /\ (cycle = "pilot" \/ ~Climbs)
  /\ Stop("SUCCESS", "none", {})
  /\ UNCHANGED <<disk, done, cycle, request, work, counters, collected,
                 history, bounds>>

-----------------------------------------------------------------------------
(* _finish: the one terminal event.                                         *)

FinishFailed ==
  /\ pc = "stopping" /\ ending.outcome # "SUCCESS"
  /\ led' = Appended(led, RunFailed(ending.role, ending.outcome, ending.names))
  /\ IF ending.outcome = "HANDOFF_TO_N3" THEN pc' = "n3" /\ UNCHANGED Held ELSE Down
  /\ UNCHANGED <<tree, branch, judged, basis, heard, bounds>>

\* SUCCESS is refused on a thin product, and on a climbing run in its code cycle.
\* The event's kind is fixed before the delivery push, its outcome after it.
FinishSuccess ==
  /\ pc = "stopping" /\ ending.outcome = "SUCCESS"
  /\ \E thin, delivered \in BOOLEAN :
       led' = Appended(led,
                IF thin \/ (Climbs /\ cycle # "pilot")
                THEN RunFailed(IF Climbs /\ cycle # "pilot" THEN "TESTER" ELSE "WRITER",
                               "FAILED_ROLE_ERROR", {})
                ELSE RunSucceeded(IF delivered THEN "SUCCESS" ELSE "FAILED_ROLE_ERROR",
                                  cycle))
  /\ Down
  /\ UNCHANGED <<tree, branch, judged, basis, heard, bounds>>

-----------------------------------------------------------------------------
(* The Store gate's answer (n3_store_gate.py), applied by the build thread   *)
(* that handed off ("n3") or by a waiter started for the handoff ("ingest"). *)

Waiting == pc \in {"n3", "ingest"}

N3Green ==
  /\ Waiting
  /\ led' = Appended(Appended(led, N3Passed("STORE_MANAGER")),
                   [RunSucceeded("SUCCESS", "pilot") EXCEPT !.role = "STORE_MANAGER"])
  /\ judged' = judged \cup {"STORE_MANAGER"}
  /\ Down
  /\ UNCHANGED <<tree, branch, basis, heard, bounds>>

\* The Factory's failure, a missing gate or a timeout: terminal, nobody's rework.
N3NotProduct ==
  /\ Waiting
  /\ led' = Appended(led, N3Failed({}))
  /\ Down
  /\ UNCHANGED <<tree, branch, judged, basis, heard, bounds>>

\* The product's failure: the thread that handed off puts it through decide();
\* a bare waiter only records it.
N3Product ==
  /\ Waiting
  /\ \E names \in (SUBSET Failures) \ {{}}, class \in {"product", "advisory"} :
       /\ led' = Appended(led, N3Failed(names))
       /\ IF pc = "ingest" THEN Down
          ELSE /\ pc' = "reopen" /\ verdict' = [class |-> class, names |-> names]
               /\ UNCHANGED <<phase, done, cycle, request, work, counters, collected,
                              ending, passes>>
  /\ UNCHANGED <<tree, branch, judged, basis, heard, bounds>>

\* GitHub could not be asked: no verdict, and the handoff stays open.
N3Unreachable ==
  /\ Waiting /\ Down
  /\ UNCHANGED <<disk, judged, basis, heard, bounds>>

\* reopen_after_store_gate
ReopenAdvisory ==
  /\ pc = "reopen" /\ verdict.class = "advisory"
  /\ led' = Appended(Appended(led, Note), GatePassed("STORE_MANAGER"))
  /\ judged' = judged \cup {"STORE_MANAGER"}
  /\ Down
  /\ UNCHANGED <<tree, branch, basis, heard, bounds>>

\* The rule's hard stops and the foreman's all end here, recorded as the verdict.
ReopenStopped ==
  /\ pc = "reopen" /\ verdict.class = "product"
  /\ \E outcome \in {"FAILED_GATE", "FAILED_BUDGET_SPENT"} :
       /\ outcome = "FAILED_BUDGET_SPENT" =>
            ~Repeats(verdict.names) /\ (GateSpent("STORE_MANAGER") \/ CeilingReached)
       /\ outcome = "FAILED_GATE" =>
            Repeats(verdict.names) \/ MayRework("STORE_MANAGER")
       /\ led' = Appended(led, RunFailed("STORE_MANAGER", outcome, verdict.names))
  /\ Down
  /\ UNCHANGED <<tree, branch, judged, basis, heard, bounds>>

\* A rework re-opens the finished run: the thread enters a new run() on it.
ReopenRework ==
  /\ pc = "reopen" /\ verdict.class = "product" /\ MayRework("STORE_MANAGER")
  /\ led' = Appended(Appended(led, Note),
                   Rework("STORE_MANAGER", verdict.names, {"WRITER", "TESTER", "STORE_MANAGER"}))
  /\ Launch(suite, given, collecting)
  /\ UNCHANGED <<tree, branch, judged, basis, heard, bounds>>

-----------------------------------------------------------------------------
(* Crashes.                                                                 *)

CanCrash == pc # "down" /\ crashes < MaxCrashes /\ crashes' = crashes + 1

\* The process dies: nothing is written, memory is lost.
KillProcess ==
  /\ CanCrash /\ Down
  /\ UNCHANGED <<disk, judged, basis, heard, starts>>

\* The runner raises.  A waiter that raises records nothing.
CrashThread ==
  /\ CanCrash /\ ~Waiting
  /\ RecordsCrash

-----------------------------------------------------------------------------
Start == StartFresh \/ StartOver \/ StartAttached \/ ResumeFailed \/ StartKept \/ StartIngest

RunPhase == StartPhase \/ LeaveLane \/ FailRole \/ FinishRole \/ FinishCommit
              \/ PassGate \/ FailGate \/ HaltStage
              \/ Checkpoint \/ FailCheckpoint \/ PassUnattached

Decide == CollectFinding \/ HandOff \/ FailTerminal \/ PassAdvisory \/ RegenerateTest
            \/ Reprompt \/ StopUnowned \/ StopTwice \/ StopSpent \/ StopForeman
            \/ ReworkWriter

Close == Report \/ OpenAutoPilot \/ Succeed \/ FinishFailed \/ FinishSuccess

AnswerN3 == N3Green \/ N3NotProduct \/ N3Product \/ N3Unreachable
              \/ ReopenAdvisory \/ ReopenStopped \/ ReopenRework

\* The steps of the build thread itself, as opposed to its callers and crashes.
Thread == RefuseInputs \/ FailPreflight \/ Enter \/ SpendWall \/ RunPhase \/ Decide
            \/ Close \/ AnswerN3

Next == Start \/ Thread \/ KillProcess \/ CrashThread

Spec == Init /\ [][Next]_vars

\* A live thread keeps taking steps: roles run under the wall clock, and the
\* Store-gate poll has a wall of its own.
FairSpec == Spec /\ WF_vars(Thread)
-----------------------------------------------------------------------------
(* Properties.                                                              *)

Pcs == {"down", "entered", "pick", "role", "commit", "gate", "failed", "passed",
        "stopping", "n3", "ingest", "reopen"}

FailureClasses == {"none", "plain", "product", "advisory", "factory_file", "test_defect",
                   "not_product", "docker_unavailable"}

Branches ==
  [tree : {"none", "bare", "torn", "whole"}, recorded : SUBSET BuildRole,
   judged : SUBSET BuildRole, inputs : Inputs \cup {"none"},
   moved : BOOLEAN, lags : BOOLEAN]

DiskType == led \in Ledgers /\ tree \in {"bare", "torn", "whole"} /\ branch \in Branches

MemoryType ==
  /\ pc \in Pcs /\ phase \in BuildRole \cup {"none"} /\ done \in SUBSET BuildRole
  /\ cycle \in {"code", "pilot"} /\ suite \in {"code", "pilot"}
  /\ given \in Inputs \cup {"none"} /\ work \in SUBSET Failures
  /\ verdict \in [class : FailureClasses, names : SUBSET Failures]
  /\ collecting \in BOOLEAN /\ regens \in Nat /\ reprompts \in Nat /\ collected \in BOOLEAN
  /\ ending \in [outcome : Outcomes, role : BuildRole \cup {"none"}, names : SUBSET Failures]
  /\ passes \in Nat
  /\ pc \in {"role", "commit", "gate", "failed", "passed"} => phase \in BuildRole

HistoryType ==
  /\ judged \in SUBSET BuildRole /\ basis \in Inputs \cup {"none"} /\ heard \in SUBSET Failures
  /\ starts \in Nat /\ crashes \in Nat

\* Every variable keeps its shape.
TypeOK == DiskType /\ MemoryType /\ HistoryType

\* A build the ledger calls succeeded was judged, as it now stands, by every one
\* of the five phases: no crash, resume, rebase, rework or handed-off answer lets
\* an older tree's pass stand for the tree that is shipped.
SuccessIsEarned ==
  led.terminal.kind = "RUN_SUCCEEDED" => judged = BuildRole /\ tree = "whole"

\* A phase works and is judged only on a product that every earlier phase has
\* judged as it stands, and never on an app/ that a killed WRITER commit left half
\* replaced.
PhasesStandOnJudgedWork ==
  pc \in {"role", "commit", "gate"} =>
    /\ Earlier(phase) \subseteq judged
    /\ BUILD_PHASES[phase] > BUILD_PHASES["WRITER"] => tree = "whole"

\* SAME_FAILURE_TWICE stops a build only for failures the WRITER was handed, and
\* finished a pass on, since the last reset of the budget.
HeardBeforeStop ==
  pc = "stopping" /\ ending.outcome = "FAILED_GATE" => ending.names \cap led.names \subseteq heard

\* No run() makes more WRITER passes than the rework, regeneration and re-prompt
\* budgets add up to, and no build more rework rounds than its gates and ceiling
\* allow, however many times it is resumed on the same budget.
ReworkBounded ==
  /\ passes <= PassLimit
  /\ SpentInBuild(led) <= Ceiling
  /\ \A g \in ReworkGates : led.spent[g] <= GateBudget

\* A resume continues: a phase whose pass stands is not run again, except the
\* WRITER, sent back while the TESTER's verdict is still open.
ResumeContinues ==
  [][\A r \in BuildRole :
       led.verdicts[r] = "GATE_PASSED" /\ led'.verdicts[r] = "PHASE_STARTED" =>
         r = "WRITER" /\ "TESTER" \notin Completed(led)]_vars

(* Why it holds: an invariant of every step of a run that neither collects   *)
(* failures nor attaches to a stale tip.                                     *)

\* The passes that stand are in order, were given by phases that judged the product
\* as it stands, against the inputs the ledger is pinned to; a recorded success has
\* all five.
PassesAreJudged ==
  LET standing == Completed(led) IN
  /\ InOrder(standing) /\ standing \subseteq judged
  /\ standing # {} => led.inputs = basis
  /\ "WRITER" \in standing => tree = "whole"
  /\ led.terminal.kind = "RUN_SUCCEEDED" => standing = BuildRole

\* An open handoff is the ledger's verdict, nothing runs but its waiter, and only
\* the Store gate is missing.
HandoffIsLast ==
  led.handoff => /\ pc \in {"down", "n3", "ingest"}
                 /\ led.terminal.kind = "RUN_FAILED"
                 /\ Earlier("STORE_MANAGER") \subseteq Completed(led)

InPhase == {"role", "commit", "gate", "failed"}

\* What run()'s memory and the ledger have to do with each other at each place.
MemoryMatchesLedger ==
  LET standing == Completed(led) IN
  /\ pc = "pick" =>
       \/ done = standing
       \/ done = Earlier("WRITER") /\ standing = Earlier("TESTER")
  /\ pc \in InPhase \cup {"pick", "passed"} => led.inputs = basis
  /\ pc \in InPhase => phase \in BuildRole /\ done = Earlier(phase) /\ standing = done
  /\ pc = "passed" =>
       phase \in BuildRole /\ done = Earlier(phase) /\ standing = done \cup {phase}
  /\ pc \in {"gate", "failed"} /\ phase = "WRITER" => tree = "whole"
  /\ pc = "commit" => phase = "WRITER"
  /\ pc = "failed" /\ verdict.class = "docker_unavailable" => phase = "STORE_MANAGER"
  /\ pc = "stopping" /\ ending.outcome = "SUCCESS" => standing = BuildRole
  /\ pc = "stopping" /\ ending.outcome = "HANDOFF_TO_N3" => Earlier("STORE_MANAGER") \subseteq standing
  /\ pc \in {"n3", "ingest", "reopen"} => Earlier("STORE_MANAGER") \subseteq standing

\* Whatever is resumed, handed off, re-opened or killed, the passes in the ledger
\* speak of the product in the workspace, and the thread's memory of the ledger.
StandingIsJudged == PassesAreJudged /\ HandoffIsLast /\ MemoryMatchesLedger

IInv == TypeOK /\ ~collecting /\ StandingIsJudged

\* A run handed to the Store gate is not run again before the answer: no phase
\* starts while the handoff is open, whoever asks for a start and after whatever
\* crash.
HandoffIsNotRerun ==
  [][AwaitsN3(led) => led'.running \subseteq led.running]_vars

\* A started build thread ends: every rework loop, every reopened run and every
\* wait for the Store gate runs out.
RunEnds == pc # "down" ~> pc = "down"

\* The ledger keeps BuildPromise: its standing passes and its recorded verdict
\* take only the steps that module allows.
Promised == INSTANCE BuildPromise WITH
  Phases <- BuildRole, Before <- Earlier, standing <- Completed(led), asks <- starts,
  verdict <- [none |-> "none", RUN_SUCCEEDED |-> "succeeded", RUN_FAILED |-> "failed"][led.terminal.kind]

KeepsPromise == Promised!Spec

(* What the repository says and the code does not keep.                      *)

\* A client who asked for a repository is not told of a success when the push to
\* it failed: runner.py names the failure after the event's kind is fixed.
DeliveryFailureIsNamed ==
  led.terminal.kind = "RUN_SUCCEEDED" => led.terminal.outcome = "SUCCESS"

\* A TESTER or STORE_MANAGER pass that checkpointed_phases reads off the branch's
\* tip has judged that tip: a later change to the tree invalidates what an older
\* commit recorded.
RecordedStillHolds == branch.recorded \ DERIVED_DONE \subseteq branch.judged

\* The branch of record never lags the run it belongs to, at least not a run that
\* is recorded as a success.
BranchNeverLags == led.terminal.kind = "RUN_SUCCEEDED" => ~branch.lags
=============================================================================
