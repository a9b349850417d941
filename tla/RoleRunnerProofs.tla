--------------------------- MODULE RoleRunnerProofs ---------------------------
(* Every build's recorded success is earned: proofs about RoleRunner.        *)
EXTENDS RoleRunner, TLAPS

-----------------------------------------------------------------------------
(* Part one: what one more event does to the readings of the ledger, for    *)
(* every ledger.                                                            *)

-----------------------------------------------------------------------------
(* The order of the phases.                                                  *)

LEMMA EarlierType ==
  ASSUME NEW r \in BuildRole
  PROVE  Earlier(r) \subseteq BuildRole /\ r \notin Earlier(r)
BY DEF Earlier, BuildRole, BUILD_PHASES

LEMMA EarlierIsLinear ==
  ASSUME NEW p \in BuildRole, NEW r \in BuildRole, p # r
  PROVE  p \in Earlier(r) \/ r \in Earlier(p)
BY DEF Earlier, BuildRole, BUILD_PHASES

LEMMA EarlierOf ==
  /\ Earlier("COLLECTOR") = {}
  /\ Earlier("CLONER") = {"COLLECTOR"}
  /\ Earlier("WRITER") = {"COLLECTOR", "CLONER"}
  /\ Earlier("TESTER") = {"COLLECTOR", "CLONER", "WRITER"}
  /\ Earlier("STORE_MANAGER") = {"COLLECTOR", "CLONER", "WRITER", "TESTER"}
BY DEF Earlier, BuildRole, BUILD_PHASES

\* An unfinished build has a next phase.
LEMMA NextPhaseType ==
  ASSUME NEW S \in SUBSET BuildRole, S # BuildRole
  PROVE  NextPhase(S) \in BuildRole \ S /\ Earlier(NextPhase(S)) \subseteq S
<1>1. \E r \in BuildRole \ S : Earlier(r) \subseteq S
  <2>1. CASE "COLLECTOR" \notin S BY <2>1, EarlierOf DEF BuildRole
  <2>2. CASE "COLLECTOR" \in S /\ "CLONER" \notin S BY <2>2, EarlierOf DEF BuildRole
  <2>3. CASE {"COLLECTOR", "CLONER"} \subseteq S /\ "WRITER" \notin S
        BY <2>3, EarlierOf DEF BuildRole
  <2>4. CASE {"COLLECTOR", "CLONER", "WRITER"} \subseteq S /\ "TESTER" \notin S
        BY <2>4, EarlierOf DEF BuildRole
  <2>5. CASE {"COLLECTOR", "CLONER", "WRITER", "TESTER"} \subseteq S /\ "STORE_MANAGER" \notin S
        BY <2>5, EarlierOf DEF BuildRole
  <2> QED BY <2>1, <2>2, <2>3, <2>4, <2>5 DEF BuildRole
<1> QED BY <1>1 DEF NextPhase

\* The next phase of an unfinished build is the one whose earlier phases are
\* exactly those that are finished.
LEMMA NextPhaseIsFirst ==
  ASSUME NEW S \in SUBSET BuildRole, InOrder(S), S # BuildRole
  PROVE  NextPhase(S) \in BuildRole \ S /\ Earlier(NextPhase(S)) = S
<1>1. NextPhase(S) \in BuildRole \ S /\ Earlier(NextPhase(S)) \subseteq S BY NextPhaseType
<1>2. S \subseteq Earlier(NextPhase(S))
  <2> SUFFICES ASSUME NEW p \in S PROVE p \in Earlier(NextPhase(S)) OBVIOUS
  <2> QED BY <1>1, EarlierIsLinear DEF InOrder
<1> QED BY <1>1, <1>2

-----------------------------------------------------------------------------
(* Events.                                                                   *)

LEMMA PhaseEventTypes ==
  ASSUME NEW r \in BuildRole \cup {"none"}
  PROVE  /\ PhaseStarted(r) \in Events /\ GatePassed(r) \in Events
         /\ GateFailed(r) \in Events /\ PhaseAborted(r) \in Events
         /\ N3Passed(r) \in Events
BY DEF Events, EventKinds, Outcomes, PhaseKinds, Note, PhaseStarted, GatePassed, GateFailed,
       PhaseAborted, N3Passed

LEMMA NoteTypes == Note \in Events /\ BudgetReset \in Events
BY DEF Events, EventKinds, Outcomes, PhaseKinds, Note, BudgetReset

LEMMA InputsTypes ==
  ASSUME NEW h \in Inputs \cup {"none"}
  PROVE  RunStarted(h) \in Events /\ InputsRebased(h) \in Events
BY DEF Events, EventKinds, Outcomes, PhaseKinds, Note, RunStarted, InputsRebased

LEMMA ReopenTypes ==
  ASSUME NEW b \in BOOLEAN, NEW g \in ReworkGates, NEW F \in SUBSET Failures,
         NEW R \in SUBSET BuildRole
  PROVE  PilotOpened(b) \in Events /\ Rework(g, F, R) \in Events
BY DEF Events, EventKinds, Outcomes, PhaseKinds, Note, PilotOpened, Rework, BuildRole,
       ReworkGates

LEMMA VerdictTypes ==
  ASSUME NEW r \in BuildRole \cup {"none"}, NEW o \in Outcomes, NEW F \in SUBSET Failures,
         NEW c \in {"code", "pilot"}
  PROVE  /\ RunSucceeded(o, c) \in Events /\ RunFailed(r, o, F) \in Events
         /\ N3Failed(F) \in Events
<1>1. RunSucceeded(o, c) \in Events
  BY DEF Events, EventKinds, Note, RunSucceeded
<1>2. RunFailed(r, o, F) \in Events
  BY DEF Events, EventKinds, Note, RunFailed
<1>3. N3Failed(F) \in Events
  <2>1. RunFailed("STORE_MANAGER", "FAILED_GATE", F) \in Events
    BY DEF Events, EventKinds, Outcomes, BuildRole, Note, RunFailed
  <2> QED BY <2>1 DEF N3Failed, Events
<1> QED BY <1>1, <1>2, <1>3

\* Every event leaves a ledger a ledger, given that one which pins the run's
\* inputs carries inputs.
LEMMA AppendedType ==
  ASSUME NEW l \in Ledgers, NEW e \in Events
  PROVE  Appended(l, e) \in Ledgers
<1>1. VerdictsAfter(l, e) \in [BuildRole -> Verdicts]
  BY DEF VerdictsAfter, SetsVerdict, Verdicts, Ledgers
<1>2. RunningAfter(l, e) \in SUBSET BuildRole
  BY DEF RunningAfter, SetsVerdict, Ledgers
<1>3. TerminalAfter(l, e) \in Terminals
  BY DEF TerminalAfter, NoVerdict, Terminals, Ledgers, Events, Outcomes
<1>4. ReopeningAfter(e) \in SUBSET Failures
  BY DEF ReopeningAfter, Events
<1>5. SpentAfter(l, e) \in [ReworkGates -> Nat]
  BY DEF SpentAfter, Ledgers
<1>6. NamesAfter(l, e) \in SUBSET Failures
  BY DEF NamesAfter, Ledgers, Events
<1>7. PilotAfter(l, e) \in BOOLEAN /\ GreenAfter(l, e) \in BOOLEAN /\ HandoffAfter(l, e) \in BOOLEAN
  BY DEF PilotAfter, GreenAfter, HandoffAfter
<1>8. InputsAfter(l, e) \in Inputs \cup {"none"}
  BY DEF InputsAfter, Ledgers, Events
<1> QED BY <1>1, <1>2, <1>3, <1>4, <1>5, <1>6, <1>7, <1>8 DEF Appended, Ledgers

-----------------------------------------------------------------------------
(* What an event does to the phases that stand.                              *)

LEMMA EmptyLedgerType == EmptyLedger \in Ledgers /\ Completed(EmptyLedger) = {}
BY DEF EmptyLedger, Ledgers, Terminals, NoVerdict, Verdicts, Outcomes, Completed

LEMMA CompletedAfter ==
  ASSUME NEW l, NEW e
  PROVE  Completed(Appended(l, e)) =
           {r \in BuildRole : r \notin Withdraws(e) /\
              IF SetsVerdict(e) /\ r = e.role THEN e.kind = "GATE_PASSED" ELSE r \in Completed(l)}
BY DEF Completed, Appended, VerdictsAfter

\* An event that neither judges nor withdraws leaves them alone.
LEMMA CompletedUnchanged ==
  ASSUME NEW l \in Ledgers, NEW e \in Events, ~SetsVerdict(e), Withdraws(e) = {}
  PROVE  Completed(Appended(l, e)) = Completed(l)
BY CompletedAfter DEF Completed
\* One lemma per kind of event: the phases that stand, the recorded verdict, the
\* handoff and the inputs after it.
Keeps(l, m) ==
  m.terminal = l.terminal /\ m.handoff = l.handoff /\ m.inputs = l.inputs

LEMMA NoteEffect ==
  ASSUME NEW l \in Ledgers, NEW e \in {Note, BudgetReset}
  PROVE  Completed(Appended(l, e)) = Completed(l) /\ Keeps(l, Appended(l, e))
<1>1. ~SetsVerdict(e) /\ Withdraws(e) = {} /\ e \in Events
  BY NoteTypes DEF SetsVerdict, Withdraws, Note, BudgetReset, PhaseKinds
<1>2. e.kind = "NOTE" /\ e.key \in {"none", "rework_budget_reset"} /\ e.outcome = "none"
  BY DEF Note, BudgetReset
<1>3. Keeps(l, Appended(l, e))
  BY <1>2 DEF Keeps, Appended, TerminalAfter, Reopens, HandoffAfter, InputsAfter, Ledgers
<1> QED BY <1>1, <1>3, CompletedUnchanged

LEMMA RunStartedEffect ==
  ASSUME NEW h \in Inputs \cup {"none"}
  PROVE  LET m == Appended(EmptyLedger, RunStarted(h)) IN
         /\ m \in Ledgers /\ Completed(m) = {} /\ m.inputs = h
         /\ m.terminal = NoVerdict /\ ~m.handoff
<1> DEFINE m == Appended(EmptyLedger, RunStarted(h))
<1>1. m \in Ledgers BY EmptyLedgerType, InputsTypes, AppendedType
<1>2. Completed(m) = {}
  <2>1. ~SetsVerdict(RunStarted(h))
    BY DEF SetsVerdict, RunStarted, Note, PhaseKinds
  <2>2. Completed(m) \subseteq Completed(EmptyLedger)
    BY <2>1, CompletedAfter
  <2> QED BY <2>2, EmptyLedgerType
<1>3. m.inputs = h /\ m.terminal = NoVerdict /\ ~m.handoff
  <2> DEFINE e == RunStarted(h)
  <2>1. /\ e.kind = "RUN_STARTED" /\ e.key = "none" /\ e.outcome = "none"
        /\ e.inputs = h
    BY DEF RunStarted, Note
  <2>2. EmptyLedger.inputs = "none" /\ EmptyLedger.terminal = NoVerdict /\ ~EmptyLedger.handoff
    BY DEF EmptyLedger
  <2>3. m = Appended(EmptyLedger, e) OBVIOUS
  <2> HIDE DEF m, e
  <2>4. /\ m.inputs = InputsAfter(EmptyLedger, e) /\ m.terminal = TerminalAfter(EmptyLedger, e)
        /\ m.handoff = HandoffAfter(EmptyLedger, e)
    BY <2>3 DEF Appended
  <2> QED BY <2>1, <2>2, <2>4 DEF InputsAfter, TerminalAfter, Reopens, HandoffAfter
<1> QED BY <1>1, <1>2, <1>3

\* An attempt starts, fails or is aborted; an attempt passes.
LEMMA AttemptEffect ==
  ASSUME NEW l \in Ledgers, NEW r \in BuildRole,
         NEW e \in {PhaseStarted(r), GateFailed(r), PhaseAborted(r)}
  PROVE  Completed(Appended(l, e)) = Completed(l) \ {r} /\ Keeps(l, Appended(l, e))
<1>1. /\ SetsVerdict(e) /\ Withdraws(e) = {} /\ e.role = r /\ e.kind # "GATE_PASSED"
      /\ e.kind \in PhaseKinds /\ e.key = "none" /\ e.outcome = "none"
  BY DEF SetsVerdict, Withdraws, PhaseStarted, GateFailed, PhaseAborted, Note, PhaseKinds
<1>2. Completed(Appended(l, e)) = Completed(l) \ {r}
  BY <1>1, CompletedAfter DEF Completed
<1>3. Keeps(l, Appended(l, e))
  BY <1>1 DEF Keeps, Appended, TerminalAfter, Reopens, HandoffAfter, InputsAfter, PhaseKinds, Ledgers
<1> QED BY <1>2, <1>3

LEMMA PassEffect ==
  ASSUME NEW l \in Ledgers, NEW r \in BuildRole, NEW e \in {GatePassed(r), N3Passed(r)}
  PROVE  /\ Completed(Appended(l, e)) = Completed(l) \cup {r}
         /\ Appended(l, e).terminal = l.terminal /\ Appended(l, e).inputs = l.inputs
         /\ Appended(l, e).handoff => l.handoff
<1>1. /\ SetsVerdict(e) /\ Withdraws(e) = {} /\ e.role = r /\ e.kind = "GATE_PASSED"
      /\ e.key # "inputs_rebased" /\ e.outcome = "none"
  BY DEF SetsVerdict, Withdraws, GatePassed, N3Passed, Note, PhaseKinds
<1>2. Completed(Appended(l, e)) = Completed(l) \cup {r}
  BY <1>1, CompletedAfter DEF Completed
<1>3. /\ Appended(l, e).terminal = l.terminal /\ Appended(l, e).inputs = l.inputs
      /\ Appended(l, e).handoff => l.handoff
  BY <1>1 DEF Appended, TerminalAfter, Reopens, HandoffAfter, InputsAfter, Ledgers
<1> QED BY <1>2, <1>3

\* The run's verdict.  A handoff is the one verdict that opens a handoff.
LEMMA VerdictEffect ==
  ASSUME NEW l \in Ledgers, NEW e, e.kind \in {"RUN_SUCCEEDED", "RUN_FAILED"},
         e.key # "inputs_rebased"
  PROVE  LET m == Appended(l, e) IN
         /\ Completed(m) = Completed(l) /\ m.inputs = l.inputs /\ m.terminal.kind = e.kind
         /\ m.handoff => e.outcome = "HANDOFF_TO_N3"
                          \/ (l.handoff /\ e.kind = "RUN_FAILED" /\ e.key # "n3")
<1>1. ~SetsVerdict(e) /\ Withdraws(e) = {} BY DEF SetsVerdict, Withdraws, PhaseKinds
<1>2. Completed(Appended(l, e)) = Completed(l)
  BY <1>1, CompletedAfter DEF Completed
<1>3. Appended(l, e).inputs = l.inputs /\ Appended(l, e).terminal.kind = e.kind
  BY DEF Appended, TerminalAfter, InputsAfter
<1>4. Appended(l, e).handoff =>
        e.outcome = "HANDOFF_TO_N3" \/ (l.handoff /\ e.kind = "RUN_FAILED" /\ e.key # "n3")
  BY DEF Appended, HandoffAfter
<1> QED BY <1>2, <1>3, <1>4

LEMMA FailedEffect ==
  ASSUME NEW l \in Ledgers, NEW r, NEW o, NEW F
  PROVE  LET m == Appended(l, RunFailed(r, o, F)) IN
         /\ Completed(m) = Completed(l) /\ m.inputs = l.inputs /\ m.terminal.kind = "RUN_FAILED"
         /\ m.handoff => l.handoff \/ o = "HANDOFF_TO_N3"
<1> DEFINE e == RunFailed(r, o, F)
<1>1. e.kind = "RUN_FAILED" /\ e.key # "inputs_rebased" /\ e.outcome = o BY DEF RunFailed, Note
<1> HIDE DEF e
<1>2. /\ Completed(Appended(l, e)) = Completed(l) /\ Appended(l, e).inputs = l.inputs
      /\ Appended(l, e).terminal.kind = "RUN_FAILED"
      /\ Appended(l, e).handoff => l.handoff \/ o = "HANDOFF_TO_N3"
  BY <1>1, VerdictEffect
<1> QED BY <1>2 DEF e

LEMMA N3FailedEffect ==
  ASSUME NEW l \in Ledgers, NEW F
  PROVE  LET m == Appended(l, N3Failed(F)) IN
         /\ Completed(m) = Completed(l) /\ m.inputs = l.inputs /\ m.terminal.kind = "RUN_FAILED"
         /\ ~m.handoff
<1> DEFINE e == N3Failed(F)
<1>1. e.kind = "RUN_FAILED" /\ e.key = "n3" /\ e.outcome = "FAILED_GATE"
  BY DEF N3Failed, RunFailed, Note
<1> HIDE DEF e
<1>2. /\ Completed(Appended(l, e)) = Completed(l) /\ Appended(l, e).inputs = l.inputs
      /\ Appended(l, e).terminal.kind = "RUN_FAILED" /\ ~Appended(l, e).handoff
  BY <1>1, VerdictEffect
<1> QED BY <1>2 DEF e

LEMMA SucceededEffect ==
  ASSUME NEW l \in Ledgers, NEW o, o # "HANDOFF_TO_N3", NEW c
  PROVE  LET m == Appended(l, RunSucceeded(o, c)) IN
         /\ Completed(m) = Completed(l) /\ m.inputs = l.inputs /\ m.terminal.kind = "RUN_SUCCEEDED"
         /\ ~m.handoff
<1> DEFINE e == RunSucceeded(o, c)
<1>1. e.kind = "RUN_SUCCEEDED" /\ e.key # "inputs_rebased" /\ e.outcome # "HANDOFF_TO_N3"
  BY DEF RunSucceeded, Note
<1> HIDE DEF e
<1>2. /\ Completed(Appended(l, e)) = Completed(l) /\ Appended(l, e).inputs = l.inputs
      /\ Appended(l, e).terminal.kind = "RUN_SUCCEEDED" /\ ~Appended(l, e).handoff
  BY <1>1, VerdictEffect
<1> QED BY <1>2 DEF e

\* The Store gate's green answer names the phase it is about.
LEMMA N3SucceededEffect ==
  ASSUME NEW l \in Ledgers
  PROVE  LET m == Appended(l, [RunSucceeded("SUCCESS", "pilot") EXCEPT !.role = "STORE_MANAGER"]) IN
         /\ Completed(m) = Completed(l) /\ m.inputs = l.inputs /\ m.terminal.kind = "RUN_SUCCEEDED"
         /\ ~m.handoff
<1> DEFINE e == [RunSucceeded("SUCCESS", "pilot") EXCEPT !.role = "STORE_MANAGER"]
<1>1. e.kind = "RUN_SUCCEEDED" /\ e.key # "inputs_rebased" /\ e.outcome # "HANDOFF_TO_N3"
  BY DEF RunSucceeded, Note
<1> HIDE DEF e
<1>2. /\ Completed(Appended(l, e)) = Completed(l) /\ Appended(l, e).inputs = l.inputs
      /\ Appended(l, e).terminal.kind = "RUN_SUCCEEDED" /\ ~Appended(l, e).handoff
  BY <1>1, VerdictEffect
<1> QED BY <1>2 DEF e

\* Everything that re-opens a run clears its verdict and withdraws what it names.
LEMMA RebaseEffect ==
  ASSUME NEW l \in Ledgers, NEW h \in Inputs
  PROVE  LET m == Appended(l, InputsRebased(h)) IN
         Completed(m) = {} /\ m.terminal = NoVerdict /\ m.inputs = h /\ m.handoff = l.handoff
<1> DEFINE e == InputsRebased(h)
<1>1. /\ ~SetsVerdict(e) /\ e.kind = "NOTE" /\ e.key = "inputs_rebased" /\ e.outcome = "none"
      /\ Withdraws(e) = BuildRole /\ e.inputs = h
  BY DEF SetsVerdict, Withdraws, InputsRebased, Note, PhaseKinds
<1>2. Completed(Appended(l, e)) = {}
  BY <1>1, CompletedAfter
<1>3. LET m == Appended(l, e) IN m.terminal = NoVerdict /\ m.inputs = h /\ m.handoff = l.handoff
  BY <1>1 DEF Appended, TerminalAfter, Reopens, InputsAfter, HandoffAfter, Ledgers
<1> QED BY <1>2, <1>3

LEMMA PilotEffect ==
  ASSUME NEW l \in Ledgers, NEW b \in BOOLEAN
  PROVE  LET m == Appended(l, PilotOpened(b)) IN
         /\ Completed(m) = Completed(l) \ ({"TESTER", "STORE_MANAGER"} \cup IF b THEN {"WRITER"} ELSE {})
         /\ m.terminal = NoVerdict /\ m.inputs = l.inputs /\ m.handoff = l.handoff
<1> DEFINE e == PilotOpened(b)
<1>1. /\ ~SetsVerdict(e) /\ e.kind = "PILOT_OPENED" /\ e.key = "none" /\ e.outcome = "none"
      /\ Withdraws(e) = {"TESTER", "STORE_MANAGER"} \cup IF b THEN {"WRITER"} ELSE {}
  BY DEF SetsVerdict, Withdraws, PilotOpened, Note, PhaseKinds
<1>2. Completed(Appended(l, e)) =
        Completed(l) \ ({"TESTER", "STORE_MANAGER"} \cup IF b THEN {"WRITER"} ELSE {})
  BY <1>1, CompletedAfter DEF Completed
<1>3. LET m == Appended(l, e) IN m.terminal = NoVerdict /\ m.inputs = l.inputs /\ m.handoff = l.handoff
  BY <1>1 DEF Appended, TerminalAfter, Reopens, InputsAfter, HandoffAfter, Ledgers
<1> QED BY <1>2, <1>3

LEMMA ReworkEffect ==
  ASSUME NEW l \in Ledgers, NEW g, NEW F, NEW R
  PROVE  LET m == Appended(l, Rework(g, F, R)) IN
         /\ Completed(m) = Completed(l) \ R /\ m.inputs = l.inputs /\ m.handoff = l.handoff
         /\ m.terminal = IF R = {} THEN l.terminal ELSE NoVerdict
<1> DEFINE e == Rework(g, F, R)
<1>1. /\ ~SetsVerdict(e) /\ e.kind = "REWORK" /\ e.key = "none" /\ e.outcome = "none"
      /\ Withdraws(e) = R /\ e.reopen = R
  BY DEF SetsVerdict, Withdraws, Rework, Note, PhaseKinds
<1>2. Completed(Appended(l, e)) = Completed(l) \ R
  BY <1>1, CompletedAfter DEF Completed
<1>3. LET m == Appended(l, e) IN
        /\ m.inputs = l.inputs /\ m.handoff = l.handoff
        /\ m.terminal = IF R = {} THEN l.terminal ELSE NoVerdict
  BY <1>1 DEF Appended, TerminalAfter, Reopens, InputsAfter, HandoffAfter, Ledgers
<1> QED BY <1>2, <1>3

-----------------------------------------------------------------------------
(* Part two: the runner.                                                     *)
-----------------------------------------------------------------------------
(* Every variable keeps its shape.                                           *)

LEMMA BranchTypes ==
  ASSUME TypeOK, NEW t \in BuildRole \cup {"none"}
  PROVE  Pushed(t) \in Branches /\ Lagging \in Branches
BY SwitchAssumption DEF TypeOK, DiskType, MemoryType, HistoryType, Branches, Pushed, Lagging

LEMMA LevelNotedType ==
  ASSUME NEW l \in Ledgers
  PROVE  LevelNoted(l) \in Ledgers
BY NoteTypes, AppendedType DEF LevelNoted

LEMMA OpenPilotType ==
  ASSUME NEW l \in Ledgers, NEW b \in BOOLEAN
  PROVE  OpenPilot(l, b) \in Ledgers
<1>1. PilotOpened(b) \in Events
  BY DEF Events, EventKinds, Outcomes, PhaseKinds, Note, PilotOpened, BuildRole
<1> QED BY <1>1, NoteTypes, AppendedType DEF OpenPilot

LEMMA SeedType ==
  ASSUME NEW l \in Ledgers
  PROVE  Seed(l) \in SUBSET Failures
BY DEF Seed, Ledgers, Terminals

LEMMA NothingType ==
  /\ NoFailure \in [class : FailureClasses, names : SUBSET Failures]
  /\ NoEnding \in [outcome : Outcomes, role : BuildRole \cup {"none"}, names : SUBSET Failures]
BY DEF NoFailure, NoEnding, FailureClasses, Outcomes

LEMMA LaunchType ==
  ASSUME NEW s \in {"code", "pilot"}, NEW h \in Inputs \cup {"none"}, NEW c \in BOOLEAN,
         Launch(s, h, c)
  PROVE  MemoryType'
BY NothingType DEF Launch, MemoryType, Pcs

LEMMA DownType ==
  ASSUME Down
  PROVE  MemoryType'
BY NothingType DEF Down, MemoryType, Pcs

LEMMA StartType ==
  ASSUME TypeOK, Start
  PROVE  TypeOK'
<1> USE SwitchAssumption DEF TypeOK
<1>0. starts' \in Nat /\ crashes' \in Nat
  BY DEF Start, StartFresh, StartOver, StartAttached, ResumeFailed, StartKept, StartIngest, CanStart,
         HistoryType
<1>1. CASE StartFresh
  <2>1. PICK h \in Inputs, s \in Suites, c \in CollectAll : OpenFresh(h) /\ Launch(s, h, c)
    BY <1>1 DEF StartFresh
  <2>2. DiskType' BY <2>1, RunStartedEffect DEF OpenFresh, DiskType, Branches
  <2>3. HistoryType' BY <1>0, <2>1 DEF OpenFresh, HistoryType
  <2> QED BY <2>1, <2>2, <2>3, LaunchType
<1>2. CASE StartOver
  <2>1. PICK h \in Inputs, c \in CollectAll : OpenFresh(h) /\ Launch("code", h, c)
    BY <1>2 DEF StartOver
  <2>2. DiskType' BY <2>1, RunStartedEffect DEF OpenFresh, DiskType, Branches
  <2>3. HistoryType' BY <1>0, <2>1 DEF OpenFresh, HistoryType
  <2> QED BY <2>1, <2>2, <2>3, LaunchType
<1>3. CASE StartAttached
  <2>1. branch.inputs \in Inputs \cup {"none"} BY DEF DiskType, Branches
  <2>2. led' \in Ledgers
    BY <1>3, <2>1, RunStartedEffect DEF StartAttached, Ledgers, Verdicts, PhaseKinds
  <2>3. DiskType' BY <1>3, <2>2 DEF StartAttached, DiskType, Branches
  <2>4. HistoryType' BY <1>0, <1>3, <2>1 DEF StartAttached, DiskType, Branches, HistoryType
  <2> QED BY <1>3, <2>1, <2>3, <2>4, LaunchType DEF StartAttached
<1>4. CASE ResumeFailed
  <2>1. PICK h \in Inputs, s \in Suites, c \in CollectAll, b \in BOOLEAN :
          /\ led' = LET rebased == IF b /\ led.inputs # h
                                   THEN Appended(led, InputsRebased(h)) ELSE led
                    IN  Appended(Appended(rebased, Note), BudgetReset)
          /\ Launch(s, h, c)
    BY <1>4 DEF ResumeFailed
  <2>2. led' \in Ledgers BY <2>1, InputsTypes, NoteTypes, AppendedType DEF DiskType
  <2>3. DiskType' BY <1>4, <2>2 DEF ResumeFailed, DiskType
  <2>4. HistoryType' BY <1>0, <1>4 DEF ResumeFailed, HistoryType
  <2> QED BY <2>1, <2>3, <2>4, LaunchType
<1>5. CASE StartKept
  <2>1. PICK h \in Inputs, s \in Suites, c \in CollectAll : Launch(s, h, c) BY <1>5 DEF StartKept
  <2>2. DiskType' /\ HistoryType' BY <1>0, <1>5 DEF StartKept, disk, DiskType, HistoryType
  <2> QED BY <2>1, <2>2, LaunchType
<1>6. CASE StartIngest
  BY <1>0, <1>6
     DEF StartIngest, DiskType, MemoryType, HistoryType, Pcs, disk, request, counters, history
<1> QED BY <1>1, <1>2, <1>3, <1>4, <1>5, <1>6 DEF Start

\* The thread's steps, by the part of the run they belong to.
LEMMA VerdictClassType ==
  ASSUME NEW r \in BuildRole, NEW v \in FailedVerdicts(r)
  PROVE  v \in [class : FailureClasses, names : SUBSET Failures]
BY DEF FailedVerdicts, VerdictClasses, FailureClasses, BuildRole

LEMMA PreludeType ==
  ASSUME TypeOK, RefuseInputs \/ FailPreflight \/ Enter
  PROVE  TypeOK'
<1> USE DEF TypeOK
<1>1. CASE RefuseInputs
  <2>1. Down BY <1>1 DEF RefuseInputs, RecordsCrash
  <2>2. led' \in Ledgers
    BY <1>1, VerdictTypes, AppendedType DEF RefuseInputs, RecordsCrash, DiskType, Outcomes
  <2> QED BY <1>1, <2>1, <2>2, DownType DEF RefuseInputs, RecordsCrash, DiskType, HistoryType, MemoryType
<1>2. CASE FailPreflight
  <2>1. led' \in Ledgers BY <1>2, LevelNotedType DEF FailPreflight, DiskType
  <2> QED BY <1>2, <2>1, NothingType
          DEF FailPreflight, Stop, Turned, DiskType, MemoryType, HistoryType, Pcs, Outcomes,
              request, counters, history, bounds
<1>3. CASE Enter
  <2>1. led' \in Ledgers
    BY <1>3, LevelNotedType, OpenPilotType DEF Enter, DiskType
  <2>2. done' \in SUBSET BuildRole /\ work' \in SUBSET Failures
    BY <1>3, <2>1, SeedType DEF Enter, DoneAtEntry, Completed
  <2>3. MemoryType'
    BY <1>3, <2>2 DEF Enter, MemoryType, Pcs, request, counters
  <2> QED BY <1>3, <2>1, <2>3 DEF Enter, DiskType, HistoryType, MemoryType, bounds
<1> QED BY <1>1, <1>2, <1>3

LEMMA PhaseStepType ==
  ASSUME TypeOK, SpendWall \/ RunPhase
  PROVE  TypeOK'
<1> USE DEF TypeOK
<1>1. CASE SpendWall
  <2>1. NextPhase(done) \in BuildRole BY <1>1, NextPhaseType DEF SpendWall, MemoryType
  <2> QED BY <1>1, <2>1, NothingType
          DEF SpendWall, Stop, Turned, DiskType, MemoryType, HistoryType, Pcs, Outcomes,
              request, counters, disk, history, bounds
<1>2. CASE StartPhase
  <2>1. NextPhase(done) \in BuildRole BY <1>2, NextPhaseType DEF StartPhase, MemoryType
  <2>2. led' \in Ledgers
    BY <1>2, <2>1, PhaseEventTypes, AppendedType DEF StartPhase, DiskType
  <2>3. passes' \in Nat BY <1>2 DEF StartPhase, MemoryType
  <2>4. MemoryType'
    BY <1>2, <2>1, <2>3 DEF StartPhase, MemoryType, Pcs, request, counters
  <2>5. HistoryType' BY <1>2 DEF StartPhase, HistoryType, bounds
  <2> QED BY <1>2, <2>2, <2>4, <2>5 DEF StartPhase, DiskType
<1>3. CASE LeaveLane
  <2>1. led' \in Ledgers
    BY <1>3, PhaseEventTypes, AppendedType DEF LeaveLane, DiskType, MemoryType
  <2> QED BY <1>3, <2>1, NothingType
          DEF LeaveLane, Stop, Turned, DiskType, MemoryType, HistoryType, Pcs, Outcomes,
              request, counters, history, bounds
<1>4. CASE FailRole
  <2>1. led' \in Ledgers
    BY <1>4, PhaseEventTypes, NoteTypes, AppendedType DEF FailRole, DiskType, MemoryType
  <2>2. MemoryType'
    <3>1. CASE ~collecting
      BY <1>4, <3>1, NothingType
         DEF FailRole, Stop, Turned, MemoryType, Pcs, Outcomes, request, counters, history
    <3>2. CASE collecting
      BY <1>4, <3>2, NothingType
         DEF FailRole, Advance, Turned, MemoryType, Pcs, request, counters, history
    <3> QED BY <3>1, <3>2
  <2> QED BY <1>4, <2>1, <2>2 DEF FailRole, DiskType, HistoryType, history, bounds
<1>5. CASE FinishRole
  <2>1. DiskType' BY <1>5 DEF FinishRole, DiskType
  <2>2. MemoryType' BY <1>5 DEF FinishRole, MemoryType, Pcs, request, counters
  <2>3. HistoryType' BY <1>5 DEF FinishRole, HistoryType, MemoryType, bounds
  <2> QED BY <2>1, <2>2, <2>3
<1>6. CASE FinishCommit
  BY <1>6 DEF FinishCommit, DiskType, MemoryType, HistoryType, Pcs, request, counters,
              history, bounds
<1>7. CASE PassGate
  <2>1. led' \in Ledgers
    BY <1>7, PhaseEventTypes, AppendedType DEF PassGate, DiskType, MemoryType
  <2>2. DiskType' BY <1>7, <2>1, BranchTypes DEF PassGate, DiskType
  <2> QED BY <1>7, <2>2 DEF PassGate, MemoryType, HistoryType, Pcs, request, counters, bounds
<1>8. CASE FailGate
  <2>1. led' \in Ledgers
    BY <1>8, PhaseEventTypes, AppendedType DEF FailGate, DiskType, MemoryType
  <2>2. verdict' \in [class : FailureClasses, names : SUBSET Failures]
    BY <1>8, VerdictClassType DEF FailGate, MemoryType
  <2> QED BY <1>8, <2>1, <2>2
          DEF FailGate, DiskType, MemoryType, HistoryType, Pcs, request, counters, history, bounds
<1>9. CASE HaltStage \/ FailCheckpoint
  BY <1>9, NothingType
     DEF HaltStage, FailCheckpoint, Stop, Turned, DiskType, MemoryType, HistoryType, Pcs, Outcomes,
         request, counters, disk, history, bounds
<1>10. CASE Checkpoint
  <2>1. DiskType'
    BY <1>10, NoteTypes, AppendedType, BranchTypes DEF Checkpoint, DiskType, MemoryType
  <2>2. MemoryType'
    BY <1>10, NothingType DEF Checkpoint, Advance, Turned, MemoryType, Pcs, request, counters, history
  <2> QED BY <1>10, <2>1, <2>2 DEF Checkpoint, HistoryType, history, bounds
<1>11. CASE PassUnattached
  BY <1>11, NothingType
     DEF PassUnattached, Advance, Turned, DiskType, MemoryType, HistoryType, Pcs,
         request, counters, disk, history, bounds
<1> QED
  BY <1>1, <1>2, <1>3, <1>4, <1>5, <1>6, <1>7, <1>8, <1>9, <1>10, <1>11 DEF RunPhase

LEMMA DecideType ==
  ASSUME TypeOK, Decide
  PROVE  TypeOK'
<1> USE DEF TypeOK
<1>1. CASE FailTerminal \/ StopTwice \/ StopSpent \/ StopForeman
  BY <1>1, NothingType
     DEF FailTerminal, StopTwice, StopSpent, StopForeman, Halting, Deciding, Stop, Turned, DiskType,
         MemoryType, HistoryType, Pcs, Outcomes, request, counters, disk, history, bounds
<1>2. CASE CollectFinding
  <2>1. led' \in Ledgers BY <1>2, NoteTypes, AppendedType DEF CollectFinding, DiskType
  <2> QED BY <1>2, <2>1, NothingType
          DEF CollectFinding, Advance, Turned, DiskType, MemoryType, HistoryType, Pcs, request,
              counters, history, bounds
<1>3. CASE HandOff
  <2>1. DiskType' BY <1>3, NoteTypes, AppendedType, BranchTypes DEF HandOff, DiskType
  <2> QED BY <1>3, <2>1, NothingType
          DEF HandOff, Halting, Stop, Turned, MemoryType, HistoryType, Pcs, Outcomes, request,
              counters, history, bounds
<1>4. CASE PassAdvisory
  <2>1. phase \in BuildRole BY <1>4 DEF PassAdvisory, Deciding, Halting, MemoryType
  <2>2. DiskType'
    BY <1>4, <2>1, NoteTypes, PhaseEventTypes, AppendedType, BranchTypes DEF PassAdvisory, DiskType
  <2>3. MemoryType'
    BY <1>4, <2>1, NothingType DEF PassAdvisory, Advance, Turned, MemoryType, Pcs, request, counters
  <2> QED BY <1>4, <2>1, <2>2, <2>3 DEF PassAdvisory, HistoryType, bounds, MemoryType
<1>5. CASE RegenerateTest \/ Reprompt
  <2>1. led' \in Ledgers
    BY <1>5, NoteTypes, AppendedType DEF RegenerateTest, Reprompt, DiskType
  <2>2. regens' \in Nat /\ reprompts' \in Nat
    BY <1>5 DEF RegenerateTest, Reprompt, MemoryType
  <2>3. MemoryType'
    BY <1>5, <2>2, NothingType
       DEF RegenerateTest, Reprompt, SendBack, Turned, MemoryType, Pcs, request, history
  <2> QED BY <1>5, <2>1, <2>3
          DEF RegenerateTest, Reprompt, DiskType, HistoryType, history, bounds
<1>6. CASE StopUnowned
  <2>1. led' \in Ledgers BY <1>6, NoteTypes, AppendedType DEF StopUnowned, DiskType
  <2> QED BY <1>6, <2>1, NothingType
          DEF StopUnowned, Deciding, Halting, Stop, Turned, DiskType, MemoryType, HistoryType, Pcs,
              Outcomes, request, counters, history, bounds
<1>7. CASE ReworkWriter
  <2>1. phase \in ReworkGates /\ verdict.names \in SUBSET Failures
    BY <1>7 DEF ReworkWriter, Deciding, ReworkGates, MemoryType
  <2>2. led' \in Ledgers
    BY <1>7, <2>1, NoteTypes, ReopenTypes, AppendedType DEF ReworkWriter, DiskType
  <2> QED BY <1>7, <2>1, <2>2, NothingType
          DEF ReworkWriter, SendBack, Turned, DiskType, MemoryType, HistoryType, Pcs, request,
              counters, history, bounds
<1> QED BY <1>1, <1>2, <1>3, <1>4, <1>5, <1>6, <1>7 DEF Decide

LEMMA CloseType ==
  ASSUME TypeOK, Close
  PROVE  TypeOK'
<1> USE DEF TypeOK
<1>1. CASE Report \/ Succeed
  BY <1>1, NothingType
     DEF Report, Succeed, AllDone, Stop, Turned, DiskType, MemoryType, HistoryType, Pcs, Outcomes,
         request, counters, disk, history, bounds
<1>2. CASE OpenAutoPilot
  <2>1. led' \in Ledgers
    BY <1>2, OpenPilotType, NoteTypes, AppendedType DEF OpenAutoPilot, DiskType
  <2>2. done' \in SUBSET BuildRole BY <1>2 DEF OpenAutoPilot, Completed
  <2> QED BY <1>2, <2>1, <2>2
          DEF OpenAutoPilot, AllDone, DiskType, MemoryType, HistoryType, Pcs, request, counters,
              history, bounds
<1>3. CASE FinishFailed
  <2>1. led' \in Ledgers
    BY <1>3, VerdictTypes, AppendedType DEF FinishFailed, DiskType, MemoryType
  <2>2. MemoryType'
    <3>1. CASE Down BY <3>1, DownType
    <3>2. CASE pc' = "n3" /\ UNCHANGED Held
      BY <3>2 DEF Held, MemoryType, Pcs, request, counters
    <3> QED BY <1>3, <3>1, <3>2 DEF FinishFailed
  <2> QED BY <1>3, <2>1, <2>2 DEF FinishFailed, DiskType, HistoryType, bounds
<1>4. CASE FinishSuccess
  <2>1. led' \in Ledgers
    <3>1. PICK thin \in BOOLEAN, delivered \in BOOLEAN :
            led' = Appended(led,
                     IF thin \/ (Climbs /\ cycle # "pilot")
                     THEN RunFailed(IF Climbs /\ cycle # "pilot" THEN "TESTER" ELSE "WRITER",
                                    "FAILED_ROLE_ERROR", {})
                     ELSE RunSucceeded(IF delivered THEN "SUCCESS" ELSE "FAILED_ROLE_ERROR",
                                       cycle))
      BY <1>4 DEF FinishSuccess
    <3>2. cycle \in {"code", "pilot"} /\ led \in Ledgers BY DEF MemoryType, DiskType
    <3>3. /\ RunFailed("TESTER", "FAILED_ROLE_ERROR", {}) \in Events
          /\ RunFailed("WRITER", "FAILED_ROLE_ERROR", {}) \in Events
          /\ RunSucceeded("SUCCESS", cycle) \in Events
          /\ RunSucceeded("FAILED_ROLE_ERROR", cycle) \in Events
      BY <3>2, VerdictTypes DEF BuildRole, Outcomes
    <3> QED BY <3>1, <3>2, <3>3, AppendedType
  <2> QED BY <1>4, <2>1, DownType DEF FinishSuccess, DiskType, HistoryType, bounds
<1> QED BY <1>1, <1>2, <1>3, <1>4 DEF Close

LEMMA N3PassTypes ==
  /\ N3Passed("STORE_MANAGER") \in Events /\ GatePassed("STORE_MANAGER") \in Events
  /\ [RunSucceeded("SUCCESS", "pilot") EXCEPT !.role = "STORE_MANAGER"] \in Events
<1>1. RunSucceeded("SUCCESS", "pilot") \in Events BY VerdictTypes DEF Outcomes
<1> QED BY <1>1, PhaseEventTypes DEF Events, BuildRole

LEMMA AnswerType ==
  ASSUME TypeOK, AnswerN3
  PROVE  TypeOK'
<1> USE DEF TypeOK
<1>1. CASE N3Green
  <2>1. led' \in Ledgers BY <1>1, N3PassTypes, AppendedType DEF N3Green, DiskType
  <2> QED BY <1>1, <2>1, DownType DEF N3Green, DiskType, HistoryType, BuildRole, bounds
<1>2. CASE N3NotProduct
  <2>1. led' \in Ledgers
    BY <1>2, VerdictTypes, AppendedType DEF N3NotProduct, DiskType, Outcomes
  <2> QED BY <1>2, <2>1, DownType DEF N3NotProduct, DiskType, HistoryType, bounds
<1>3. CASE N3Product
  <2>1. PICK names \in (SUBSET Failures) \ {{}}, class \in {"product", "advisory"} :
          /\ led' = Appended(led, N3Failed(names))
          /\ IF pc = "ingest" THEN Down
             ELSE /\ pc' = "reopen" /\ verdict' = [class |-> class, names |-> names]
                  /\ UNCHANGED <<phase, done, cycle, request, work, counters, collected,
                                 ending, passes>>
    BY <1>3 DEF N3Product
  <2>2. led' \in Ledgers BY <2>1, VerdictTypes, AppendedType DEF DiskType, Outcomes
  <2>3. MemoryType'
    <3>1. CASE pc = "ingest" BY <2>1, <3>1, DownType
    <3>2. CASE pc # "ingest"
      BY <2>1, <3>2 DEF MemoryType, Pcs, FailureClasses, request, counters
    <3> QED BY <3>1, <3>2
  <2> QED BY <1>3, <2>2, <2>3 DEF N3Product, DiskType, HistoryType, bounds
<1>4. CASE N3Unreachable
  BY <1>4, DownType DEF N3Unreachable, DiskType, HistoryType, disk, bounds
<1>5. CASE ReopenAdvisory
  <2>1. led' \in Ledgers
    BY <1>5, N3PassTypes, NoteTypes, AppendedType DEF ReopenAdvisory, DiskType
  <2> QED BY <1>5, <2>1, DownType DEF ReopenAdvisory, DiskType, HistoryType, BuildRole, bounds
<1>6. CASE ReopenStopped
  <2>1. PICK outcome \in {"FAILED_GATE", "FAILED_BUDGET_SPENT"} :
          led' = Appended(led, RunFailed("STORE_MANAGER", outcome, verdict.names))
    BY <1>6 DEF ReopenStopped
  <2>2. verdict.names \in SUBSET Failures BY DEF MemoryType
  <2>3. RunFailed("STORE_MANAGER", outcome, verdict.names) \in Events
    BY <2>2, VerdictTypes DEF BuildRole, Outcomes
  <2>4. led' \in Ledgers BY <2>1, <2>3, AppendedType DEF DiskType
  <2> QED BY <1>6, <2>4, DownType DEF ReopenStopped, DiskType, HistoryType, bounds
<1>7. CASE ReopenRework
  <2>1. Rework("STORE_MANAGER", verdict.names, {"WRITER", "TESTER", "STORE_MANAGER"}) \in Events
    BY ReopenTypes DEF MemoryType, ReworkGates, BuildRole
  <2>2. led' \in Ledgers BY <1>7, <2>1, NoteTypes, AppendedType DEF ReopenRework, DiskType
  <2>3. suite \in {"code", "pilot"} /\ given \in Inputs \cup {"none"} /\ collecting \in BOOLEAN
    BY DEF MemoryType
  <2> QED BY <1>7, <2>2, <2>3, LaunchType DEF ReopenRework, DiskType, HistoryType, bounds
<1> QED BY <1>1, <1>2, <1>3, <1>4, <1>5, <1>6, <1>7 DEF AnswerN3

LEMMA CrashType ==
  ASSUME TypeOK, KillProcess \/ CrashThread
  PROVE  TypeOK'
<1> USE DEF TypeOK
<1>1. Down /\ UNCHANGED <<tree, branch, judged, basis, heard, starts>> /\ crashes' = crashes + 1
  BY DEF KillProcess, CrashThread, RecordsCrash, CanCrash, disk
<1>2. led' \in Ledgers
  BY VerdictTypes, AppendedType DEF KillProcess, CrashThread, RecordsCrash, disk, DiskType, Outcomes
<1> QED BY <1>1, <1>2, DownType DEF DiskType, HistoryType

LEMMA InitType == Init => TypeOK
<1> SUFFICES ASSUME Init PROVE TypeOK OBVIOUS
<1>1. DiskType BY EmptyLedgerType DEF Init, DiskType, NoBranch, Branches
<1>2. MemoryType BY NothingType DEF Init, MemoryType, Pcs
<1>3. HistoryType BY DEF Init, HistoryType
<1> QED BY <1>1, <1>2, <1>3 DEF TypeOK

LEMMA NextType ==
  ASSUME TypeOK, [Next]_vars
  PROVE  TypeOK'
<1>1. CASE UNCHANGED vars
  BY <1>1 DEF vars, disk, memory, history, bounds, TypeOK, DiskType, MemoryType, HistoryType
<1>2. CASE Next
  BY <1>2, StartType, PreludeType, PhaseStepType, DecideType, CloseType, AnswerType, CrashType
     DEF Next, Thread
<1> QED BY <1>1, <1>2

\* Every variable keeps its shape: no sequence of starts, phases, gate answers and
\* crashes leaves the runner or its ledger in a value run() cannot read.
THEOREM TypeCorrect == Spec => []TypeOK
BY InitType, NextType, PTL DEF Spec

-----------------------------------------------------------------------------
(* The standing passes are judged.  A build whose process collects failures, *)
(* or that is attached to a stale tip, gives up the invariant; PlainBuild    *)
(* leaves those two out.                                                     *)

PlainBuild == CollectAll \subseteq {FALSE} /\ Links \subseteq {"fresh"}

\* What a step that neither passes nor withdraws a phase leaves alone.
SamePasses ==
  /\ Completed(led') = Completed(led) /\ led'.inputs = led.inputs
  /\ led'.terminal.kind = "RUN_SUCCEEDED" => led.terminal.kind = "RUN_SUCCEEDED"
  /\ tree' = tree /\ judged \subseteq judged' /\ basis' = basis

LEMMA SameStands ==
  ASSUME PassesAreJudged, SamePasses
  PROVE  PassesAreJudged'
BY DEF PassesAreJudged, SamePasses

LEMMA NotHandedOff ==
  ASSUME HandoffIsLast, pc \notin {"down", "n3", "ingest"}
  PROVE  ~led.handoff
BY DEF HandoffIsLast

LEMMA AtRest ==
  ASSUME pc' \in {"down", "entered"}
  PROVE  MemoryMatchesLedger'
BY DEF MemoryMatchesLedger, InPhase

LEMMA AtStop ==
  ASSUME pc' = "stopping", ending'.outcome \notin {"SUCCESS", "HANDOFF_TO_N3"}
  PROVE  MemoryMatchesLedger'
BY DEF MemoryMatchesLedger, InPhase

LEMMA AtLaunch ==
  ASSUME NEW s, NEW h, NEW c, Launch(s, h, c), ~led'.handoff
  PROVE  pc' = "entered" /\ HandoffIsLast' /\ MemoryMatchesLedger'
BY AtRest DEF Launch, HandoffIsLast

\* A ledger with no pass and no verdict is judged by nothing.
LEMMA FreshStands ==
  ASSUME Completed(led') = {}, led'.terminal = NoVerdict
  PROVE  PassesAreJudged'
BY DEF PassesAreJudged, InOrder, NoVerdict

LEMMA StartStands ==
  ASSUME PlainBuild, IInv, Start
  PROVE  StandingIsJudged'
<1> USE DEF StandingIsJudged
<1>1. CASE StartFresh \/ StartOver
  <2>1. \E s \in Suites \cup {"code"}, h \in Inputs, c \in CollectAll :
           OpenFresh(h) /\ Launch(s, h, c)
    <3>1. CASE StartFresh BY <3>1 DEF StartFresh
    <3>2. CASE StartOver BY <3>2 DEF StartOver
    <3> QED BY <1>1, <3>1, <3>2
  <2>2. PICK s \in Suites \cup {"code"}, h \in Inputs, c \in CollectAll :
          OpenFresh(h) /\ Launch(s, h, c)
    BY <2>1
  <2>3. Completed(led') = {} /\ led'.terminal = NoVerdict /\ ~led'.handoff
    BY <2>2, RunStartedEffect DEF OpenFresh
  <2> QED BY <2>2, <2>3, FreshStands, AtLaunch
<1>2. CASE StartAttached
  <2>1. TipIsFresh BY <1>2 DEF StartAttached, PlainBuild
  <2>2. branch \in Branches BY DEF IInv, TypeOK, DiskType
  <2>3. Proven \in SUBSET BuildRole BY <2>2 DEF Proven, DERIVED_DONE, Branches, BuildRole
  <2> DEFINE m == Appended(EmptyLedger, RunStarted(branch.inputs))
  <2>4. m.inputs = branch.inputs /\ m.terminal = NoVerdict /\ ~m.handoff /\ m \in Ledgers
    BY <2>2, RunStartedEffect DEF Branches
  <2>5. led' = [m EXCEPT !.verdicts =
                  [r \in BuildRole |-> IF r \in Proven THEN "GATE_PASSED" ELSE "none"]]
    BY <1>2 DEF StartAttached
  <2> HIDE DEF m
  <2>6. led'.inputs = branch.inputs /\ led'.terminal = NoVerdict /\ ~led'.handoff
    BY <2>4, <2>5 DEF Ledgers
  <2>7. led'.verdicts = [r \in BuildRole |-> IF r \in Proven THEN "GATE_PASSED" ELSE "none"]
    BY <2>4, <2>5 DEF Ledgers
  <2>8. Completed(led') = Proven BY <2>3, <2>7 DEF Completed
  <2>9. PassesAreJudged'
    <3>1. tree' = branch.tree /\ judged' = branch.judged /\ basis' = branch.inputs
      BY <1>2 DEF StartAttached
    <3>2. InOrder(Proven) BY <2>1 DEF TipIsFresh, InOrder
    <3> QED BY <2>1, <2>6, <2>8, <3>1, <3>2 DEF PassesAreJudged, TipIsFresh, NoVerdict
  <2> QED BY <1>2, <2>6, <2>9, AtLaunch DEF StartAttached
<1>3. CASE ResumeFailed
  <2>1. PICK h \in Inputs, s \in Suites, c \in CollectAll, b \in BOOLEAN :
          /\ led' = LET rebased == IF b /\ led.inputs # h
                                   THEN Appended(led, InputsRebased(h)) ELSE led
                    IN  Appended(Appended(rebased, Note), BudgetReset)
          /\ Launch(s, h, c)
    BY <1>3 DEF ResumeFailed
  <2> DEFINE rebased == IF b /\ led.inputs # h THEN Appended(led, InputsRebased(h)) ELSE led
  <2>2. led \in Ledgers BY DEF IInv, TypeOK, DiskType
  <2>3. rebased \in Ledgers BY <2>2, InputsTypes, AppendedType
  <2>4. Completed(led') = Completed(rebased) /\ Keeps(rebased, led')
    <3>1. Completed(Appended(rebased, Note)) = Completed(rebased) /\ Keeps(rebased, Appended(rebased, Note))
      BY <2>3, NoteEffect
    <3>2. Appended(rebased, Note) \in Ledgers BY <2>3, NoteTypes, AppendedType
    <3> QED BY <2>1, <3>1, <3>2, NoteEffect DEF Keeps
  <2>5. ~led.handoff
    BY <1>3 DEF ResumeFailed, MayReadFailed, IInv, HandoffIsLast
  <2>6. tree' = tree /\ judged' = judged /\ basis' = basis BY <1>3 DEF ResumeFailed
  <2>7. CASE b /\ led.inputs # h
    <3>1. Completed(led') = {} /\ led'.terminal = NoVerdict /\ ~led'.handoff
      BY <2>2, <2>4, <2>5, <2>7, RebaseEffect DEF Keeps
    <3> QED BY <2>1, <3>1, FreshStands, AtLaunch
  <2>8. CASE ~(b /\ led.inputs # h)
    <3>1. SamePasses /\ ~led'.handoff BY <2>4, <2>5, <2>6, <2>8 DEF SamePasses, Keeps
    <3> QED BY <2>1, <3>1, SameStands, AtLaunch DEF IInv
  <2> QED BY <2>7, <2>8
<1>4. CASE StartKept
  <2>1. PICK h, s, c : Launch(s, h, c) BY <1>4 DEF StartKept
  <2>2. SamePasses BY <1>4 DEF StartKept, SamePasses, disk
  <2>3. ~led'.handoff
    BY <1>4 DEF StartKept, disk, ReadsStalled, ReadsSucceeded, IInv, HandoffIsLast
  <2> QED BY <2>1, <2>2, <2>3, SameStands, AtLaunch DEF IInv
<1>5. CASE StartIngest
  <2>1. SamePasses BY <1>5 DEF StartIngest, SamePasses, disk, history
  <2>2. led' = led /\ pc' = "ingest" /\ led.handoff BY <1>5 DEF StartIngest, disk, AwaitsN3
  <2>3. HandoffIsLast' BY <2>2 DEF HandoffIsLast, IInv
  <2>4. MemoryMatchesLedger' BY <2>2 DEF MemoryMatchesLedger, InPhase, HandoffIsLast, IInv
  <2> QED BY <2>1, <2>3, <2>4, SameStands DEF IInv
<1> QED BY <1>1, <1>2, <1>3, <1>4, <1>5 DEF Start

LEMMA LevelNotedEffect ==
  ASSUME NEW l \in Ledgers
  PROVE  Completed(LevelNoted(l)) = Completed(l) /\ Keeps(l, LevelNoted(l))
BY NoteEffect DEF LevelNoted, Keeps

LEMMA OpenPilotEffect ==
  ASSUME NEW l \in Ledgers, NEW b \in BOOLEAN
  PROVE  LET m == OpenPilot(l, b) IN
         /\ Completed(m) = Completed(l) \ ({"TESTER", "STORE_MANAGER"} \cup IF b THEN {"WRITER"} ELSE {})
         /\ m.terminal = NoVerdict /\ m.inputs = l.inputs /\ m.handoff = l.handoff
<1>1. Appended(l, Note) \in Ledgers BY NoteTypes, AppendedType
<1>2. Completed(Appended(l, Note)) = Completed(l) /\ Keeps(l, Appended(l, Note)) BY NoteEffect
<1> QED BY <1>1, <1>2, PilotEffect DEF OpenPilot, Keeps

\* Opening the pilot cycle withdraws passes from the end of the order only.
LEMMA PilotKeepsOrder ==
  ASSUME NEW S \in SUBSET BuildRole, InOrder(S), NEW b \in BOOLEAN
  PROVE  InOrder(S \ ({"TESTER", "STORE_MANAGER"} \cup IF b THEN {"WRITER"} ELSE {}))
BY EarlierOf DEF InOrder, BuildRole

LEMMA PreludeStands ==
  ASSUME IInv, RefuseInputs \/ FailPreflight \/ Enter
  PROVE  StandingIsJudged'
<1> USE DEF StandingIsJudged
<1>0. led \in Ledgers /\ ~led.handoff
  BY NotHandedOff DEF IInv, TypeOK, DiskType, RefuseInputs, FailPreflight, Enter
<1>1. CASE RefuseInputs
  <2>1. Completed(led') = Completed(led) /\ led'.inputs = led.inputs
        /\ led'.terminal.kind = "RUN_FAILED" /\ ~led'.handoff
    <3>1. led' = Appended(led, RunFailed("none", "none", {}))
      BY <1>1 DEF RefuseInputs, RecordsCrash
    <3> QED BY <1>0, <3>1, FailedEffect
  <2>2. SamePasses BY <1>1, <2>1 DEF RefuseInputs, RecordsCrash, SamePasses
  <2>3. pc' = "down" BY <1>1 DEF RefuseInputs, RecordsCrash, Down
  <2> QED BY <2>1, <2>2, <2>3, SameStands, AtRest DEF HandoffIsLast, IInv
<1>2. CASE FailPreflight
  <2>1. SamePasses /\ ~led'.handoff
    BY <1>0, <1>2, LevelNotedEffect DEF FailPreflight, SamePasses, Keeps, history
  <2>2. MemoryMatchesLedger' BY <1>2, AtStop DEF FailPreflight, Stop
  <2> QED BY <2>1, <2>2, SameStands DEF HandoffIsLast, IInv
<1>3. CASE Enter
  <2>1. PICK opens \in BOOLEAN, reopenWriter \in BOOLEAN :
          led' = IF opens THEN OpenPilot(LevelNoted(led), reopenWriter) ELSE LevelNoted(led)
    BY <1>3 DEF Enter
  <2>2. LevelNoted(led) \in Ledgers BY <1>0, LevelNotedType
  <2>3. led'.inputs = led.inputs /\ ~led'.handoff
    BY <1>0, <2>1, <2>2, LevelNotedEffect, OpenPilotEffect DEF Keeps
  <2>4. Completed(led) \in SUBSET BuildRole BY DEF Completed
  <2>5. InOrder(Completed(led')) /\ Completed(led') \subseteq Completed(led)
    BY <1>0, <2>1, <2>2, <2>4, LevelNotedEffect, OpenPilotEffect, PilotKeepsOrder
       DEF IInv, PassesAreJudged
  <2>6. led'.terminal.kind = "RUN_SUCCEEDED" => Completed(led') = BuildRole
    BY <1>0, <2>1, <2>2, LevelNotedEffect, OpenPilotEffect
       DEF IInv, PassesAreJudged, NoVerdict, Keeps
  <2>7. judged' = IF basis = given THEN judged ELSE {} BY <1>3 DEF Enter
  <2>8. basis' = given /\ given = led.inputs /\ tree' = tree BY <1>3 DEF Enter
  <2>9. PassesAreJudged'
    BY <2>3, <2>5, <2>6, <2>7, <2>8 DEF IInv, PassesAreJudged
  <2>10. pc' = "pick" /\ done' = Completed(led') BY <1>3 DEF Enter, DoneAtEntry
  <2>11. MemoryMatchesLedger' BY <2>3, <2>8, <2>10 DEF MemoryMatchesLedger, InPhase
  <2> QED BY <2>3, <2>9, <2>11 DEF HandoffIsLast
<1> QED BY <1>1, <1>2, <1>3

\* While a phase runs, what stands is what comes before it.
LEMMA DuringPhase ==
  ASSUME IInv, pc \in InPhase
  PROVE  /\ phase \in BuildRole /\ done = Earlier(phase) /\ Completed(led) = Earlier(phase)
         /\ phase \notin Earlier(phase) /\ Earlier(phase) \subseteq judged
         /\ led.inputs = basis /\ led.terminal.kind # "RUN_SUCCEEDED" /\ ~led.handoff
         /\ led \in Ledgers
<1>1. phase \in BuildRole /\ done = Earlier(phase) /\ Completed(led) = Earlier(phase) /\ led.inputs = basis
  BY DEF IInv, StandingIsJudged, MemoryMatchesLedger
<1>2. phase \notin Earlier(phase) BY <1>1, EarlierType
<1>3. Earlier(phase) \subseteq judged /\ led.terminal.kind # "RUN_SUCCEEDED"
  BY <1>1, <1>2 DEF IInv, StandingIsJudged, PassesAreJudged
<1>4. ~led.handoff BY NotHandedOff DEF IInv, StandingIsJudged, InPhase
<1> QED BY <1>1, <1>2, <1>3, <1>4 DEF IInv, TypeOK, DiskType

\* A stop in the middle of a run records nothing yet.
LEMMA StopStands ==
  ASSUME IInv, SamePasses, ~led'.handoff, pc' = "stopping",
         ending'.outcome \notin {"SUCCESS", "HANDOFF_TO_N3"}
  PROVE  StandingIsJudged'
BY SameStands, AtStop DEF IInv, StandingIsJudged, HandoffIsLast

LEMMA OrderExtends ==
  ASSUME NEW r \in BuildRole
  PROVE  InOrder(Earlier(r)) /\ InOrder(Earlier(r) \cup {r})
BY EarlierOf DEF InOrder, BuildRole

\* A gate that passes, of its own or because its failures are only advice.
LEMMA PassStands ==
  ASSUME IInv, pc \in {"gate", "failed"}, Completed(led') = Completed(led) \cup {phase},
         led'.terminal = led.terminal, led'.inputs = led.inputs,
         judged' = judged \cup {phase}, basis' = basis, tree' = tree
  PROVE  PassesAreJudged'
<1>1. /\ phase \in BuildRole /\ Completed(led) = Earlier(phase) /\ Earlier(phase) \subseteq judged
      /\ led.inputs = basis /\ led.terminal.kind # "RUN_SUCCEEDED"
  BY DuringPhase DEF InPhase
<1>2. InOrder(Completed(led')) /\ Completed(led') \subseteq judged' BY <1>1, OrderExtends
<1>3. "WRITER" \in Completed(led') => tree' = "whole"
  BY <1>1 DEF IInv, StandingIsJudged, PassesAreJudged, MemoryMatchesLedger
<1> QED BY <1>1, <1>2, <1>3 DEF PassesAreJudged

LEMMA PickStands ==
  ASSUME IInv, SpendWall \/ StartPhase
  PROVE  StandingIsJudged'
<1> USE DEF IInv, StandingIsJudged
<1>0. led \in Ledgers /\ ~led.handoff /\ pc = "pick" /\ led.inputs = basis
  BY NotHandedOff DEF TypeOK, DiskType, SpendWall, StartPhase, MemoryMatchesLedger, InPhase
<1>1. CASE SpendWall
  <2>1. SamePasses /\ led' = led BY <1>1 DEF SpendWall, SamePasses, disk, history
  <2> QED BY <1>0, <1>1, <2>1, StopStands DEF SpendWall, Stop
<1>2. CASE StartPhase
  <2> DEFINE r == NextPhase(done)
             S == Completed(led)
  <2>1. InOrder(done)
    BY <1>0, OrderExtends DEF MemoryMatchesLedger, PassesAreJudged, BuildRole
  <2>2. r \in BuildRole \ done /\ Earlier(r) = done
    BY <1>2, <2>1, NextPhaseIsFirst DEF StartPhase, TypeOK, MemoryType
  <2>3. S \ {r} = done /\ S # BuildRole
    <3>1. CASE done = S BY <2>2, <3>1
    <3>2. CASE done = Earlier("WRITER") /\ S = Earlier("TESTER")
      <4>1. r = "WRITER" BY <2>2, <3>2, EarlierOf DEF BuildRole
      <4> QED BY <3>2, <4>1, EarlierOf DEF BuildRole
    <3> QED BY <1>0, <3>1, <3>2 DEF MemoryMatchesLedger
  <2> HIDE DEF r, S
  <2>4. Completed(led') = done /\ Keeps(led, led')
    <3>1. led' = Appended(led, PhaseStarted(r)) BY <1>2 DEF StartPhase, r
    <3>2. Completed(led') = S \ {r} /\ Keeps(led, led')
      BY <1>0, <2>2, <3>1, AttemptEffect DEF S
    <3> QED BY <2>3, <3>2
  <2>5. judged' = (IF r = "WRITER" THEN judged ELSE judged \cap Earlier(r)) /\ phase' = r
        /\ pc' = "role" /\ done' = done /\ tree' = tree /\ basis' = basis
    BY <1>2 DEF StartPhase, r
  <2>6. done \subseteq S BY <2>3
  <2>7. S \subseteq judged /\ ("WRITER" \in S => tree = "whole") /\ led.terminal.kind # "RUN_SUCCEEDED"
    BY <2>3 DEF PassesAreJudged, S
  <2>8. PassesAreJudged'
    BY <1>0, <2>1, <2>2, <2>4, <2>5, <2>6, <2>7 DEF PassesAreJudged, Keeps
  <2>9. MemoryMatchesLedger'
    BY <1>0, <2>2, <2>4, <2>5 DEF MemoryMatchesLedger, InPhase, Keeps
  <2> QED BY <1>0, <2>4, <2>8, <2>9 DEF HandoffIsLast, Keeps
<1> QED BY <1>1, <1>2

\* A phase that ends without a verdict of its own loses nothing that stood.
LEMMA AttemptKeeps ==
  ASSUME IInv, pc \in InPhase, NEW e \in {PhaseStarted(phase), GateFailed(phase), PhaseAborted(phase)},
         led' = Appended(led, e)
  PROVE  Completed(led') = Completed(led) /\ Keeps(led, led')
<1>1. led \in Ledgers /\ phase \in BuildRole /\ phase \notin Completed(led) BY DuringPhase
<1>2. Completed(led') = Completed(led) \ {phase} /\ Keeps(led, led') BY <1>1, AttemptEffect
<1> QED BY <1>1, <1>2

LEMMA PhaseStands ==
  ASSUME IInv, LeaveLane \/ FailRole \/ FinishRole \/ FinishCommit \/ PassGate \/ FailGate
  PROVE  StandingIsJudged'
<1> USE DEF StandingIsJudged
<1>0. /\ pc \in InPhase /\ ~led.handoff /\ led \in Ledgers
      /\ phase \in BuildRole /\ done = Earlier(phase) /\ Completed(led) = Earlier(phase)
      /\ phase \notin Earlier(phase) /\ led.inputs = basis
  <2>1. pc \in InPhase
    BY DEF LeaveLane, FailRole, FinishRole, FinishCommit, PassGate, FailGate, InPhase
  <2> QED BY <2>1, DuringPhase
<1>1. CASE LeaveLane \/ FailRole
  <2>1. /\ led' = Appended(led, PhaseAborted(phase)) /\ pc' = "stopping"
        /\ ending'.outcome \in {"FAILED_AUTHORITY", "FAILED_ROLE_ERROR"}
        /\ tree' = tree /\ judged' = judged /\ basis' = basis
    BY <1>1 DEF LeaveLane, FailRole, Stop, IInv, history
  <2>2. Completed(led') = Completed(led) /\ Keeps(led, led') BY <1>0, <2>1, AttemptKeeps
  <2> QED BY <1>0, <2>1, <2>2, StopStands DEF SamePasses, Keeps
<1>2. CASE FinishRole
  <2>1. led' = led /\ basis' = basis /\ done' = done /\ phase' = phase BY <1>2 DEF FinishRole
  <2>2. CASE phase = "WRITER"
    <3>1. pc' = "commit" /\ judged' = judged \cap Earlier(phase)
      BY <1>2, <2>2 DEF FinishRole
    <3>2. PassesAreJudged' BY <1>0, <2>1, <2>2, <3>1 DEF PassesAreJudged, IInv
    <3>3. MemoryMatchesLedger' BY <1>0, <2>1, <2>2, <3>1 DEF MemoryMatchesLedger, InPhase
    <3> QED BY <1>0, <2>1, <3>2, <3>3 DEF HandoffIsLast
  <2>3. CASE phase # "WRITER"
    <3>1. pc' = "gate" /\ tree' = tree /\ judged' = judged BY <1>2, <2>3 DEF FinishRole
    <3>2. SamePasses BY <2>1, <3>1 DEF SamePasses
    <3>3. MemoryMatchesLedger' BY <1>0, <2>1, <2>3, <3>1 DEF MemoryMatchesLedger, InPhase
    <3> QED BY <1>0, <2>1, <3>2, <3>3, SameStands DEF HandoffIsLast, IInv
  <2> QED BY <2>2, <2>3
<1>3. CASE FinishCommit
  <2>1. /\ led' = led /\ judged' = judged /\ basis' = basis /\ done' = done /\ phase' = phase
        /\ pc' = "gate" /\ tree' = "whole"
    BY <1>3 DEF FinishCommit, history
  <2>2. PassesAreJudged' BY <2>1 DEF PassesAreJudged, IInv
  <2>3. MemoryMatchesLedger' BY <1>0, <2>1 DEF MemoryMatchesLedger, InPhase
  <2> QED BY <1>0, <2>1, <2>2, <2>3 DEF HandoffIsLast
<1>4. CASE PassGate
  <2>1. /\ led' = Appended(led, GatePassed(phase)) /\ pc = "gate" /\ pc' = "passed"
        /\ judged' = judged \cup {phase} /\ basis' = basis /\ tree' = tree
        /\ done' = done /\ phase' = phase
    BY <1>4 DEF PassGate
  <2>2. /\ Completed(led') = Completed(led) \cup {phase} /\ led'.terminal = led.terminal
        /\ led'.inputs = led.inputs /\ ~led'.handoff
    BY <1>0, <2>1, PassEffect
  <2>3. PassesAreJudged' BY <2>1, <2>2, PassStands
  <2>4. MemoryMatchesLedger' BY <1>0, <2>1, <2>2 DEF MemoryMatchesLedger, InPhase
  <2> QED BY <2>2, <2>3, <2>4 DEF HandoffIsLast
<1>5. CASE FailGate
  <2>1. /\ led' = Appended(led, GateFailed(phase)) /\ pc = "gate" /\ pc' = "failed"
        /\ judged' = judged /\ basis' = basis /\ tree' = tree /\ done' = done /\ phase' = phase
        /\ verdict' \in FailedVerdicts(phase)
    BY <1>5 DEF FailGate, history
  <2>2. Completed(led') = Completed(led) /\ Keeps(led, led') BY <1>0, <2>1, AttemptKeeps
  <2>3. SamePasses BY <2>1, <2>2 DEF SamePasses, Keeps
  <2>4. verdict'.class = "docker_unavailable" => phase = "STORE_MANAGER"
    BY <1>0, <2>1 DEF FailedVerdicts, VerdictClasses, BuildRole
  <2>5. phase = "WRITER" => tree = "whole" BY <2>1 DEF IInv, MemoryMatchesLedger
  <2>6. MemoryMatchesLedger'
    BY <1>0, <2>1, <2>2, <2>4, <2>5 DEF MemoryMatchesLedger, InPhase, Keeps
  <2> QED BY <1>0, <2>2, <2>3, <2>6, SameStands DEF HandoffIsLast, Keeps, IInv
<1> QED BY <1>1, <1>2, <1>3, <1>4, <1>5

\* Advancing past a phase leaves the loop's `done` and the ledger in step.
LEMMA AdvanceStands ==
  ASSUME IInv, SamePasses, ~led'.handoff, pc = "passed", Advance
  PROVE  StandingIsJudged'
<1>1. done' = Completed(led') /\ pc' = "pick" /\ led'.inputs = basis'
  BY DEF IInv, StandingIsJudged, MemoryMatchesLedger, SamePasses, Advance
<1>2. MemoryMatchesLedger' BY <1>1 DEF MemoryMatchesLedger, InPhase
<1> QED BY <1>2, SameStands DEF IInv, StandingIsJudged, HandoffIsLast

LEMMA VerdictStands ==
  ASSUME IInv, HaltStage \/ FailCheckpoint \/ Checkpoint \/ PassUnattached
  PROVE  StandingIsJudged'
<1>0. ~led.handoff /\ led \in Ledgers
  BY NotHandedOff DEF IInv, TypeOK, DiskType, StandingIsJudged, HaltStage, FailCheckpoint, Checkpoint,
                      PassUnattached
<1>1. CASE HaltStage \/ FailCheckpoint
  <2>1. SamePasses /\ led' = led
    BY <1>1 DEF HaltStage, FailCheckpoint, SamePasses, disk, history
  <2> QED BY <1>0, <1>1, <2>1, StopStands DEF HaltStage, FailCheckpoint, Stop
<1>2. CASE Checkpoint
  <2>1. Completed(led') = Completed(led) /\ Keeps(led, led')
    BY <1>0, <1>2, NoteEffect DEF Checkpoint
  <2>2. SamePasses /\ ~led'.handoff BY <1>0, <1>2, <2>1 DEF Checkpoint, SamePasses, Keeps, history
  <2> QED BY <1>2, <2>2, AdvanceStands DEF Checkpoint
<1>3. CASE PassUnattached
  <2>1. SamePasses /\ led' = led BY <1>3 DEF PassUnattached, SamePasses, disk, history
  <2> QED BY <1>0, <1>3, <2>1, AdvanceStands DEF PassUnattached
<1> QED BY <1>1, <1>2, <1>3

LEMMA NotesEffect ==
  ASSUME NEW l \in Ledgers
  PROVE  LET m == Appended(Appended(l, Note), Note) IN
         /\ Completed(Appended(l, Note)) = Completed(l) /\ Keeps(l, Appended(l, Note))
         /\ Completed(m) = Completed(l) /\ Keeps(l, m) /\ Appended(l, Note) \in Ledgers
<1>1. Appended(l, Note) \in Ledgers BY NoteTypes, AppendedType
<1> QED BY <1>1, NoteEffect DEF Keeps

\* The WRITER sent back after a verdict of its own or of the TESTER's: its pass
\* stands in the ledger until it starts again.
LEMMA SendBackStands ==
  ASSUME IInv, SamePasses, ~led'.handoff, pc = "failed", phase \in {"WRITER", "TESTER"},
         NEW told, SendBack(told)
  PROVE  StandingIsJudged'
<1>1. done = Earlier(phase) /\ Completed(led) = Earlier(phase) /\ led.inputs = basis
  BY DuringPhase DEF InPhase
<1>2. done' = done \ {"WRITER"} /\ pc' = "pick" BY DEF SendBack
<1>3. \/ done' = Completed(led')
      \/ done' = Earlier("WRITER") /\ Completed(led') = Earlier("TESTER")
  BY <1>1, <1>2, EarlierOf DEF SamePasses
<1>4. MemoryMatchesLedger' BY <1>1, <1>2, <1>3 DEF MemoryMatchesLedger, InPhase, SamePasses
<1> QED BY <1>4, SameStands DEF IInv, StandingIsJudged, HandoffIsLast

LEMMA DecideStands ==
  ASSUME IInv, Decide
  PROVE  StandingIsJudged'
<1>0. /\ pc = "failed" /\ ~collecting /\ ~led.handoff /\ led \in Ledgers
      /\ phase \in BuildRole /\ done = Earlier(phase) /\ Completed(led) = Earlier(phase)
      /\ led.inputs = basis
  <2>1. pc = "failed"
    BY DEF Decide, CollectFinding, HandOff, FailTerminal, PassAdvisory, RegenerateTest, Reprompt,
           StopUnowned, StopTwice, StopSpent, StopForeman, ReworkWriter, Deciding, Halting
  <2> QED BY <2>1, DuringPhase DEF InPhase, IInv
<1>1. CASE FailTerminal \/ StopTwice \/ StopSpent \/ StopForeman
  <2>1. SamePasses /\ led' = led
    BY <1>1 DEF FailTerminal, StopTwice, StopSpent, StopForeman, SamePasses, disk, history
  <2>2. pc' = "stopping" /\ ending'.outcome \in {"FAILED_GATE", "FAILED_BUDGET_SPENT"}
    BY <1>1 DEF FailTerminal, StopTwice, StopSpent, StopForeman, Stop
  <2> QED BY <1>0, <2>1, <2>2, StopStands
<1>2. CASE HandOff
  <2>1. Completed(led') = Completed(led) /\ Keeps(led, led') BY <1>0, <1>2, NotesEffect DEF HandOff
  <2>2. SamePasses /\ ~led'.handoff BY <1>0, <1>2, <2>1 DEF HandOff, SamePasses, Keeps, history
  <2>3. phase = "STORE_MANAGER"
    BY <1>0, <1>2 DEF HandOff, IInv, StandingIsJudged, MemoryMatchesLedger
  <2>4. pc' = "stopping" /\ ending'.outcome \in {"HANDOFF_TO_N3", "FAILED_GATE"}
    BY <1>2 DEF HandOff, Stop
  <2>5. MemoryMatchesLedger' BY <1>0, <2>1, <2>3, <2>4 DEF MemoryMatchesLedger, InPhase
  <2> QED BY <2>2, <2>5, SameStands DEF IInv, StandingIsJudged, HandoffIsLast
<1>3. CASE PassAdvisory
  <2>1. /\ led' = Appended(Appended(led, Note), GatePassed(phase)) /\ Advance
        /\ judged' = judged \cup {phase} /\ basis' = basis /\ tree' = tree
    BY <1>3 DEF PassAdvisory
  <2>2. /\ Completed(led') = Completed(led) \cup {phase} /\ led'.terminal = led.terminal
        /\ led'.inputs = led.inputs /\ ~led'.handoff
    BY <1>0, <2>1, NotesEffect, PassEffect DEF Keeps
  <2>3. PassesAreJudged' BY <1>0, <2>1, <2>2, PassStands
  <2>4. MemoryMatchesLedger' BY <1>0, <2>1, <2>2 DEF MemoryMatchesLedger, InPhase, Advance
  <2> QED BY <2>2, <2>3, <2>4 DEF StandingIsJudged, HandoffIsLast
<1>4. CASE RegenerateTest \/ Reprompt
  <2>1. Completed(led') = Completed(led) /\ Keeps(led, led')
    BY <1>0, <1>4, NotesEffect DEF RegenerateTest, Reprompt
  <2>2. SamePasses /\ ~led'.handoff
    BY <1>0, <1>4, <2>1 DEF RegenerateTest, Reprompt, SamePasses, Keeps, history
  <2>3. phase \in {"WRITER", "TESTER"} BY <1>4 DEF RegenerateTest, Reprompt, Deciding
  <2>4. SendBack({}) \/ SendBack(work) BY <1>4 DEF RegenerateTest, Reprompt
  <2> QED BY <1>0, <2>2, <2>3, <2>4, SendBackStands
<1>5. CASE StopUnowned
  <2>1. Completed(led') = Completed(led) /\ Keeps(led, led')
    BY <1>0, <1>5, NotesEffect DEF StopUnowned, Keeps
  <2>2. SamePasses /\ ~led'.handoff
    BY <1>0, <1>5, <2>1 DEF StopUnowned, SamePasses, Keeps, history
  <2> QED BY <1>5, <2>2, StopStands DEF StopUnowned, Stop
<1>6. CASE ReworkWriter
  <2> DEFINE m == Appended(led, Note)
  <2>1. led' = Appended(m, Rework(phase, verdict.names, {}))
        /\ phase \in ReworkGates /\ verdict.names \in SUBSET Failures
    BY <1>6 DEF ReworkWriter, Deciding, ReworkGates, IInv, TypeOK, MemoryType
  <2>2. m \in Ledgers /\ Completed(m) = Completed(led) /\ Keeps(led, m) BY <1>0, NotesEffect
  <2> HIDE DEF m
  <2>3. Completed(led') = Completed(m) /\ led'.inputs = m.inputs /\ led'.handoff = m.handoff
        /\ led'.terminal = m.terminal
    <3> DEFINE n == Appended(m, Rework(phase, verdict.names, {}))
    <3>1. /\ Completed(n) = Completed(m) \ {} /\ n.inputs = m.inputs /\ n.handoff = m.handoff
          /\ n.terminal = IF {} = {} THEN m.terminal ELSE NoVerdict
      BY <2>2, ReworkEffect
    <3>2. led' = n BY <2>1
    <3> HIDE DEF n
    <3> QED BY <3>1, <3>2
  <2>4. SamePasses /\ ~led'.handoff
    BY <1>0, <1>6, <2>2, <2>3 DEF ReworkWriter, SamePasses, Keeps, history
  <2> QED BY <1>0, <1>6, <2>4, SendBackStands DEF ReworkWriter, Deciding
<1>7. CASE CollectFinding BY <1>0, <1>7 DEF CollectFinding
<1> QED BY <1>1, <1>2, <1>3, <1>4, <1>5, <1>6, <1>7 DEF Decide

LEMMA CloseStands ==
  ASSUME IInv, Close
  PROVE  StandingIsJudged'
<1>0. led \in Ledgers /\ ~led.handoff
  BY NotHandedOff DEF IInv, TypeOK, DiskType, StandingIsJudged, Close, Report, OpenAutoPilot,
                      Succeed, FinishFailed, FinishSuccess, AllDone
<1>1. AllDone => Completed(led) = BuildRole
  BY EarlierOf DEF AllDone, IInv, StandingIsJudged, MemoryMatchesLedger, BuildRole
<1>2. CASE Report
  <2>1. SamePasses /\ led' = led BY <1>2 DEF Report, SamePasses, disk, history
  <2> QED BY <1>0, <1>2, <2>1, StopStands DEF Report, Stop
<1>3. CASE OpenAutoPilot
  <2>1. PICK reopenWriter \in BOOLEAN, cliReopen \in BOOLEAN :
          /\ led' = IF cliReopen THEN Appended(OpenPilot(led, reopenWriter), Note)
                    ELSE OpenPilot(led, reopenWriter)
          /\ done' = IF cliReopen THEN Completed(led') \ {"WRITER"} ELSE Completed(led')
    BY <1>3 DEF OpenAutoPilot
  <2> DEFINE m == OpenPilot(led, reopenWriter)
  <2>2. /\ Completed(m) = BuildRole \ ({"TESTER", "STORE_MANAGER"} \cup IF reopenWriter THEN {"WRITER"} ELSE {})
        /\ m.terminal = NoVerdict /\ m.inputs = led.inputs /\ ~m.handoff /\ m \in Ledgers
    BY <1>0, <1>1, <1>3, OpenPilotEffect, OpenPilotType DEF OpenAutoPilot
  <2> HIDE DEF m
  <2>3. /\ Completed(led') = Completed(m) /\ led'.terminal = NoVerdict
        /\ led'.inputs = led.inputs /\ ~led'.handoff
    BY <2>1, <2>2, NoteEffect DEF m, Keeps
  <2>4. pc = "pick" /\ pc' = "pick" /\ tree' = tree /\ judged' = judged /\ basis' = basis
    BY <1>3 DEF OpenAutoPilot, AllDone, history
  <2>5. led.inputs = basis /\ BuildRole \subseteq judged /\ tree = "whole"
    BY <1>1, <1>3, <2>4 DEF OpenAutoPilot, IInv, StandingIsJudged, PassesAreJudged, BuildRole
  <2>6. Completed(led') = Earlier("WRITER") \/ Completed(led') = Earlier("TESTER")
    BY <2>2, <2>3, EarlierOf DEF BuildRole
  <2>7. PassesAreJudged'
    BY <2>3, <2>4, <2>5, <2>6, OrderExtends, EarlierType DEF PassesAreJudged, NoVerdict, BuildRole
  <2>8. \/ done' = Completed(led')
        \/ done' = Earlier("WRITER") /\ Completed(led') = Earlier("TESTER")
    BY <2>1, <2>6, EarlierOf
  <2>9. MemoryMatchesLedger' BY <2>3, <2>4, <2>5, <2>8 DEF MemoryMatchesLedger, InPhase
  <2> QED BY <2>3, <2>7, <2>9 DEF StandingIsJudged, HandoffIsLast
<1>4. CASE Succeed
  <2>1. SamePasses /\ led' = led BY <1>4 DEF Succeed, SamePasses, disk, history
  <2>2. MemoryMatchesLedger' BY <1>1, <1>4, <2>1 DEF Succeed, Stop, MemoryMatchesLedger, InPhase
  <2> QED BY <1>0, <2>1, <2>2, SameStands DEF IInv, StandingIsJudged, HandoffIsLast
<1>5. CASE FinishFailed
  <2>1. /\ Completed(led') = Completed(led) /\ led'.inputs = led.inputs
        /\ led'.terminal.kind = "RUN_FAILED"
        /\ led'.handoff => ending.outcome = "HANDOFF_TO_N3"
    BY <1>0, <1>5, FailedEffect DEF FinishFailed
  <2>2. SamePasses BY <1>5, <2>1 DEF FinishFailed, SamePasses
  <2>3. CASE ending.outcome = "HANDOFF_TO_N3"
    <3>1. pc' = "n3" BY <1>5, <2>3 DEF FinishFailed
    <3>2. Earlier("STORE_MANAGER") \subseteq Completed(led')
      BY <1>5, <2>1, <2>3 DEF FinishFailed, IInv, StandingIsJudged, MemoryMatchesLedger
    <3>3. MemoryMatchesLedger' BY <3>1, <3>2 DEF MemoryMatchesLedger, InPhase
    <3> QED BY <2>1, <2>2, <3>1, <3>2, <3>3, SameStands DEF IInv, StandingIsJudged, HandoffIsLast
  <2>4. CASE ending.outcome # "HANDOFF_TO_N3"
    <3>1. pc' = "down" BY <1>5, <2>4 DEF FinishFailed, Down
    <3> QED BY <2>1, <2>2, <2>4, <3>1, AtRest, SameStands DEF IInv, StandingIsJudged, HandoffIsLast
  <2> QED BY <2>3, <2>4
<1>6. CASE FinishSuccess
  <2>1. PICK thin \in BOOLEAN, delivered \in BOOLEAN :
          led' = Appended(led,
                   IF thin \/ (Climbs /\ cycle # "pilot")
                   THEN RunFailed(IF Climbs /\ cycle # "pilot" THEN "TESTER" ELSE "WRITER",
                                  "FAILED_ROLE_ERROR", {})
                   ELSE RunSucceeded(IF delivered THEN "SUCCESS" ELSE "FAILED_ROLE_ERROR",
                                     cycle))
    BY <1>6 DEF FinishSuccess
  <2>2. Completed(led') = Completed(led) /\ led'.inputs = led.inputs /\ ~led'.handoff
    <3>1. CASE thin \/ (Climbs /\ cycle # "pilot") BY <1>0, <2>1, <3>1, FailedEffect
    <3>2. CASE ~(thin \/ (Climbs /\ cycle # "pilot"))
      <4> DEFINE o == IF delivered THEN "SUCCESS" ELSE "FAILED_ROLE_ERROR"
      <4>1. led' = Appended(led, RunSucceeded(o, cycle)) BY <2>1, <3>2
      <4>2. o # "HANDOFF_TO_N3" OBVIOUS
      <4> HIDE DEF o
      <4> QED BY <1>0, <4>1, <4>2, SucceededEffect
    <3> QED BY <3>1, <3>2
  <2>3. Completed(led) = BuildRole
    BY <1>6 DEF FinishSuccess, IInv, StandingIsJudged, MemoryMatchesLedger
  <2>4. tree' = tree /\ judged' = judged /\ basis' = basis /\ pc' = "down"
    BY <1>6 DEF FinishSuccess, Down
  <2>5. PassesAreJudged' BY <2>2, <2>3, <2>4 DEF IInv, StandingIsJudged, PassesAreJudged
  <2> QED BY <2>2, <2>4, <2>5, AtRest DEF StandingIsJudged, HandoffIsLast
<1> QED BY <1>2, <1>3, <1>4, <1>5, <1>6 DEF Close

\* The Store gate's green answer completes the four phases that stood.
LEMMA StoreGateStands ==
  ASSUME IInv, pc \in {"n3", "ingest", "reopen"},
         Completed(led') = Completed(led) \cup {"STORE_MANAGER"}, led'.inputs = led.inputs,
         judged' = judged \cup {"STORE_MANAGER"}, basis' = basis, tree' = tree
  PROVE  PassesAreJudged'
<1>1. Completed(led) \in SUBSET BuildRole BY DEF Completed
<1>2. Earlier("STORE_MANAGER") \subseteq Completed(led)
  BY DEF IInv, StandingIsJudged, MemoryMatchesLedger
<1>3. Completed(led') = BuildRole BY <1>1, <1>2, EarlierOf DEF BuildRole
<1>4. InOrder(BuildRole) BY EarlierType DEF InOrder
<1>5. "WRITER" \in Completed(led) BY <1>2, EarlierOf
<1> QED BY <1>3, <1>4, <1>5 DEF IInv, StandingIsJudged, PassesAreJudged

LEMMA AnswerStands ==
  ASSUME IInv, AnswerN3
  PROVE  StandingIsJudged'
<1> USE DEF StandingIsJudged
<1>0. led \in Ledgers BY DEF IInv, TypeOK, DiskType
<1>1. CASE N3Green
  <2> DEFINE m == Appended(led, N3Passed("STORE_MANAGER"))
             e == [RunSucceeded("SUCCESS", "pilot") EXCEPT !.role = "STORE_MANAGER"]
  <2>1. m \in Ledgers BY <1>0, N3PassTypes, AppendedType
  <2>2. Completed(m) = Completed(led) \cup {"STORE_MANAGER"} /\ m.inputs = led.inputs
    BY <1>0, PassEffect DEF BuildRole
  <2>3. led' = Appended(m, e) BY <1>1 DEF N3Green
  <2> HIDE DEF m
  <2>4. Completed(led') = Completed(m) /\ led'.inputs = m.inputs /\ ~led'.handoff
    BY <2>1, <2>3, N3SucceededEffect
  <2>5. /\ pc \in {"n3", "ingest", "reopen"} /\ pc' = "down" /\ basis' = basis /\ tree' = tree
        /\ judged' = judged \cup {"STORE_MANAGER"}
    BY <1>1 DEF N3Green, Waiting, Down
  <2>6. PassesAreJudged' BY <2>2, <2>4, <2>5, StoreGateStands
  <2> QED BY <2>4, <2>5, <2>6, AtRest DEF HandoffIsLast
<1>2. CASE N3NotProduct
  <2>1. /\ Completed(led') = Completed(led) /\ led'.inputs = led.inputs
        /\ led'.terminal.kind = "RUN_FAILED" /\ ~led'.handoff
    BY <1>0, <1>2, N3FailedEffect DEF N3NotProduct
  <2>2. SamePasses /\ pc' = "down" BY <1>2, <2>1 DEF N3NotProduct, SamePasses, Down
  <2> QED BY <2>1, <2>2, SameStands, AtRest DEF IInv, HandoffIsLast
<1>3. CASE N3Product
  <2>1. PICK names \in (SUBSET Failures) \ {{}} : led' = Appended(led, N3Failed(names))
    BY <1>3 DEF N3Product
  <2>2. /\ Completed(led') = Completed(led) /\ led'.inputs = led.inputs
        /\ led'.terminal.kind = "RUN_FAILED" /\ ~led'.handoff
    BY <1>0, <2>1, N3FailedEffect
  <2>3. SamePasses /\ Waiting BY <1>3, <2>2 DEF N3Product, SamePasses
  <2>4. pc' \in {"down", "reopen"} BY <1>3 DEF N3Product, Down
  <2>5. Earlier("STORE_MANAGER") \subseteq Completed(led')
    BY <2>2, <2>3 DEF IInv, MemoryMatchesLedger, Waiting
  <2>6. MemoryMatchesLedger' BY <2>4, <2>5 DEF MemoryMatchesLedger, InPhase
  <2> QED BY <2>2, <2>3, <2>6, SameStands DEF IInv, HandoffIsLast
<1>4. CASE N3Unreachable
  <2>1. led' = led /\ SamePasses /\ pc' = "down" BY <1>4 DEF N3Unreachable, SamePasses, Down, disk
  <2> QED BY <2>1, SameStands, AtRest DEF IInv, HandoffIsLast
<1>5. CASE ReopenAdvisory
  <2>1. /\ pc = "reopen" /\ pc' = "down" /\ basis' = basis /\ tree' = tree
        /\ judged' = judged \cup {"STORE_MANAGER"}
        /\ led' = Appended(Appended(led, Note), GatePassed("STORE_MANAGER"))
    BY <1>5 DEF ReopenAdvisory, Down
  <2>2. /\ Completed(led') = Completed(led) \cup {"STORE_MANAGER"} /\ led'.inputs = led.inputs
        /\ led'.handoff => led.handoff
    BY <1>0, <2>1, NotesEffect, PassEffect DEF Keeps, BuildRole
  <2>3. PassesAreJudged' BY <2>1, <2>2, StoreGateStands
  <2> QED BY <2>1, <2>2, <2>3, NotHandedOff, AtRest DEF IInv, HandoffIsLast
<1>6. CASE ReopenStopped
  <2>1. PICK outcome \in {"FAILED_GATE", "FAILED_BUDGET_SPENT"} :
          led' = Appended(led, RunFailed("STORE_MANAGER", outcome, verdict.names))
    BY <1>6 DEF ReopenStopped
  <2>2. /\ Completed(led') = Completed(led) /\ led'.inputs = led.inputs
        /\ led'.terminal.kind = "RUN_FAILED" /\ (led'.handoff => led.handoff)
    BY <1>0, <2>1, FailedEffect
  <2>3. SamePasses /\ pc = "reopen" /\ pc' = "down"
    BY <1>6, <2>2 DEF ReopenStopped, SamePasses, Down
  <2> QED BY <2>2, <2>3, SameStands, NotHandedOff, AtRest DEF IInv, HandoffIsLast
<1>7. CASE ReopenRework
  <2> DEFINE m == Appended(led, Note)
             R == {"WRITER", "TESTER", "STORE_MANAGER"}
             n == Appended(m, Rework("STORE_MANAGER", verdict.names, R))
  <2>1. m \in Ledgers /\ Completed(m) = Completed(led) /\ Keeps(led, m) BY <1>0, NotesEffect
  <2> HIDE DEF m
  <2>2. Completed(n) = Completed(m) \ R /\ n.inputs = m.inputs /\ n.handoff = m.handoff
        /\ n.terminal = IF R = {} THEN m.terminal ELSE NoVerdict
    BY <2>1, ReworkEffect
  <2>3. led' = n /\ pc = "reopen" /\ Launch(suite, given, collecting)
        /\ tree' = tree /\ judged' = judged /\ basis' = basis
    BY <1>7 DEF ReopenRework, m
  <2> HIDE DEF n
  <2>4. ~led'.handoff BY <2>1, <2>2, <2>3, NotHandedOff DEF Keeps, IInv
  <2>5. Completed(led) \in SUBSET BuildRole BY DEF Completed
  <2>6. Completed(led') = Earlier("WRITER")
    <3>1. Earlier("STORE_MANAGER") \subseteq Completed(led)
      BY <2>3 DEF IInv, MemoryMatchesLedger
    <3> QED BY <2>1, <2>2, <2>3, <2>5, <3>1, EarlierOf DEF BuildRole
  <2>7. Completed(led') \subseteq Completed(led) BY <2>1, <2>2, <2>3
  <2>8. led'.inputs = led.inputs /\ led'.terminal = NoVerdict BY <2>1, <2>2, <2>3 DEF Keeps
  <2>9. PassesAreJudged'
    BY <2>3, <2>6, <2>7, <2>8, OrderExtends, EarlierType
       DEF IInv, PassesAreJudged, NoVerdict, BuildRole
  <2> QED BY <2>3, <2>4, <2>9, AtLaunch
<1> QED BY <1>1, <1>2, <1>3, <1>4, <1>5, <1>6, <1>7 DEF AnswerN3

LEMMA CrashStands ==
  ASSUME IInv, KillProcess \/ CrashThread
  PROVE  StandingIsJudged'
<1> USE DEF StandingIsJudged
<1>0. led \in Ledgers BY DEF IInv, TypeOK, DiskType
<1>1. CASE KillProcess
  <2>1. led' = led /\ SamePasses /\ pc' = "down" BY <1>1 DEF KillProcess, SamePasses, Down, disk
  <2> QED BY <2>1, SameStands, AtRest DEF IInv, HandoffIsLast
<1>2. CASE CrashThread
  <2>1. /\ Completed(led') = Completed(led) /\ led'.inputs = led.inputs
        /\ led'.terminal.kind = "RUN_FAILED" /\ (led'.handoff => led.handoff)
    BY <1>0, <1>2, FailedEffect DEF CrashThread, RecordsCrash
  <2>2. SamePasses /\ pc' = "down" BY <1>2, <2>1 DEF CrashThread, RecordsCrash, SamePasses, Down
  <2>3. ~led.handoff BY <1>2, NotHandedOff DEF CrashThread, CanCrash, Waiting, IInv
  <2> QED BY <2>1, <2>2, <2>3, SameStands, AtRest DEF IInv, HandoffIsLast
<1> QED BY <1>1, <1>2

LEMMA NotCollecting ==
  ASSUME PlainBuild, ~collecting, Next
  PROVE  ~collecting'
<1>1. CASE Start
  BY <1>1 DEF Start, StartFresh, StartOver, StartAttached, ResumeFailed, StartKept, StartIngest,
              Launch, PlainBuild, request
<1>2. CASE RefuseInputs \/ FailPreflight \/ Enter \/ SpendWall \/ RunPhase
  BY <1>2 DEF RefuseInputs, RecordsCrash, FailPreflight, Enter, SpendWall, RunPhase, StartPhase,
              LeaveLane, FailRole, FinishRole, FinishCommit, PassGate, FailGate, HaltStage, Checkpoint,
              FailCheckpoint, PassUnattached, Down, request
<1>3. CASE Decide
  BY <1>3 DEF Decide, CollectFinding, HandOff, FailTerminal, PassAdvisory, RegenerateTest, Reprompt,
              StopUnowned, StopTwice, StopSpent, StopForeman, ReworkWriter, request
<1>4. CASE Close
  BY <1>4 DEF Close, Report, OpenAutoPilot, Succeed, FinishFailed, FinishSuccess, Down, Held, request
<1>5. CASE AnswerN3
  BY <1>5 DEF AnswerN3, N3Green, N3NotProduct, N3Product, N3Unreachable, ReopenAdvisory,
              ReopenStopped, ReopenRework, Launch, Down, request
<1>6. CASE KillProcess \/ CrashThread
  BY <1>6 DEF KillProcess, CrashThread, RecordsCrash, Down
<1> QED BY <1>1, <1>2, <1>3, <1>4, <1>5, <1>6 DEF Next, Thread

LEMMA InitStands == Init => IInv
<1> SUFFICES ASSUME Init PROVE IInv OBVIOUS
<1>1. Completed(led) = {} BY EmptyLedgerType DEF Init
<1>2. led.terminal = NoVerdict /\ ~led.handoff BY DEF Init, EmptyLedger
<1>3. PassesAreJudged BY <1>1, <1>2 DEF PassesAreJudged, InOrder, NoVerdict
<1>4. MemoryMatchesLedger BY DEF Init, MemoryMatchesLedger, InPhase
<1>5. ~collecting BY DEF Init
<1> QED BY <1>2, <1>3, <1>4, <1>5, InitType DEF IInv, StandingIsJudged, HandoffIsLast

LEMMA NextStands ==
  ASSUME PlainBuild, IInv, [Next]_vars
  PROVE  IInv'
<1>1. CASE UNCHANGED vars
  BY <1>1 DEF vars, disk, memory, history, bounds, IInv, TypeOK, DiskType, MemoryType, HistoryType,
              StandingIsJudged, PassesAreJudged, HandoffIsLast, MemoryMatchesLedger
<1>2. CASE Next
  <2>1. TypeOK' /\ ~collecting' BY <1>2, NextType, NotCollecting DEF IInv
  <2>2. StandingIsJudged'
    BY <1>2, StartStands, PreludeStands, PickStands, PhaseStands, VerdictStands, DecideStands,
       CloseStands, AnswerStands, CrashStands
       DEF Next, Thread, RunPhase
  <2> QED BY <2>1, <2>2 DEF IInv
<1> QED BY <1>1, <1>2

-----------------------------------------------------------------------------
(* The theorems.                                                             *)

\* Whatever is resumed, handed off, re-opened or killed, in whatever order, the
\* passes completed_roles reads off the ledger were given to the product that is in
\* the workspace.
THEOREM PassesJudged == PlainBuild => (Spec => []StandingIsJudged)
<1> SUFFICES ASSUME PlainBuild PROVE Spec => []StandingIsJudged OBVIOUS
<1>1. IInv /\ [Next]_vars => IInv' BY NextStands
<1>2. IInv => StandingIsJudged BY DEF IInv
<1> QED BY <1>1, <1>2, InitStands, PTL DEF Spec

\* A build the ledger calls succeeded has been judged, as it now stands, by all five
\* phases.
THEOREM SuccessEarned == PlainBuild => (Spec => []SuccessIsEarned)
<1> SUFFICES ASSUME PlainBuild PROVE Spec => []SuccessIsEarned OBVIOUS
<1>1. IInv /\ [Next]_vars => IInv' BY NextStands
<1>2. IInv => SuccessIsEarned
  <2> SUFFICES ASSUME IInv, led.terminal.kind = "RUN_SUCCEEDED"
               PROVE  judged = BuildRole /\ tree = "whole"
    BY DEF SuccessIsEarned
  <2>1. Completed(led) = BuildRole /\ Completed(led) \subseteq judged
        /\ ("WRITER" \in Completed(led) => tree = "whole")
    BY DEF IInv, StandingIsJudged, PassesAreJudged
  <2>2. judged \subseteq BuildRole BY DEF IInv, TypeOK, HistoryType
  <2> QED BY <2>1, <2>2 DEF BuildRole
<1> QED BY <1>1, <1>2, InitStands, PTL DEF Spec

\* No phase works on a product an earlier phase has not judged, or on an app/ that a
\* killed commit left half replaced.
THEOREM PhasesStand == PlainBuild => (Spec => []PhasesStandOnJudgedWork)
<1> SUFFICES ASSUME PlainBuild PROVE Spec => []PhasesStandOnJudgedWork OBVIOUS
<1>1. IInv /\ [Next]_vars => IInv' BY NextStands
<1>2. IInv => PhasesStandOnJudgedWork
  <2> SUFFICES ASSUME IInv, pc \in {"role", "commit", "gate"}
               PROVE  /\ Earlier(phase) \subseteq judged
                      /\ BUILD_PHASES[phase] > BUILD_PHASES["WRITER"] => tree = "whole"
    BY DEF PhasesStandOnJudgedWork
  <2>1. phase \in BuildRole /\ Completed(led) = Earlier(phase) /\ Earlier(phase) \subseteq judged
    BY DuringPhase DEF InPhase
  <2>2. BUILD_PHASES[phase] > BUILD_PHASES["WRITER"] => "WRITER" \in Earlier(phase)
    BY <2>1, EarlierOf DEF BUILD_PHASES, BuildRole
  <2> QED BY <2>1, <2>2 DEF IInv, StandingIsJudged, PassesAreJudged
<1> QED BY <1>1, <1>2, InitStands, PTL DEF Spec

-----------------------------------------------------------------------------
(* An open handoff is the ledger's verdict and nothing runs but its waiter,  *)
(* in every build: this part of HandoffIsLast needs nothing about passes.    *)

Alone == led.handoff => pc \in {"down", "n3", "ingest"} /\ led.terminal.kind = "RUN_FAILED"

AInv == TypeOK /\ Alone

\* No handoff is opened from l to m.
Shut(l, m) == m.handoff => l.handoff

LEMMA ShutChain ==
  ASSUME NEW l, NEW m, NEW n, Shut(l, m), Shut(m, n)
  PROVE  Shut(l, n)
BY DEF Shut

LEMMA ShutAfter ==
  ASSUME NEW l, NEW e, e.outcome # "HANDOFF_TO_N3"
  PROVE  Shut(l, Appended(l, e))
BY DEF Shut, Appended, HandoffAfter

LEMMA ShutEvents ==
  ASSUME NEW l
  PROVE  /\ Shut(l, l) /\ Shut(l, Appended(l, Note)) /\ Shut(l, Appended(l, BudgetReset))
         /\ \A h : Shut(l, Appended(l, InputsRebased(h)))
         /\ \A r : /\ Shut(l, Appended(l, PhaseStarted(r))) /\ Shut(l, Appended(l, GatePassed(r)))
                   /\ Shut(l, Appended(l, GateFailed(r))) /\ Shut(l, Appended(l, PhaseAborted(r)))
         /\ \A b : Shut(l, Appended(l, PilotOpened(b)))
         /\ \A g, F, R : Shut(l, Appended(l, Rework(g, F, R)))
         /\ \A r, F : \A o : o # "HANDOFF_TO_N3" => Shut(l, Appended(l, RunFailed(r, o, F)))
         /\ \A c : \A o : o # "HANDOFF_TO_N3" => Shut(l, Appended(l, RunSucceeded(o, c)))
<1>1. Shut(l, l) BY DEF Shut
<1>2. Note.outcome = "none" /\ BudgetReset.outcome = "none" BY DEF Note, BudgetReset
<1>3. \A h : InputsRebased(h).outcome = "none" BY DEF Note, InputsRebased
<1>4. \A r : /\ PhaseStarted(r).outcome = "none" /\ GatePassed(r).outcome = "none"
             /\ GateFailed(r).outcome = "none" /\ PhaseAborted(r).outcome = "none"
  BY DEF Note, PhaseStarted, GatePassed, GateFailed, PhaseAborted
<1>5. \A b : PilotOpened(b).outcome = "none" BY DEF Note, PilotOpened
<1>6. \A g, F, R : Rework(g, F, R).outcome = "none" BY DEF Note, Rework
<1>7. \A r, o, F : RunFailed(r, o, F).outcome = o BY DEF Note, RunFailed
<1>8. \A o, c : RunSucceeded(o, c).outcome = o BY DEF Note, RunSucceeded
<1> QED BY <1>1, <1>2, <1>3, <1>4, <1>5, <1>6, <1>7, <1>8, ShutAfter

LEMMA ShutOpening ==
  ASSUME NEW l, NEW b
  PROVE  Shut(l, LevelNoted(l)) /\ Shut(l, OpenPilot(l, b)) /\ Shut(l, OpenPilot(LevelNoted(l), b))
<1>1. \A m : Shut(m, OpenPilot(m, b)) BY ShutEvents, ShutChain DEF OpenPilot
<1>2. Shut(l, LevelNoted(l)) BY ShutEvents DEF LevelNoted
<1> QED BY <1>1, <1>2, ShutChain

\* The thread opens a handoff with its last event, and only that way.
LEMMA ShutThread ==
  ASSUME Thread, pc \notin {"n3", "ingest"}, ~(FinishFailed /\ ending.outcome = "HANDOFF_TO_N3")
  PROVE  Shut(led, led')
<1> USE ShutEvents, ShutChain
<1>1. CASE RefuseInputs \/ FailPreflight \/ Enter
  <2>1. CASE RefuseInputs
    <3>1. "none" # "HANDOFF_TO_N3" OBVIOUS
    <3> QED BY <2>1, <3>1 DEF RefuseInputs, RecordsCrash
  <2>2. CASE FailPreflight BY <2>2, ShutOpening DEF FailPreflight
  <2>3. CASE Enter BY <2>3, ShutOpening DEF Enter
  <2> QED BY <1>1, <2>1, <2>2, <2>3
<1>2. CASE SpendWall \/ RunPhase
  BY <1>2 DEF SpendWall, RunPhase, StartPhase, LeaveLane, FailRole, FinishRole, FinishCommit, PassGate,
              FailGate, HaltStage, Checkpoint, FailCheckpoint, PassUnattached, disk
<1>3. CASE Decide
  BY <1>3 DEF Decide, CollectFinding, HandOff, FailTerminal, PassAdvisory, RegenerateTest, Reprompt,
              StopUnowned, StopTwice, StopSpent, StopForeman, ReworkWriter, disk
<1>4. CASE Close
  <2>1. CASE Report \/ Succeed BY <2>1 DEF Report, Succeed, disk
  <2>2. CASE OpenAutoPilot BY <2>2, ShutOpening DEF OpenAutoPilot
  <2>3. CASE FinishFailed BY <2>3 DEF FinishFailed
  <2>4. CASE FinishSuccess
    <3>1. PICK thin \in BOOLEAN, delivered \in BOOLEAN :
            led' = Appended(led,
                     IF thin \/ (Climbs /\ cycle # "pilot")
                     THEN RunFailed(IF Climbs /\ cycle # "pilot" THEN "TESTER" ELSE "WRITER",
                                    "FAILED_ROLE_ERROR", {})
                     ELSE RunSucceeded(IF delivered THEN "SUCCESS" ELSE "FAILED_ROLE_ERROR",
                                       cycle))
      BY <2>4 DEF FinishSuccess
    <3> QED BY <3>1
  <2> QED BY <1>4, <2>1, <2>2, <2>3, <2>4 DEF Close
<1>5. CASE AnswerN3
  <2>1. ReopenAdvisory \/ ReopenStopped \/ ReopenRework
    BY <1>5 DEF AnswerN3, N3Green, N3NotProduct, N3Product, N3Unreachable, Waiting
  <2>2. CASE ReopenAdvisory BY <2>2 DEF ReopenAdvisory
  <2>3. CASE ReopenStopped
    <3>1. PICK o \in {"FAILED_GATE", "FAILED_BUDGET_SPENT"} :
            led' = Appended(led, RunFailed("STORE_MANAGER", o, verdict.names))
      BY <2>3 DEF ReopenStopped
    <3>2. o # "HANDOFF_TO_N3" OBVIOUS
    <3> QED BY <3>1, <3>2
  <2>4. CASE ReopenRework BY <2>4 DEF ReopenRework
  <2> QED BY <2>1, <2>2, <2>3, <2>4
<1> QED BY <1>1, <1>2, <1>3, <1>4, <1>5 DEF Thread

LEMMA AloneStart ==
  ASSUME AInv, Start
  PROVE  Alone'
<1>1. CASE StartFresh \/ StartOver
  <2>1. PICK h \in Inputs : led' = Appended(EmptyLedger, RunStarted(h))
    BY <1>1 DEF StartFresh, StartOver, OpenFresh
  <2> QED BY <2>1, RunStartedEffect DEF Alone
<1>2. CASE StartAttached
  <2> DEFINE m == Appended(EmptyLedger, RunStarted(branch.inputs))
  <2>1. branch.inputs \in Inputs \cup {"none"} BY DEF AInv, TypeOK, DiskType, Branches
  <2>2. m \in Ledgers /\ ~m.handoff BY <2>1, RunStartedEffect
  <2>3. led' = [m EXCEPT !.verdicts =
                  [r \in BuildRole |-> IF r \in Proven THEN "GATE_PASSED" ELSE "none"]]
    BY <1>2 DEF StartAttached
  <2> HIDE DEF m
  <2> QED BY <2>2, <2>3 DEF Alone, Ledgers
<1>3. CASE ResumeFailed
  <2>1. ~led.handoff BY <1>3 DEF ResumeFailed, MayReadFailed, AInv, Alone
  <2>2. PICK h \in Inputs, b \in BOOLEAN :
          led' = LET rebased == IF b /\ led.inputs # h
                                THEN Appended(led, InputsRebased(h)) ELSE led
                 IN  Appended(Appended(rebased, Note), BudgetReset)
    BY <1>3 DEF ResumeFailed
  <2> DEFINE rebased == IF b /\ led.inputs # h THEN Appended(led, InputsRebased(h)) ELSE led
  <2>3. Shut(led, rebased) BY ShutEvents
  <2>4. led' = Appended(Appended(rebased, Note), BudgetReset) BY <2>2
  <2> HIDE DEF rebased
  <2>5. Shut(led, led') BY <2>3, <2>4, ShutEvents, ShutChain
  <2> QED BY <2>1, <2>5 DEF Shut, Alone
<1>4. CASE StartKept
  BY <1>4 DEF StartKept, ReadsStalled, ReadsSucceeded, AInv, Alone, disk
<1>5. CASE StartIngest BY <1>5 DEF StartIngest, AwaitsN3, Alone, disk
<1> QED BY <1>1, <1>2, <1>3, <1>4, <1>5 DEF Start

LEMMA AloneThread ==
  ASSUME AInv, Thread
  PROVE  Alone'
<1>0. led \in Ledgers BY DEF AInv, TypeOK, DiskType
<1>1. CASE pc \in {"n3", "ingest"}
  <2>1. N3Green \/ N3NotProduct \/ N3Product \/ N3Unreachable
    BY <1>1 DEF Thread, RefuseInputs, FailPreflight, Enter, SpendWall, RunPhase, StartPhase,
                LeaveLane, FailRole, FinishRole, FinishCommit, PassGate, FailGate, HaltStage, Checkpoint,
                FailCheckpoint, PassUnattached, Decide, CollectFinding, HandOff, FailTerminal,
                PassAdvisory, RegenerateTest, Reprompt, StopUnowned, StopTwice, StopSpent, StopForeman,
                ReworkWriter, Deciding, Halting, Close, Report, OpenAutoPilot, Succeed, FinishFailed,
                FinishSuccess, AllDone, AnswerN3, ReopenAdvisory, ReopenStopped, ReopenRework
  <2>2. CASE N3Green
    <3> DEFINE m == Appended(led, N3Passed("STORE_MANAGER"))
    <3>1. m \in Ledgers BY <1>0, PhaseEventTypes, AppendedType DEF BuildRole
    <3>2. led' = Appended(m, [RunSucceeded("SUCCESS", "pilot") EXCEPT !.role = "STORE_MANAGER"])
      BY <2>2 DEF N3Green
    <3> HIDE DEF m
    <3> QED BY <3>1, <3>2, N3SucceededEffect DEF Alone
  <2>3. CASE N3NotProduct \/ N3Product
    <3>1. \E F : led' = Appended(led, N3Failed(F)) BY <2>3 DEF N3NotProduct, N3Product
    <3> QED BY <1>0, <3>1, N3FailedEffect DEF Alone
  <2>4. CASE N3Unreachable BY <2>4 DEF N3Unreachable, Down, disk, AInv, Alone
  <2> QED BY <2>1, <2>2, <2>3, <2>4
<1>2. CASE pc \notin {"n3", "ingest"}
  <2>1. CASE FinishFailed /\ ending.outcome = "HANDOFF_TO_N3"
    <3>1. pc' = "n3" /\ led' = Appended(led, RunFailed(ending.role, ending.outcome, ending.names))
      BY <2>1 DEF FinishFailed
    <3> QED BY <1>0, <3>1, FailedEffect DEF Alone
  <2>2. CASE ~(FinishFailed /\ ending.outcome = "HANDOFF_TO_N3")
    <3>1. Shut(led, led') BY <1>2, <2>2, ShutThread
    <3>2. pc # "down"
      BY DEF Thread, RefuseInputs, FailPreflight, Enter, SpendWall, RunPhase, StartPhase,
             LeaveLane, FailRole, FinishRole, FinishCommit, PassGate, FailGate, HaltStage, Checkpoint,
             FailCheckpoint, PassUnattached, Decide, CollectFinding, HandOff, FailTerminal,
             PassAdvisory, RegenerateTest, Reprompt, StopUnowned, StopTwice, StopSpent, StopForeman,
             ReworkWriter, Deciding, Halting, Close, Report, OpenAutoPilot, Succeed, FinishFailed,
             FinishSuccess, AllDone, AnswerN3, N3Green, N3NotProduct, N3Product, N3Unreachable, Waiting,
             ReopenAdvisory, ReopenStopped, ReopenRework
    <3>3. ~led.handoff BY <1>2, <3>2 DEF AInv, Alone
    <3> QED BY <3>1, <3>3 DEF Shut, Alone
  <2> QED BY <2>1, <2>2
<1> QED BY <1>1, <1>2

LEMMA NextAlone ==
  ASSUME AInv, [Next]_vars
  PROVE  AInv'
<1>1. TypeOK' BY NextType DEF AInv
<1>2. CASE UNCHANGED vars BY <1>1, <1>2 DEF vars, disk, memory, AInv, Alone
<1>3. CASE KillProcess BY <1>1, <1>3 DEF KillProcess, CanCrash, Down, disk, AInv, Alone
<1>4. CASE CrashThread
  <2>1. ~led.handoff BY <1>4 DEF CrashThread, CanCrash, Waiting, AInv, Alone
  <2>2. led' = Appended(led, RunFailed("none", "none", {})) BY <1>4 DEF CrashThread, RecordsCrash
  <2>3. Shut(led, led') BY <2>2, ShutEvents
  <2> QED BY <1>1, <2>1, <2>3 DEF Shut, AInv, Alone
<1> QED BY <1>1, <1>2, <1>3, <1>4, AloneStart, AloneThread DEF Next, AInv

\* Only a phase's start makes it running.
LEMMA RunningShrinks ==
  ASSUME NEW l \in Ledgers, NEW e, e.kind # "PHASE_STARTED"
  PROVE  Appended(l, e).running \subseteq l.running
BY DEF Appended, RunningAfter

LEMMA HandoffRests ==
  ASSUME AInv, AwaitsN3(led), Next
  PROVE  led'.running \subseteq led.running
<1>0. pc \in {"down", "n3", "ingest"} /\ led \in Ledgers /\ led.terminal.kind = "RUN_FAILED" /\ led.handoff
  BY DEF AInv, Alone, AwaitsN3, TypeOK, DiskType
<1>1. CASE Start
  <2>1. CASE StartFresh \/ StartOver \/ ResumeFailed \/ StartKept
    <3>1. CASE StartFresh
      <4>1. led.inputs = "none" BY <3>1 DEF StartFresh, Exists
      <4>2. \E h \in Inputs : led' = Appended(EmptyLedger, RunStarted(h))
        BY <3>1 DEF StartFresh, OpenFresh
      <4>3. \A h : Appended(EmptyLedger, RunStarted(h)).running = {}
        BY DEF Appended, RunningAfter, SetsVerdict, RunStarted, Note, PhaseKinds, EmptyLedger
      <4> QED BY <4>2, <4>3
    <3> QED
      BY <1>0, <2>1, <3>1 DEF StartOver, ResumeFailed, StartKept, MayReadFailed, ReadsStalled,
                              ReadsSucceeded, AwaitsN3
  <2>2. CASE StartAttached
    <3>1. Appended(EmptyLedger, RunStarted(branch.inputs)).running = {}
      BY DEF Appended, RunningAfter, SetsVerdict, RunStarted, Note, PhaseKinds, EmptyLedger
    <3>2. branch.inputs \in Inputs \cup {"none"} BY DEF AInv, TypeOK, DiskType, Branches
    <3>3. Appended(EmptyLedger, RunStarted(branch.inputs)) \in Ledgers
      BY <3>2, RunStartedEffect
    <3> QED BY <2>2, <3>1, <3>3 DEF StartAttached, Ledgers
  <2>3. CASE StartIngest BY <2>3 DEF StartIngest, disk
  <2> QED BY <1>1, <2>1, <2>2, <2>3 DEF Start
<1>2. CASE AnswerN3
  <2>1. CASE N3Green
    <3> DEFINE m == Appended(led, N3Passed("STORE_MANAGER"))
               e == [RunSucceeded("SUCCESS", "pilot") EXCEPT !.role = "STORE_MANAGER"]
    <3>1. N3Passed("STORE_MANAGER").kind = "GATE_PASSED" /\ e.kind = "RUN_SUCCEEDED"
      BY DEF N3Passed, GatePassed, RunSucceeded, Note
    <3>2. m \in Ledgers /\ m.running \subseteq led.running
      BY <1>0, <3>1, N3PassTypes, AppendedType, RunningShrinks
    <3>3. led' = Appended(m, e) BY <2>1 DEF N3Green
    <3> HIDE DEF m, e
    <3> QED BY <3>1, <3>2, <3>3, RunningShrinks
  <2>2. CASE N3NotProduct \/ N3Product
    <3>1. \E F : led' = Appended(led, N3Failed(F)) BY <2>2 DEF N3NotProduct, N3Product
    <3>2. \A F : N3Failed(F).kind = "RUN_FAILED" BY DEF N3Failed, RunFailed, Note
    <3> QED BY <1>0, <3>1, <3>2, RunningShrinks
  <2>3. CASE N3Unreachable BY <2>3 DEF N3Unreachable, disk
  <2>4. CASE ReopenAdvisory \/ ReopenStopped \/ ReopenRework
    BY <1>0, <2>4 DEF ReopenAdvisory, ReopenStopped, ReopenRework
  <2> QED BY <1>2, <2>1, <2>2, <2>3, <2>4 DEF AnswerN3
<1>3. CASE KillProcess BY <1>3 DEF KillProcess, disk
<1>4. CASE CrashThread BY <1>0, <1>4 DEF CrashThread, CanCrash, Waiting
<1>5. ~(RefuseInputs \/ FailPreflight \/ Enter \/ SpendWall \/ RunPhase)
  BY <1>0 DEF RefuseInputs, FailPreflight, Enter, SpendWall, RunPhase, StartPhase, LeaveLane,
              FailRole, FinishRole, FinishCommit, PassGate, FailGate, HaltStage, Checkpoint,
              FailCheckpoint, PassUnattached
<1>6. ~(Decide \/ Close)
  BY <1>0 DEF Decide, CollectFinding, HandOff, FailTerminal, PassAdvisory, RegenerateTest, Reprompt,
              StopUnowned, StopTwice, StopSpent, StopForeman, ReworkWriter, Deciding, Halting,
              Close, Report, OpenAutoPilot, Succeed, FinishFailed, FinishSuccess, AllDone
<1> QED BY <1>1, <1>2, <1>3, <1>4, <1>5, <1>6 DEF Next, Thread

\* While a run's Store-gate verdict is out, no phase of it starts, whoever asks and
\* whatever has crashed, in a build that collects failures as in one that does not.
THEOREM HandoffNotRerun == Spec => HandoffIsNotRerun
<1>1. Init => AInv BY InitType DEF Init, AInv, Alone, EmptyLedger
<1>2. AInv /\ [Next]_vars => AInv' BY NextAlone
<1>3. AInv /\ [Next]_vars => [AwaitsN3(led) => led'.running \subseteq led.running]_vars
  BY HandoffRests
<1> QED BY <1>1, <1>2, <1>3, PTL DEF Spec, HandoffIsNotRerun

-----------------------------------------------------------------------------
(* What any build's thread remembers of the ledger: collected failures and   *)
(* links to stale tips break the order of the passes, but never this.        *)

\* A success and a handoff stand on the passes they claim.
Claimed ==
  /\ led.terminal.kind = "RUN_SUCCEEDED" => Completed(led) = BuildRole
  /\ led.handoff => Earlier("STORE_MANAGER") \subseteq Completed(led)

\* What is done has passed, unless it was collected.
DoneStands == ~collected => done \subseteq Completed(led)

\* What has passed is done, except the pass of a WRITER sent back.
StandingIsDone ==
  \/ Completed(led) \subseteq done
  \/ /\ Completed(led) \subseteq done \cup {"WRITER"} /\ Earlier("WRITER") \subseteq done
     /\ "TESTER" \notin Completed(led)

\* The phase that runs is one that is missing, in a run without a success.
OnPhase ==
  /\ phase \in BuildRole \ done /\ Earlier(phase) \subseteq done
  /\ led.terminal.kind # "RUN_SUCCEEDED"

Remembered ==
  /\ collected => collecting
  /\ pc = "pick" => /\ DoneStands /\ StandingIsDone
                    /\ led.terminal.kind = "RUN_SUCCEEDED" => done = BuildRole
  /\ pc \in InPhase => OnPhase /\ DoneStands /\ Completed(led) \subseteq done
  /\ pc = "passed" => /\ OnPhase /\ DoneStands
                      /\ phase \in Completed(led) /\ Completed(led) \subseteq done \cup {phase}
  /\ pc = "failed" /\ verdict.class = "docker_unavailable" => phase = "STORE_MANAGER"
  /\ pc = "stopping" /\ ending.outcome = "SUCCESS" => Completed(led) = BuildRole
  /\ pc = "stopping" /\ ending.outcome = "HANDOFF_TO_N3" =>
       ~collecting /\ Earlier("STORE_MANAGER") \subseteq Completed(led)
  /\ pc \in {"n3", "ingest", "reopen"} => Earlier("STORE_MANAGER") \subseteq Completed(led)
  /\ pc \in {"n3", "reopen"} => ~collecting

RInv == AInv /\ Claimed /\ Remembered

LEMMA RIdle ==
  ASSUME RInv, pc \notin {"down", "n3", "ingest"}
  PROVE  led \in Ledgers /\ ~led.handoff
BY DEF RInv, AInv, Alone, TypeOK, DiskType

\* A cycle that only sends the WRITER back takes no pass away.
LEMMA ReworkKeeps ==
  ASSUME NEW l \in Ledgers, NEW g, NEW F, NEW m, m = Appended(l, Rework(g, F, {}))
  PROVE  Completed(m) = Completed(l) /\ Keeps(l, m)
<1> DEFINE R == {}
<1>1. R = {} OBVIOUS
<1>2. m = Appended(l, Rework(g, F, R)) OBVIOUS
<1> HIDE DEF R
<1>3. /\ Completed(m) = Completed(l) \ R /\ m.inputs = l.inputs /\ m.handoff = l.handoff
      /\ m.terminal = IF R = {} THEN l.terminal ELSE NoVerdict
  BY <1>2, ReworkEffect
<1> QED BY <1>1, <1>3 DEF Keeps

\* A thread that is gone, begins or stops for a failure remembers nothing.
LEMMA NothingRemembered ==
  ASSUME pc' \in {"down", "entered"} \/ (pc' = "stopping" /\ ending'.outcome \notin {"SUCCESS", "HANDOFF_TO_N3"}),
         collected' => collecting'
  PROVE  Remembered'
BY DEF Remembered, InPhase

LEMMA ClaimKept ==
  ASSUME Claimed, Completed(led') = Completed(led), led'.handoff => led.handoff,
         led'.terminal.kind = "RUN_SUCCEEDED" => led.terminal.kind = "RUN_SUCCEEDED"
  PROVE  Claimed'
BY DEF Claimed

LEMMA NoClaim ==
  ASSUME led'.terminal.kind # "RUN_SUCCEEDED", ~led'.handoff
  PROVE  Claimed'
BY DEF Claimed

LEMMA RStart ==
  ASSUME RInv, Start
  PROVE  Claimed' /\ Remembered'
<1>0. led \in Ledgers BY DEF RInv, AInv, TypeOK, DiskType
<1>1. CASE StartIngest
  <2>1. led' = led /\ pc' = "ingest" /\ UNCHANGED <<collected, collecting>> /\ led.handoff
    BY <1>1 DEF StartIngest, AwaitsN3, disk, request
  <2>2. Earlier("STORE_MANAGER") \subseteq Completed(led') BY <2>1 DEF RInv, Claimed
  <2> QED BY <2>1, <2>2, ClaimKept DEF RInv, Remembered, InPhase
<1>2. CASE ~StartIngest
  <2>1. pc' = "entered" /\ ~collected'
    BY <1>2 DEF Start, StartFresh, StartOver, StartAttached, ResumeFailed, StartKept, Launch
  <2>2. Claimed'
    <3>1. CASE StartFresh \/ StartOver
      <4>1. PICK h \in Inputs : led' = Appended(EmptyLedger, RunStarted(h))
        BY <3>1 DEF StartFresh, StartOver, OpenFresh
      <4> QED BY <4>1, RunStartedEffect, NoClaim DEF NoVerdict
    <3>2. CASE StartAttached
      <4> DEFINE m == Appended(EmptyLedger, RunStarted(branch.inputs))
      <4>1. branch.inputs \in Inputs \cup {"none"} BY DEF RInv, AInv, TypeOK, DiskType, Branches
      <4>2. m \in Ledgers /\ ~m.handoff /\ m.terminal = NoVerdict BY <4>1, RunStartedEffect
      <4>3. led' = [m EXCEPT !.verdicts =
                      [r \in BuildRole |-> IF r \in Proven THEN "GATE_PASSED" ELSE "none"]]
        BY <3>2 DEF StartAttached
      <4> HIDE DEF m
      <4>4. ~led'.handoff /\ led'.terminal = NoVerdict BY <4>2, <4>3 DEF Ledgers
      <4> QED BY <4>4, NoClaim DEF NoVerdict
    <3>3. CASE ResumeFailed
      <4>1. ~led.handoff /\ led.terminal.kind # "RUN_SUCCEEDED"
        BY <3>3 DEF ResumeFailed, MayReadFailed, RInv, AInv, Alone
      <4>2. PICK h \in Inputs, b \in BOOLEAN :
              led' = LET rebased == IF b /\ led.inputs # h
                                    THEN Appended(led, InputsRebased(h)) ELSE led
                     IN  Appended(Appended(rebased, Note), BudgetReset)
        BY <3>3 DEF ResumeFailed
      <4> DEFINE rebased == IF b /\ led.inputs # h THEN Appended(led, InputsRebased(h)) ELSE led
      <4>3. rebased \in Ledgers /\ ~rebased.handoff /\ rebased.terminal.kind # "RUN_SUCCEEDED"
        BY <1>0, <4>1, RebaseEffect, InputsTypes, AppendedType DEF NoVerdict
      <4>4. led' = Appended(Appended(rebased, Note), BudgetReset) BY <4>2
      <4> HIDE DEF rebased
      <4>5. Appended(rebased, Note) \in Ledgers BY <4>3, NoteTypes, AppendedType
      <4>6. Keeps(rebased, Appended(rebased, Note)) /\ Keeps(Appended(rebased, Note), led')
        BY <4>3, <4>4, <4>5, NoteEffect
      <4> QED BY <4>3, <4>6, NoClaim DEF Keeps
    <3>4. CASE StartKept BY <3>4, ClaimKept DEF StartKept, disk, RInv
    <3> QED BY <1>2, <3>1, <3>2, <3>3, <3>4 DEF Start
  <2> QED BY <2>1, <2>2, NothingRemembered
<1> QED BY <1>1, <1>2

LEMMA RFailed ==
  ASSUME RInv, led' = Appended(led, RunFailed("none", "none", {})), Down
  PROVE  Claimed' /\ Remembered'
<1>1. led \in Ledgers BY DEF RInv, AInv, TypeOK, DiskType
<1>2. Claimed' BY <1>1, FailedEffect, ClaimKept DEF RInv
<1> QED BY <1>2, NothingRemembered DEF Down

LEMMA RPrelude ==
  ASSUME RInv, RefuseInputs \/ FailPreflight \/ Enter
  PROVE  Claimed' /\ Remembered'
<1>0. led \in Ledgers /\ ~led.handoff BY RIdle DEF RefuseInputs, FailPreflight, Enter
<1>1. CASE RefuseInputs BY <1>1, RFailed DEF RefuseInputs, RecordsCrash
<1>2. CASE FailPreflight
  <2>1. led' = LevelNoted(led) /\ pc' = "stopping" /\ ending'.outcome = "FAILED_GATE"
        /\ UNCHANGED <<collected, collecting>>
    BY <1>2 DEF FailPreflight, Stop, request
  <2>2. Claimed' BY <1>0, <2>1, LevelNotedEffect, ClaimKept DEF Keeps, RInv
  <2> QED BY <2>1, <2>2, NothingRemembered DEF RInv, Remembered
<1>3. CASE Enter
  <2>1. PICK opens \in BOOLEAN, reopenWriter \in BOOLEAN :
          led' = IF opens THEN OpenPilot(LevelNoted(led), reopenWriter) ELSE LevelNoted(led)
    BY <1>3 DEF Enter
  <2>2. pc' = "pick" /\ done' = Completed(led') /\ UNCHANGED <<collected, collecting>>
    BY <1>3 DEF Enter, DoneAtEntry, request
  <2>3. LevelNoted(led) \in Ledgers /\ Completed(LevelNoted(led)) = Completed(led)
        /\ Keeps(led, LevelNoted(led))
    BY <1>0, LevelNotedEffect, LevelNotedType
  <2>4. Claimed'
    <3>1. CASE opens BY <1>0, <2>1, <2>3, <3>1, OpenPilotEffect, NoClaim DEF Keeps, NoVerdict
    <3>2. CASE ~opens BY <2>1, <2>3, <3>2, ClaimKept DEF Keeps, RInv
    <3> QED BY <3>1, <3>2
  <2>5. led'.terminal.kind = "RUN_SUCCEEDED" => done' = BuildRole BY <2>2, <2>4 DEF Claimed
  <2> QED BY <2>2, <2>4, <2>5 DEF RInv, Remembered, InPhase, DoneStands, StandingIsDone
<1> QED BY <1>1, <1>2, <1>3

\* What the next phase is, by what has passed.
LEMMA FirstMissing ==
  ASSUME RInv, pc = "pick", done # BuildRole
  PROVE  LET r == NextPhase(done) IN
         /\ r \in BuildRole \ done /\ Earlier(r) \subseteq done
         /\ Completed(led) \ {r} \subseteq done
         /\ r \in Completed(led) => r = "WRITER" /\ "TESTER" \notin Completed(led)
         /\ led.terminal.kind # "RUN_SUCCEEDED"
<1> DEFINE r == NextPhase(done)
<1>1. r \in BuildRole \ done /\ Earlier(r) \subseteq done
  BY NextPhaseType DEF RInv, AInv, TypeOK, MemoryType
<1> HIDE DEF r
<1>2. StandingIsDone /\ led.terminal.kind # "RUN_SUCCEEDED" BY DEF RInv, Remembered
<1>3. CASE Completed(led) \subseteq done BY <1>1, <1>2, <1>3 DEF r
<1>4. CASE ~(Completed(led) \subseteq done)
  <2>1. /\ Completed(led) \subseteq done \cup {"WRITER"} /\ Earlier("WRITER") \subseteq done
        /\ "TESTER" \notin Completed(led) /\ "WRITER" \notin done
    BY <1>2, <1>4 DEF StandingIsDone
  <2>2. r = "WRITER"
    BY <1>1, <2>1, EarlierIsLinear DEF BuildRole
  <2> QED BY <1>1, <1>2, <2>1, <2>2 DEF r
<1> QED BY <1>3, <1>4

\* A failed or stopped attempt takes no pass of another phase away.
LEMMA AttemptRemembered ==
  ASSUME RInv, pc \in InPhase, NEW e \in {GateFailed(phase), PhaseAborted(phase)},
         led' = Appended(led, e)
  PROVE  Claimed' /\ Completed(led') = Completed(led) /\ Keeps(led, led')
<1>1. led \in Ledgers /\ phase \in BuildRole /\ phase \notin Completed(led)
  BY RIdle DEF RInv, Remembered, OnPhase, InPhase
<1>2. Completed(led') = Completed(led) \ {phase} /\ Keeps(led, led') BY <1>1, AttemptEffect
<1>3. Completed(led') = Completed(led) BY <1>1, <1>2
<1> QED BY <1>2, <1>3, ClaimKept DEF Keeps, RInv

\* A gate that passes, of its own or because its failures are only advice.
LEMMA PassRemembered ==
  ASSUME RInv, pc \in {"gate", "failed"}, NEW l \in Ledgers, Completed(l) = Completed(led), Keeps(led, l),
         led' = Appended(l, GatePassed(phase))
  PROVE  Claimed' /\ Completed(led') = Completed(led) \cup {phase} /\ led'.terminal = led.terminal
<1>1. phase \in BuildRole /\ led.terminal.kind # "RUN_SUCCEEDED" /\ ~led.handoff
  BY RIdle DEF RInv, Remembered, OnPhase, InPhase
<1>2. /\ Completed(led') = Completed(l) \cup {phase} /\ led'.terminal = l.terminal
      /\ led'.handoff => l.handoff
  BY <1>1, PassEffect
<1> QED BY <1>1, <1>2, NoClaim DEF Keeps

LEMMA RPhase ==
  ASSUME RInv, TypeOK', SpendWall \/ RunPhase
  PROVE  Claimed' /\ Remembered'
<1>0. led \in Ledgers /\ ~led.handoff /\ collecting' = collecting
  BY RIdle DEF SpendWall, RunPhase, StartPhase, LeaveLane, FailRole, FinishRole, FinishCommit, PassGate,
               FailGate, HaltStage, Checkpoint, FailCheckpoint, PassUnattached, request
<1>1. CASE SpendWall \/ HaltStage \/ FailCheckpoint
  <2>1. led' = led /\ pc' = "stopping" /\ ending'.outcome \notin {"SUCCESS", "HANDOFF_TO_N3"}
        /\ collected' = collected
    BY <1>1 DEF SpendWall, HaltStage, FailCheckpoint, Stop, disk
  <2> QED BY <1>0, <2>1, ClaimKept, NothingRemembered DEF RInv, Remembered
<1>2. CASE StartPhase
  <2> DEFINE r == NextPhase(done)
  <2>1. pc = "pick" /\ done # BuildRole /\ pc' = "role" /\ phase' = r /\ done' = done
        /\ led' = Appended(led, PhaseStarted(r)) /\ collected' = collected
    BY <1>2 DEF StartPhase
  <2>2. /\ r \in BuildRole \ done /\ Earlier(r) \subseteq done /\ Completed(led) \ {r} \subseteq done
        /\ led.terminal.kind # "RUN_SUCCEEDED"
    BY <2>1, FirstMissing
  <2> HIDE DEF r
  <2>3. Completed(led') = Completed(led) \ {r} /\ Keeps(led, led') BY <1>0, <2>1, <2>2, AttemptEffect
  <2>4. Claimed' BY <1>0, <2>2, <2>3, NoClaim DEF Keeps
  <2>5. DoneStands' BY <2>1, <2>2, <2>3 DEF RInv, Remembered, DoneStands
  <2>6. OnPhase' BY <2>1, <2>2, <2>3 DEF OnPhase, Keeps
  <2> QED BY <1>0, <2>1, <2>2, <2>3, <2>4, <2>5, <2>6 DEF RInv, Remembered, InPhase
<1>3. CASE LeaveLane \/ (FailRole /\ ~collecting)
  <2>1. led' = Appended(led, PhaseAborted(phase)) /\ pc = "role" /\ collected' = collected
        /\ pc' = "stopping" /\ ending'.outcome \notin {"SUCCESS", "HANDOFF_TO_N3"}
    BY <1>3 DEF LeaveLane, FailRole, Stop
  <2>2. Claimed' BY <2>1, AttemptRemembered DEF InPhase
  <2> QED BY <1>0, <2>1, <2>2, NothingRemembered DEF RInv, Remembered
<1>4. CASE FailRole /\ collecting
  <2>1. led' = Appended(led, Note) /\ pc = "role" /\ collected' = TRUE /\ pc' = "pick"
        /\ done' = done \cup {phase}
    BY <1>4 DEF FailRole, Advance
  <2>2. Completed(led') = Completed(led) /\ Keeps(led, led') BY <1>0, <2>1, NoteEffect
  <2>3. Claimed' BY <2>2, ClaimKept DEF Keeps, RInv
  <2>4. OnPhase /\ Completed(led) \subseteq done BY <2>1 DEF RInv, Remembered, InPhase
  <2> QED BY <1>0, <1>4, <2>1, <2>2, <2>3, <2>4
          DEF Remembered, InPhase, DoneStands, StandingIsDone, OnPhase, Keeps
<1>5. CASE FinishRole \/ FinishCommit
  <2>1. pc \in InPhase /\ pc' \in {"commit", "gate"} /\ UNCHANGED <<led, phase, done, collected>>
    BY <1>5 DEF FinishRole, FinishCommit, InPhase
  <2>2. OnPhase' /\ DoneStands' /\ Completed(led') \subseteq done'
    BY <2>1 DEF RInv, Remembered, OnPhase, DoneStands
  <2> QED BY <1>0, <2>1, <2>2, ClaimKept DEF RInv, Remembered, InPhase
<1>6. CASE PassGate
  <2>1. pc = "gate" /\ pc' = "passed" /\ led' = Appended(led, GatePassed(phase))
        /\ UNCHANGED <<phase, done, collected>>
    BY <1>6 DEF PassGate
  <2>2. Claimed' /\ Completed(led') = Completed(led) \cup {phase} /\ led'.terminal = led.terminal
    BY <1>0, <2>1, PassRemembered DEF Keeps
  <2>3. OnPhase /\ DoneStands /\ Completed(led) \subseteq done BY <2>1 DEF RInv, Remembered, InPhase
  <2>4. OnPhase' /\ DoneStands' BY <2>1, <2>2, <2>3 DEF OnPhase, DoneStands
  <2> QED BY <1>0, <2>1, <2>2, <2>3, <2>4 DEF RInv, Remembered, InPhase
<1>7. CASE FailGate
  <2>1. /\ pc = "gate" /\ pc' = "failed" /\ led' = Appended(led, GateFailed(phase))
        /\ UNCHANGED <<phase, done, collected>> /\ verdict' \in FailedVerdicts(phase)
    BY <1>7 DEF FailGate
  <2>2. Claimed' /\ Completed(led') = Completed(led) /\ Keeps(led, led')
    BY <2>1, AttemptRemembered DEF InPhase
  <2>3. OnPhase /\ DoneStands /\ Completed(led) \subseteq done BY <2>1 DEF RInv, Remembered, InPhase
  <2>4. OnPhase' /\ DoneStands' BY <2>1, <2>2, <2>3 DEF OnPhase, DoneStands, Keeps
  <2>5. verdict'.class = "docker_unavailable" => phase = "STORE_MANAGER"
    BY <2>1, <2>3 DEF FailedVerdicts, VerdictClasses, OnPhase, BuildRole
  <2> QED BY <1>0, <2>1, <2>2, <2>3, <2>4, <2>5 DEF RInv, Remembered, InPhase
<1>8. CASE Checkpoint \/ PassUnattached
  <2>1. pc = "passed" /\ pc' = "pick" /\ done' = done \cup {phase} /\ led' \in {led, Appended(led, Note)}
        /\ collected' = collected
    BY <1>8 DEF Checkpoint, PassUnattached, Advance, disk
  <2>2. Completed(led') = Completed(led) /\ Keeps(led, led') BY <1>0, <2>1, NoteEffect DEF Keeps
  <2>3. Claimed' BY <2>2, ClaimKept DEF Keeps, RInv
  <2>4. /\ OnPhase /\ DoneStands /\ phase \in Completed(led)
        /\ Completed(led) \subseteq done \cup {phase}
    BY <2>1 DEF RInv, Remembered
  <2>5. DoneStands' /\ StandingIsDone' BY <2>1, <2>2, <2>4 DEF DoneStands, StandingIsDone
  <2> QED BY <1>0, <2>1, <2>2, <2>3, <2>4, <2>5 DEF RInv, Remembered, InPhase, OnPhase, Keeps
<1> QED BY <1>1, <1>2, <1>3, <1>4, <1>5, <1>6, <1>7, <1>8 DEF RunPhase

LEMMA RDecide ==
  ASSUME RInv, TypeOK', Decide
  PROVE  Claimed' /\ Remembered'
<1>0. /\ pc = "failed" /\ led \in Ledgers /\ ~led.handoff /\ collecting' = collecting
      /\ OnPhase /\ DoneStands /\ Completed(led) \subseteq done
  <2>1. pc = "failed" /\ collecting' = collecting
    BY DEF Decide, CollectFinding, HandOff, FailTerminal, PassAdvisory, RegenerateTest, Reprompt, StopUnowned,
           StopTwice, StopSpent, StopForeman, ReworkWriter, Deciding, Halting, request
  <2> QED BY <2>1, RIdle DEF RInv, Remembered, InPhase
<1>1. CASE CollectFinding
  <2>1. led' = Appended(led, Note) /\ collecting /\ collected' = TRUE /\ pc' = "pick"
        /\ done' = done \cup {phase}
    BY <1>1 DEF CollectFinding, Advance
  <2>2. Completed(led') = Completed(led) /\ Keeps(led, led') BY <1>0, <2>1, NoteEffect
  <2>3. Claimed' BY <2>2, ClaimKept DEF Keeps, RInv
  <2> QED BY <1>0, <2>1, <2>2, <2>3 DEF Remembered, InPhase, DoneStands, StandingIsDone, OnPhase, Keeps
<1>2. CASE HandOff
  <2>1. /\ led' = Appended(led, Note) /\ pc' = "stopping" /\ ~collecting /\ collected' = collected
        /\ ending'.outcome \in {"HANDOFF_TO_N3", "FAILED_GATE"}
        /\ phase = "STORE_MANAGER"
    BY <1>2 DEF HandOff, Halting, Stop, RInv, Remembered
  <2>2. Completed(led') = Completed(led) /\ Keeps(led, led') BY <1>0, <2>1, NoteEffect
  <2>3. Claimed' BY <2>2, ClaimKept DEF Keeps, RInv
  <2>4. Earlier("STORE_MANAGER") \subseteq Completed(led')
    BY <1>0, <2>1, <2>2 DEF OnPhase, DoneStands, RInv, Remembered
  <2> QED BY <1>0, <2>1, <2>3, <2>4 DEF Remembered, InPhase, RInv
<1>3. CASE FailTerminal \/ StopUnowned \/ StopTwice \/ StopSpent \/ StopForeman
  <2>1. /\ pc' = "stopping" /\ ending'.outcome \notin {"SUCCESS", "HANDOFF_TO_N3"}
        /\ led' \in {led, Appended(led, Note)} /\ collected' = collected
    BY <1>3 DEF FailTerminal, StopUnowned, StopTwice, StopSpent, StopForeman, Stop, disk
  <2>2. Completed(led') = Completed(led) /\ Keeps(led, led') BY <1>0, <2>1, NoteEffect DEF Keeps
  <2>3. Claimed' BY <2>2, ClaimKept DEF Keeps, RInv
  <2> QED BY <1>0, <2>1, <2>3, NothingRemembered DEF RInv, Remembered
<1>4. CASE PassAdvisory
  <2>1. /\ led' = Appended(Appended(led, Note), GatePassed(phase)) /\ pc' = "pick"
        /\ done' = done \cup {phase} /\ collected' = collected
    BY <1>4 DEF PassAdvisory, Advance
  <2>2. Appended(led, Note) \in Ledgers /\ Completed(Appended(led, Note)) = Completed(led)
        /\ Keeps(led, Appended(led, Note))
    BY <1>0, NotesEffect
  <2>3. Claimed' /\ Completed(led') = Completed(led) \cup {phase} /\ led'.terminal = led.terminal
    BY <1>0, <2>1, <2>2, PassRemembered
  <2>4. DoneStands' /\ StandingIsDone' BY <1>0, <2>1, <2>3 DEF DoneStands, StandingIsDone
  <2> QED BY <1>0, <2>1, <2>3, <2>4 DEF RInv, Remembered, InPhase, OnPhase
<1>5. CASE RegenerateTest \/ Reprompt \/ ReworkWriter
  <2>1. /\ pc' = "pick" /\ done' = done \ {"WRITER"} /\ phase \in {"WRITER", "TESTER"}
        /\ collected' = collected
    BY <1>5 DEF RegenerateTest, Reprompt, ReworkWriter, Deciding, SendBack
  <2>2. Completed(led') = Completed(led) /\ Keeps(led, led')
    <3>1. CASE RegenerateTest \/ Reprompt
      BY <1>0, <3>1, NotesEffect DEF RegenerateTest, Reprompt
    <3>2. CASE ReworkWriter
      <4> DEFINE m == Appended(led, Note)
      <4>1. led' = Appended(m, Rework(phase, verdict.names, {})) BY <3>2 DEF ReworkWriter
      <4>2. m \in Ledgers /\ Completed(m) = Completed(led) /\ Keeps(led, m) BY <1>0, NotesEffect
      <4> HIDE DEF m
      <4> QED BY <4>1, <4>2, ReworkKeeps DEF Keeps
    <3> QED BY <1>5, <3>1, <3>2
  <2>3. Claimed' BY <2>2, ClaimKept DEF Keeps, RInv
  <2>4. DoneStands' BY <1>0, <2>1, <2>2 DEF DoneStands
  <2>5. StandingIsDone'
    <3>1. CASE phase = "WRITER" BY <1>0, <2>1, <2>2, <3>1 DEF StandingIsDone, OnPhase
    <3>2. CASE phase = "TESTER" BY <1>0, <2>1, <2>2, <3>2, EarlierOf DEF StandingIsDone, OnPhase
    <3> QED BY <2>1, <3>1, <3>2
  <2> QED BY <1>0, <2>1, <2>2, <2>3, <2>4, <2>5 DEF RInv, Remembered, InPhase, OnPhase, Keeps
<1> QED BY <1>1, <1>2, <1>3, <1>4, <1>5 DEF Decide

LEMMA RClose ==
  ASSUME RInv, TypeOK', Close
  PROVE  Claimed' /\ Remembered'
<1>0. led \in Ledgers /\ ~led.handoff
  BY RIdle DEF Close, Report, OpenAutoPilot, Succeed, FinishFailed, FinishSuccess, AllDone
<1>1. AllDone /\ ~collected => Completed(led) = BuildRole
  <2>1. Completed(led) \subseteq BuildRole BY DEF Completed
  <2> QED BY <2>1 DEF AllDone, RInv, Remembered, DoneStands
<1>2. CASE Report \/ Succeed
  <2>1. /\ led' = led /\ pc' = "stopping" /\ UNCHANGED <<collected, collecting>>
        /\ ending'.outcome = IF Report THEN "COLLECT_ALL_REPORT" ELSE "SUCCESS"
    BY <1>2 DEF Report, Succeed, Stop, disk, request
  <2>2. Succeed => Completed(led') = BuildRole BY <1>1, <2>1 DEF Succeed
  <2>3. Claimed' BY <2>1, ClaimKept DEF RInv
  <2> QED BY <1>2, <2>1, <2>2, <2>3 DEF RInv, Remembered, InPhase
<1>3. CASE OpenAutoPilot
  <2>1. PICK reopenWriter \in BOOLEAN, cliReopen \in BOOLEAN :
          /\ led' = IF cliReopen THEN Appended(OpenPilot(led, reopenWriter), Note)
                    ELSE OpenPilot(led, reopenWriter)
          /\ done' = IF cliReopen THEN Completed(led') \ {"WRITER"} ELSE Completed(led')
    BY <1>3 DEF OpenAutoPilot
  <2> DEFINE m == OpenPilot(led, reopenWriter)
  <2>2. /\ Completed(m) = BuildRole \ ({"TESTER", "STORE_MANAGER"} \cup IF reopenWriter THEN {"WRITER"} ELSE {})
        /\ m.terminal = NoVerdict /\ ~m.handoff /\ m \in Ledgers
    BY <1>0, <1>1, <1>3, OpenPilotEffect, OpenPilotType DEF OpenAutoPilot
  <2> HIDE DEF m
  <2>3. Completed(led') = Completed(m) /\ led'.terminal = NoVerdict /\ ~led'.handoff
    BY <2>1, <2>2, NoteEffect DEF m, Keeps
  <2>4. pc' = "pick" /\ UNCHANGED <<collected, collecting>>
    BY <1>3 DEF OpenAutoPilot, AllDone, request
  <2>5. Claimed' BY <2>3, NoClaim DEF NoVerdict
  <2>6. DoneStands' /\ StandingIsDone'
    BY <2>1, <2>2, <2>3, EarlierOf DEF DoneStands, StandingIsDone, BuildRole
  <2> QED BY <2>3, <2>4, <2>5, <2>6 DEF RInv, Remembered, InPhase, NoVerdict
<1>4. CASE FinishFailed
  <2>1. /\ pc = "stopping" /\ Completed(led') = Completed(led) /\ led'.terminal.kind = "RUN_FAILED"
        /\ led'.handoff => ending.outcome = "HANDOFF_TO_N3"
    BY <1>0, <1>4, FailedEffect DEF FinishFailed
  <2>2. CASE ending.outcome = "HANDOFF_TO_N3"
    <3>1. pc' = "n3" /\ UNCHANGED <<collected, collecting>> BY <1>4, <2>2 DEF FinishFailed, Held, request
    <3>2. ~collecting /\ Earlier("STORE_MANAGER") \subseteq Completed(led')
      BY <2>1, <2>2 DEF RInv, Remembered
    <3>3. Claimed' BY <2>1, <3>2 DEF Claimed
    <3> QED BY <3>1, <3>2, <3>3 DEF RInv, Remembered, InPhase
  <2>3. CASE ending.outcome # "HANDOFF_TO_N3"
    <3>1. Down BY <1>4, <2>3 DEF FinishFailed
    <3>2. Claimed' BY <2>1, <2>3, NoClaim
    <3> QED BY <3>1, <3>2, NothingRemembered DEF Down
  <2> QED BY <2>2, <2>3
<1>5. CASE FinishSuccess
  <2>1. PICK thin \in BOOLEAN, delivered \in BOOLEAN :
          led' = Appended(led,
                   IF thin \/ (Climbs /\ cycle # "pilot")
                   THEN RunFailed(IF Climbs /\ cycle # "pilot" THEN "TESTER" ELSE "WRITER",
                                  "FAILED_ROLE_ERROR", {})
                   ELSE RunSucceeded(IF delivered THEN "SUCCESS" ELSE "FAILED_ROLE_ERROR",
                                     cycle))
    BY <1>5 DEF FinishSuccess
  <2>2. Completed(led') = Completed(led) /\ ~led'.handoff
    <3>1. CASE thin \/ (Climbs /\ cycle # "pilot") BY <1>0, <2>1, <3>1, FailedEffect
    <3>2. CASE ~(thin \/ (Climbs /\ cycle # "pilot"))
      <4> DEFINE o == IF delivered THEN "SUCCESS" ELSE "FAILED_ROLE_ERROR"
      <4>1. led' = Appended(led, RunSucceeded(o, cycle)) BY <2>1, <3>2
      <4>2. o # "HANDOFF_TO_N3" OBVIOUS
      <4> HIDE DEF o
      <4> QED BY <1>0, <4>1, <4>2, SucceededEffect
    <3> QED BY <3>1, <3>2
  <2>3. Completed(led) = BuildRole BY <1>5 DEF FinishSuccess, RInv, Remembered
  <2>4. Claimed' BY <2>2, <2>3 DEF Claimed
  <2> QED BY <1>5, <2>4, NothingRemembered DEF FinishSuccess, Down
<1> QED BY <1>2, <1>3, <1>4, <1>5 DEF Close

LEMMA RAnswer ==
  ASSUME RInv, TypeOK', AnswerN3
  PROVE  Claimed' /\ Remembered'
<1>0. /\ led \in Ledgers /\ Earlier("STORE_MANAGER") \subseteq Completed(led) /\ Completed(led) \subseteq BuildRole
      /\ pc \in {"n3", "ingest", "reopen"}
  <2>1. pc \in {"n3", "ingest", "reopen"}
    BY DEF AnswerN3, N3Green, N3NotProduct, N3Product, N3Unreachable, ReopenAdvisory, ReopenStopped,
           ReopenRework, Waiting
  <2> QED BY <2>1 DEF RInv, AInv, TypeOK, DiskType, Remembered, Completed
<1>1. Claimed'
  <2>1. CASE N3Green
    <3> DEFINE m == Appended(led, N3Passed("STORE_MANAGER"))
    <3>1. m \in Ledgers /\ Completed(m) = Completed(led) \cup {"STORE_MANAGER"}
      BY <1>0, PhaseEventTypes, AppendedType, PassEffect DEF BuildRole
    <3>2. led' = Appended(m, [RunSucceeded("SUCCESS", "pilot") EXCEPT !.role = "STORE_MANAGER"])
      BY <2>1 DEF N3Green
    <3> HIDE DEF m
    <3>3. Completed(led') = Completed(m) /\ ~led'.handoff BY <3>1, <3>2, N3SucceededEffect
    <3>4. Completed(led') = BuildRole BY <1>0, <3>1, <3>3, EarlierOf DEF BuildRole
    <3> QED BY <3>3, <3>4 DEF Claimed
  <2>2. CASE N3NotProduct \/ N3Product
    <3>1. \E F : led' = Appended(led, N3Failed(F)) BY <2>2 DEF N3NotProduct, N3Product
    <3> QED BY <1>0, <3>1, N3FailedEffect, NoClaim
  <2>3. CASE N3Unreachable BY <2>3, ClaimKept DEF N3Unreachable, disk, RInv
  <2>4. CASE ReopenAdvisory
    <3> DEFINE m == Appended(led, Note)
    <3>1. m \in Ledgers /\ Completed(m) = Completed(led) BY <1>0, NotesEffect
    <3>2. led' = Appended(m, GatePassed("STORE_MANAGER")) BY <2>4 DEF ReopenAdvisory
    <3> HIDE DEF m
    <3>3. Completed(led') = Completed(m) \cup {"STORE_MANAGER"} BY <3>1, <3>2, PassEffect DEF BuildRole
    <3>4. Completed(led') = BuildRole BY <1>0, <3>1, <3>3, EarlierOf DEF BuildRole
    <3> QED BY <3>4, EarlierType DEF Claimed, BuildRole
  <2>5. CASE ReopenStopped
    <3>1. \E o \in {"FAILED_GATE", "FAILED_BUDGET_SPENT"} :
            led' = Appended(led, RunFailed("STORE_MANAGER", o, verdict.names))
      BY <2>5 DEF ReopenStopped
    <3>2. led'.terminal.kind = "RUN_FAILED" /\ Completed(led') = Completed(led)
      BY <1>0, <3>1, FailedEffect
    <3> QED BY <1>0, <3>2 DEF Claimed
  <2>6. CASE ReopenRework
    <3> DEFINE m == Appended(led, Note)
               R == {"WRITER", "TESTER", "STORE_MANAGER"}
    <3>1. m \in Ledgers /\ Keeps(led, m) BY <1>0, NotesEffect
    <3>2. led' = Appended(m, Rework("STORE_MANAGER", verdict.names, R)) BY <2>6 DEF ReopenRework
    <3>3. ~led.handoff BY <2>6, RIdle DEF ReopenRework
    <3> HIDE DEF m
    <3>4. led'.terminal = (IF R = {} THEN m.terminal ELSE NoVerdict) /\ led'.handoff = m.handoff
      BY <3>1, <3>2, ReworkEffect
    <3> QED BY <3>1, <3>3, <3>4, NoClaim DEF Keeps, NoVerdict
  <2> QED BY <2>1, <2>2, <2>3, <2>4, <2>5, <2>6 DEF AnswerN3
<1>2. Remembered'
  <2>1. CASE Down \/ ReopenRework
    BY <2>1, NothingRemembered DEF Down, ReopenRework, Launch
  <2>2. CASE N3Product /\ ~Down
    <3>1. /\ pc = "n3" /\ pc' = "reopen" /\ UNCHANGED <<collected, collecting>>
          /\ \E F : led' = Appended(led, N3Failed(F))
      BY <2>2 DEF N3Product, Waiting, request
    <3>2. Completed(led') = Completed(led) BY <1>0, <3>1, N3FailedEffect
    <3> QED BY <1>0, <3>1, <3>2 DEF RInv, Remembered, InPhase
  <2> QED BY <2>1, <2>2 DEF AnswerN3, N3Green, N3NotProduct, N3Unreachable, ReopenAdvisory, ReopenStopped
<1> QED BY <1>1, <1>2

LEMMA InitRemembered == Init => RInv
<1> SUFFICES ASSUME Init PROVE RInv OBVIOUS
<1>1. AInv BY InitType DEF Init, AInv, Alone, EmptyLedger
<1>2. Claimed BY DEF Init, Claimed, EmptyLedger, NoVerdict
<1>3. Remembered BY DEF Init, Remembered, InPhase
<1> QED BY <1>1, <1>2, <1>3 DEF RInv

LEMMA NextRemembered ==
  ASSUME RInv, [Next]_vars
  PROVE  RInv'
<1>1. AInv' BY NextAlone DEF RInv
<1>2. CASE UNCHANGED vars
  BY <1>1, <1>2 DEF vars, disk, memory, RInv, Claimed, Remembered, DoneStands, StandingIsDone, OnPhase,
                    Completed, request
<1>3. CASE KillProcess
  BY <1>1, <1>3, ClaimKept, NothingRemembered DEF KillProcess, Down, disk, RInv
<1>4. CASE CrashThread BY <1>1, <1>4, RFailed DEF CrashThread, RecordsCrash, RInv
<1>5. CASE Start \/ Thread
  BY <1>1, <1>5, RStart, RPrelude, RPhase, RDecide, RClose, RAnswer DEF Thread, RInv, AInv
<1> QED BY <1>2, <1>3, <1>4, <1>5 DEF Next

-----------------------------------------------------------------------------
(* A resume continues: only StartPhase makes a phase's latest attempt a      *)
(* started one.                                                              *)

Quiet(l, m) ==
  \A r \in BuildRole : m.verdicts[r] = "PHASE_STARTED" => l.verdicts[r] = "PHASE_STARTED"

LEMMA QuietChain ==
  ASSUME NEW l, NEW m, NEW n, Quiet(l, m), Quiet(m, n)
  PROVE  Quiet(l, n)
BY DEF Quiet

LEMMA QuietAfter ==
  ASSUME NEW l, NEW e, e.kind # "PHASE_STARTED"
  PROVE  Quiet(l, Appended(l, e))
BY DEF Quiet, Appended, VerdictsAfter, SetsVerdict

\* The events that are not a phase's start.
LEMMA QuietEvents ==
  ASSUME NEW l
  PROVE  /\ Quiet(l, l) /\ Quiet(l, Appended(l, Note)) /\ Quiet(l, Appended(l, BudgetReset))
         /\ \A h : Quiet(l, Appended(l, InputsRebased(h)))
         /\ \A r : /\ Quiet(l, Appended(l, GatePassed(r))) /\ Quiet(l, Appended(l, N3Passed(r)))
                   /\ Quiet(l, Appended(l, GateFailed(r))) /\ Quiet(l, Appended(l, PhaseAborted(r)))
         /\ \A b : Quiet(l, Appended(l, PilotOpened(b)))
         /\ \A g, F, R : Quiet(l, Appended(l, Rework(g, F, R)))
         /\ \A r, o, F : Quiet(l, Appended(l, RunFailed(r, o, F)))
         /\ \A F : Quiet(l, Appended(l, N3Failed(F)))
         /\ \A o, c : /\ Quiet(l, Appended(l, RunSucceeded(o, c)))
                      /\ Quiet(l, Appended(l, [RunSucceeded(o, c) EXCEPT !.role = "STORE_MANAGER"]))
<1>1. Quiet(l, l) BY DEF Quiet
<1>2. Note.kind # "PHASE_STARTED" /\ BudgetReset.kind # "PHASE_STARTED"
  BY DEF Note, BudgetReset
<1>3. \A h : InputsRebased(h).kind # "PHASE_STARTED" BY DEF Note, InputsRebased
<1>4. \A r : /\ GatePassed(r).kind # "PHASE_STARTED" /\ N3Passed(r).kind # "PHASE_STARTED"
             /\ GateFailed(r).kind # "PHASE_STARTED" /\ PhaseAborted(r).kind # "PHASE_STARTED"
  BY DEF Note, GatePassed, N3Passed, GateFailed, PhaseAborted
<1>5. \A b : PilotOpened(b).kind # "PHASE_STARTED" BY DEF Note, PilotOpened
<1>6. \A g, F, R : Rework(g, F, R).kind # "PHASE_STARTED" BY DEF Note, Rework
<1>7. \A r, o, F : RunFailed(r, o, F).kind # "PHASE_STARTED" BY DEF Note, RunFailed
<1>8. \A F : N3Failed(F).kind # "PHASE_STARTED" BY DEF Note, RunFailed, N3Failed
<1>9. \A o, c : /\ RunSucceeded(o, c).kind # "PHASE_STARTED"
                /\ [RunSucceeded(o, c) EXCEPT !.role = "STORE_MANAGER"].kind # "PHASE_STARTED"
  BY DEF Note, RunSucceeded
<1> QED BY <1>1, <1>2, <1>3, <1>4, <1>5, <1>6, <1>7, <1>8, <1>9, QuietAfter

LEMMA QuietOpening ==
  ASSUME NEW l, NEW b
  PROVE  Quiet(l, LevelNoted(l)) /\ Quiet(l, OpenPilot(l, b)) /\ Quiet(l, OpenPilot(LevelNoted(l), b))
<1>1. \A m : Quiet(m, OpenPilot(m, b)) BY QuietEvents, QuietChain DEF OpenPilot
<1>2. Quiet(l, LevelNoted(l)) BY QuietEvents DEF LevelNoted
<1> QED BY <1>1, <1>2, QuietChain

\* A workspace that is opened has no phase started in it.
LEMMA QuietStart ==
  ASSUME TypeOK, Start
  PROVE  Quiet(led, led')
<1>1. CASE StartFresh \/ StartOver
  <2>1. \E h \in Inputs : led' = Appended(EmptyLedger, RunStarted(h))
    BY <1>1 DEF StartFresh, StartOver, OpenFresh
  <2>2. \A h : RunStarted(h).kind = "RUN_STARTED" BY DEF RunStarted, Note
  <2>3. \A r \in BuildRole : EmptyLedger.verdicts[r] = "none" BY DEF EmptyLedger
  <2>4. Quiet(EmptyLedger, led') BY <2>1, <2>2, QuietAfter
  <2> QED BY <2>3, <2>4 DEF Quiet
<1>2. CASE StartAttached
  <2>1. branch.inputs \in Inputs \cup {"none"} BY DEF TypeOK, DiskType, Branches
  <2>2. led'.verdicts = [r \in BuildRole |-> IF r \in Proven THEN "GATE_PASSED" ELSE "none"]
    BY <1>2, <2>1, RunStartedEffect DEF StartAttached, Ledgers
  <2> QED BY <2>2 DEF Quiet
<1>3. CASE ResumeFailed
  <2>1. PICK h \in Inputs, b \in BOOLEAN :
          led' = LET rebased == IF b /\ led.inputs # h
                                THEN Appended(led, InputsRebased(h)) ELSE led
                 IN  Appended(Appended(rebased, Note), BudgetReset)
    BY <1>3 DEF ResumeFailed
  <2> DEFINE rebased == IF b /\ led.inputs # h THEN Appended(led, InputsRebased(h)) ELSE led
  <2>2. Quiet(led, rebased) BY QuietEvents
  <2>3. led' = Appended(Appended(rebased, Note), BudgetReset) BY <2>1
  <2> HIDE DEF rebased
  <2> QED BY <2>2, <2>3, QuietEvents, QuietChain
<1>4. CASE StartKept \/ StartIngest BY <1>4, QuietEvents DEF StartKept, StartIngest, disk
<1> QED BY <1>1, <1>2, <1>3, <1>4 DEF Start

LEMMA QuietThread ==
  ASSUME Thread, ~StartPhase
  PROVE  Quiet(led, led')
<1> USE QuietEvents, QuietChain
<1>1. CASE RefuseInputs \/ FailPreflight \/ Enter
  <2>1. CASE RefuseInputs BY <2>1 DEF RefuseInputs, RecordsCrash
  <2>2. CASE FailPreflight BY <2>2, QuietOpening DEF FailPreflight
  <2>3. CASE Enter BY <2>3, QuietOpening DEF Enter
  <2> QED BY <1>1, <2>1, <2>2, <2>3
<1>2. CASE SpendWall \/ RunPhase
  <2>1. CASE SpendWall \/ FinishRole \/ FinishCommit \/ HaltStage \/ FailCheckpoint \/ PassUnattached
    BY <2>1 DEF SpendWall, FinishRole, FinishCommit, HaltStage, FailCheckpoint, PassUnattached, disk
  <2>2. CASE LeaveLane BY <2>2 DEF LeaveLane
  <2>3. CASE FailRole
    <3>1. led' = Appended(led, PhaseAborted(phase)) \/ led' = Appended(led, Note)
      BY <2>3 DEF FailRole
    <3> QED BY <3>1
  <2>4. CASE PassGate BY <2>4 DEF PassGate
  <2>5. CASE FailGate BY <2>5 DEF FailGate
  <2>6. CASE Checkpoint BY <2>6 DEF Checkpoint, disk
  <2> QED BY <1>2, <2>1, <2>2, <2>3, <2>4, <2>5, <2>6 DEF RunPhase
<1>3. CASE Decide
  BY <1>3 DEF Decide, CollectFinding, HandOff, FailTerminal, PassAdvisory, RegenerateTest, Reprompt,
              StopUnowned, StopTwice, StopSpent, StopForeman, ReworkWriter, disk
<1>4. CASE Close
  <2>1. CASE Report \/ Succeed BY <2>1 DEF Report, Succeed, disk
  <2>2. CASE OpenAutoPilot BY <2>2, QuietOpening DEF OpenAutoPilot
  <2>3. CASE FinishFailed BY <2>3 DEF FinishFailed
  <2>4. CASE FinishSuccess
    <3>1. PICK thin \in BOOLEAN, delivered \in BOOLEAN :
            led' = Appended(led,
                     IF thin \/ (Climbs /\ cycle # "pilot")
                     THEN RunFailed(IF Climbs /\ cycle # "pilot" THEN "TESTER" ELSE "WRITER",
                                    "FAILED_ROLE_ERROR", {})
                     ELSE RunSucceeded(IF delivered THEN "SUCCESS" ELSE "FAILED_ROLE_ERROR",
                                       cycle))
      BY <2>4 DEF FinishSuccess
    <3> QED BY <3>1
  <2> QED BY <1>4, <2>1, <2>2, <2>3, <2>4 DEF Close
<1>5. CASE AnswerN3
  <2>1. CASE N3Green
    <3> DEFINE m == Appended(led, N3Passed("STORE_MANAGER"))
    <3>1. led' = Appended(m, [RunSucceeded("SUCCESS", "pilot") EXCEPT !.role = "STORE_MANAGER"])
      BY <2>1 DEF N3Green
    <3>2. Quiet(led, m) OBVIOUS
    <3> HIDE DEF m
    <3> QED BY <3>1, <3>2
  <2>2. CASE N3NotProduct BY <2>2 DEF N3NotProduct
  <2>3. CASE N3Product BY <2>3 DEF N3Product
  <2>4. CASE N3Unreachable BY <2>4 DEF N3Unreachable, disk
  <2>5. CASE ReopenAdvisory BY <2>5 DEF ReopenAdvisory
  <2>6. CASE ReopenStopped BY <2>6 DEF ReopenStopped
  <2>7. CASE ReopenRework BY <2>7 DEF ReopenRework
  <2> QED BY <1>5, <2>1, <2>2, <2>3, <2>4, <2>5, <2>6, <2>7 DEF AnswerN3
<1> QED BY <1>1, <1>2, <1>3, <1>4, <1>5 DEF Thread

LEMMA QuietCrash ==
  ASSUME KillProcess \/ CrashThread
  PROVE  Quiet(led, led')
BY QuietEvents DEF KillProcess, CrashThread, RecordsCrash, disk

\* A phase that starts is the first that has not passed, or a WRITER sent back.
LEMMA StartContinues ==
  ASSUME RInv, StartPhase, NEW r \in BuildRole, led.verdicts[r] = "GATE_PASSED",
         led'.verdicts[r] = "PHASE_STARTED"
  PROVE  r = "WRITER" /\ "TESTER" \notin Completed(led)
<1> DEFINE p == NextPhase(done)
<1>1. p \in Completed(led) => p = "WRITER" /\ "TESTER" \notin Completed(led)
  BY FirstMissing DEF StartPhase
<1>2. led' = Appended(led, PhaseStarted(p)) BY DEF StartPhase
<1>3. PhaseStarted(p).kind = "PHASE_STARTED" /\ PhaseStarted(p).role = p
  BY DEF PhaseStarted, Note
<1>4. r \in Completed(led) BY DEF Completed
<1> HIDE DEF p
<1>5. r = p BY <1>2, <1>3 DEF Appended, VerdictsAfter
<1> QED BY <1>1, <1>4, <1>5

\* A phase whose pass stands is not run again, except the WRITER sent back while the
\* TESTER's verdict is open: what run() reads off the ledger when it enters is what it
\* does not do again, whatever ended the run before, in a build that collects failures
\* or attaches to a stale tip as in one that does not.
THEOREM Continues == Spec => ResumeContinues
<1>1. RInv /\ [Next]_vars => RInv' BY NextRemembered
<1>2. RInv /\ [Next]_vars =>
        [\A r \in BuildRole :
           led.verdicts[r] = "GATE_PASSED" /\ led'.verdicts[r] = "PHASE_STARTED" =>
             r = "WRITER" /\ "TESTER" \notin Completed(led)]_vars
  <2> SUFFICES ASSUME RInv, Next, NEW r \in BuildRole, led.verdicts[r] = "GATE_PASSED",
                      led'.verdicts[r] = "PHASE_STARTED"
               PROVE  r = "WRITER" /\ "TESTER" \notin Completed(led)
    OBVIOUS
  <2>1. ~Quiet(led, led') BY DEF Quiet
  <2>2. StartPhase BY <2>1, QuietStart, QuietThread, QuietCrash DEF Next, RInv, AInv
  <2> QED BY <2>2, StartContinues
<1> QED BY <1>1, <1>2, InitRemembered, PTL DEF Spec, ResumeContinues

\* A success in the ledger stands on a pass of every phase, in a build that collects
\* failures or attaches to a stale tip too, where what stands need not have been judged.
THEOREM SuccessIsComplete ==
  Spec => [](led.terminal.kind = "RUN_SUCCEEDED" => Completed(led) = BuildRole)
<1>1. RInv /\ [Next]_vars => RInv' BY NextRemembered
<1>2. RInv => (led.terminal.kind = "RUN_SUCCEEDED" => Completed(led) = BuildRole)
  BY DEF RInv, Claimed
<1> QED BY <1>1, <1>2, InitRemembered, PTL DEF Spec

\* An open handoff is the ledger's last verdict, nothing but its waiter runs and only the
\* Store gate is missing, in every build.
THEOREM HandoffIsWaited == Spec => []HandoffIsLast
<1>1. RInv /\ [Next]_vars => RInv' BY NextRemembered
<1>2. RInv => HandoffIsLast
  BY DEF RInv, AInv, Alone, Claimed, HandoffIsLast
<1> QED BY <1>1, <1>2, InitRemembered, PTL DEF Spec

-----------------------------------------------------------------------------
(* The ledger keeps BuildPromise: each step of the runner is a step of the   *)
(* promise, or leaves what stands and what is recorded as it was.            *)

PromiseStep == Promised!Next \/ UNCHANGED Promised!promise

SameRecord ==
  /\ Completed(led') = Completed(led) /\ led'.terminal.kind = led.terminal.kind
  /\ starts' = starts

LEMMA RecordIsKept ==
  ASSUME SameRecord
  PROVE  PromiseStep
BY DEF SameRecord, PromiseStep, Promised!promise

LEMMA RecordedKinds ==
  ASSUME TypeOK
  PROVE  led.terminal.kind \in {"none", "RUN_SUCCEEDED", "RUN_FAILED"}
BY DEF TypeOK, DiskType, Ledgers, Terminals

LEMMA FailIsPromised ==
  ASSUME Completed(led') = Completed(led), led'.terminal.kind = "RUN_FAILED", starts' = starts
  PROVE  PromiseStep
BY DEF PromiseStep, Promised!Next, Promised!Fail

LEMMA AskIsPromised ==
  ASSUME Completed(led') = Completed(led), led'.terminal.kind = led.terminal.kind,
         starts' = starts + 1
  PROVE  PromiseStep
BY DEF PromiseStep, Promised!Next, Promised!Ask

LEMMA RestartIsPromised ==
  ASSUME InOrder(Completed(led')), led'.terminal = NoVerdict, starts' = starts + 1
  PROVE  PromiseStep
<1>1. Completed(led') \in SUBSET BuildRole BY DEF Completed
<1> QED BY <1>1 DEF PromiseStep, Promised!Next, Promised!Restart, Promised!InOrder, InOrder, NoVerdict

LEMMA TakeBackIsPromised ==
  ASSUME TypeOK, Completed(led') \subseteq Completed(led), InOrder(Completed(led')),
         \/ led'.terminal = NoVerdict
         \/ led'.terminal.kind = led.terminal.kind /\ led.terminal.kind # "RUN_SUCCEEDED",
         starts' \in {starts, starts + 1}
  PROVE  PromiseStep
<1>1. \/ led'.terminal.kind = "none"
      \/ led'.terminal.kind = led.terminal.kind /\ led.terminal.kind \in {"none", "RUN_FAILED"}
  BY RecordedKinds DEF NoVerdict
<1>2. Promised!TakeBack
  BY <1>1 DEF Promised!TakeBack, Promised!InOrder, InOrder
<1> QED BY <1>2 DEF PromiseStep, Promised!Next

LEMMA PassIsPromised ==
  ASSUME TypeOK, NEW r \in BuildRole, r \notin Completed(led), Earlier(r) \subseteq Completed(led),
         Completed(led') = Completed(led) \cup {r}, starts' = starts,
         led'.terminal.kind = led.terminal.kind, led.terminal.kind # "RUN_SUCCEEDED"
  PROVE  PromiseStep
<1>1. led.terminal.kind \in {"none", "RUN_FAILED"} BY RecordedKinds
<1>2. Promised!Pass(r) BY <1>1 DEF Promised!Pass
<1> QED BY <1>2 DEF PromiseStep, Promised!Next

LEMMA SuccessIsPromised ==
  ASSUME Completed(led') = BuildRole, starts' = starts, led'.terminal.kind = "RUN_SUCCEEDED",
         Completed(led) = BuildRole \/ Completed(led) = Earlier("STORE_MANAGER")
  PROVE  PromiseStep
<1>1. "STORE_MANAGER" \in BuildRole /\ Earlier("STORE_MANAGER") = BuildRole \ {"STORE_MANAGER"}
  BY EarlierOf DEF BuildRole
<1>2. Promised!Succeed BY <1>1 DEF Promised!Succeed
<1> QED BY <1>2 DEF PromiseStep, Promised!Next

-----------------------------------------------------------------------------
LEMMA StartPromised ==
  ASSUME PlainBuild, IInv, Start
  PROVE  PromiseStep
<1>0. /\ starts' = starts + 1 /\ TypeOK /\ led \in Ledgers
      /\ StandingIsJudged'
  BY StartStands DEF Start, StartFresh, StartOver, StartAttached, ResumeFailed, StartKept, StartIngest,
                     CanStart, IInv, TypeOK, DiskType
<1>1. CASE StartFresh \/ StartOver
  <2>1. PICK h \in Inputs : OpenFresh(h) BY <1>1 DEF StartFresh, StartOver
  <2>2. led'.terminal = NoVerdict BY <2>1, RunStartedEffect DEF OpenFresh
  <2> QED BY <1>0, <2>2, RestartIsPromised DEF StandingIsJudged, PassesAreJudged
<1>2. CASE StartAttached
  <2>1. branch.inputs \in Inputs \cup {"none"} BY DEF IInv, TypeOK, DiskType, Branches
  <2>2. led'.terminal = NoVerdict
    BY <1>2, <2>1, RunStartedEffect DEF StartAttached, Ledgers
  <2> QED BY <1>0, <2>2, RestartIsPromised DEF StandingIsJudged, PassesAreJudged
<1>3. CASE ResumeFailed
  <2>1. PICK h \in Inputs, b \in BOOLEAN :
          led' = LET rebased == IF b /\ led.inputs # h
                                THEN Appended(led, InputsRebased(h)) ELSE led
                 IN  Appended(Appended(rebased, Note), BudgetReset)
    BY <1>3 DEF ResumeFailed
  <2> DEFINE rebased == IF b /\ led.inputs # h THEN Appended(led, InputsRebased(h)) ELSE led
  <2>2. rebased \in Ledgers BY <1>0, InputsTypes, AppendedType
  <2>3. led' = Appended(Appended(rebased, Note), BudgetReset) BY <2>1
  <2>4. Completed(led') = Completed(rebased) /\ led'.terminal = rebased.terminal
    <3> HIDE DEF rebased
    <3> QED BY <2>2, <2>3, NotesEffect, NoteEffect DEF Keeps
  <2>5. CASE b /\ led.inputs # h
    <3>1. Completed(led') = {} /\ led'.terminal = NoVerdict BY <1>0, <2>4, <2>5, RebaseEffect
    <3> QED BY <1>0, <3>1, TakeBackIsPromised DEF InOrder
  <2>6. CASE ~(b /\ led.inputs # h) BY <1>0, <2>4, <2>6, AskIsPromised
  <2> QED BY <2>5, <2>6
<1>4. CASE StartKept \/ StartIngest
  BY <1>0, <1>4, AskIsPromised DEF StartKept, StartIngest, disk
<1> QED BY <1>1, <1>2, <1>3, <1>4 DEF Start

LEMMA PreludePromised ==
  ASSUME IInv, RefuseInputs \/ FailPreflight \/ Enter
  PROVE  PromiseStep
<1>0. led \in Ledgers /\ TypeOK /\ starts' = starts /\ StandingIsJudged'
  BY PreludeStands DEF IInv, TypeOK, DiskType, RefuseInputs, RecordsCrash, FailPreflight, Enter, bounds
<1>1. CASE RefuseInputs
  BY <1>0, <1>1, FailedEffect, FailIsPromised DEF RefuseInputs, RecordsCrash
<1>2. CASE FailPreflight
  BY <1>0, <1>2, LevelNotedEffect, RecordIsKept DEF FailPreflight, SameRecord, Keeps
<1>3. CASE Enter
  <2>1. PICK opens \in BOOLEAN, reopenWriter \in BOOLEAN :
          led' = IF opens THEN OpenPilot(LevelNoted(led), reopenWriter) ELSE LevelNoted(led)
    BY <1>3 DEF Enter
  <2>2. LevelNoted(led) \in Ledgers BY <1>0, LevelNotedType
  <2>3. CASE opens
    <3>1. Completed(led') \subseteq Completed(led) /\ led'.terminal = NoVerdict
      BY <1>0, <2>1, <2>2, <2>3, LevelNotedEffect, OpenPilotEffect
    <3> QED BY <1>0, <3>1, TakeBackIsPromised DEF StandingIsJudged, PassesAreJudged
  <2>4. CASE ~opens
    BY <1>0, <2>1, <2>4, LevelNotedEffect, RecordIsKept DEF SameRecord, Keeps
  <2> QED BY <2>3, <2>4
<1> QED BY <1>1, <1>2, <1>3

LEMMA PhasePromised ==
  ASSUME IInv, SpendWall \/ RunPhase
  PROVE  PromiseStep
<1>0. led \in Ledgers /\ TypeOK /\ starts' = starts
  BY DEF IInv, TypeOK, DiskType, SpendWall, RunPhase, StartPhase, LeaveLane, FailRole, FinishRole,
         FinishCommit, PassGate, FailGate, HaltStage, Checkpoint, FailCheckpoint, PassUnattached, bounds
<1>1. CASE SpendWall \/ FinishRole \/ FinishCommit \/ HaltStage \/ FailCheckpoint \/ PassUnattached
  BY <1>0, <1>1, RecordIsKept
     DEF SpendWall, FinishRole, FinishCommit, HaltStage, FailCheckpoint, PassUnattached, SameRecord, disk
<1>2. CASE StartPhase
  <2> DEFINE r == NextPhase(done)
  <2>1. /\ \/ done = Completed(led)
           \/ done = Earlier("WRITER") /\ Completed(led) = Earlier("TESTER")
        /\ PassesAreJudged /\ PassesAreJudged'
    BY <1>2, PickStands DEF IInv, StandingIsJudged, MemoryMatchesLedger, StartPhase
  <2>2. r \in BuildRole
    BY <1>2, NextPhaseType DEF StartPhase, IInv, TypeOK, MemoryType
  <2>3. led' = Appended(led, PhaseStarted(r)) BY <1>2 DEF StartPhase
  <2> HIDE DEF r
  <2>4. Completed(led') = Completed(led) \ {r} /\ led'.terminal = led.terminal
    BY <1>0, <2>2, <2>3, AttemptEffect DEF Keeps
  <2>5. led.terminal.kind # "RUN_SUCCEEDED"
    BY <1>2, <2>1, EarlierOf DEF StartPhase, PassesAreJudged, BuildRole
  <2> QED BY <1>0, <2>1, <2>4, <2>5, TakeBackIsPromised DEF PassesAreJudged
<1>3. CASE LeaveLane \/ FailRole \/ FailGate
  <2>1. pc \in InPhase BY <1>3 DEF LeaveLane, FailRole, FailGate, InPhase
  <2>2. \E e \in {PhaseStarted(phase), GateFailed(phase), PhaseAborted(phase)} : led' = Appended(led, e)
    BY <1>3 DEF LeaveLane, FailRole, FailGate, IInv
  <2> QED BY <1>0, <2>1, <2>2, AttemptKeeps, RecordIsKept DEF SameRecord, Keeps
<1>4. CASE PassGate
  <2>1. /\ phase \in BuildRole /\ Completed(led) = Earlier(phase) /\ phase \notin Earlier(phase)
        /\ led.terminal.kind # "RUN_SUCCEEDED" /\ led' = Appended(led, GatePassed(phase))
    BY <1>4, DuringPhase DEF PassGate, InPhase
  <2>2. Completed(led') = Completed(led) \cup {phase} /\ led'.terminal = led.terminal
    BY <1>0, <2>1, PassEffect
  <2> QED BY <1>0, <2>1, <2>2, PassIsPromised
<1>5. CASE Checkpoint
  BY <1>0, <1>5, NoteEffect, RecordIsKept DEF Checkpoint, SameRecord, Keeps
<1> QED BY <1>1, <1>2, <1>3, <1>4, <1>5 DEF RunPhase

LEMMA DecidePromised ==
  ASSUME IInv, Decide
  PROVE  PromiseStep
<1>0. led \in Ledgers /\ TypeOK /\ starts' = starts
  BY DEF IInv, TypeOK, DiskType, Decide, CollectFinding, HandOff, FailTerminal, PassAdvisory,
         RegenerateTest, Reprompt, StopUnowned, StopTwice, StopSpent, StopForeman, ReworkWriter, bounds
<1>1. CASE FailTerminal \/ StopTwice \/ StopSpent \/ StopForeman
  BY <1>0, <1>1, RecordIsKept DEF FailTerminal, StopTwice, StopSpent, StopForeman, SameRecord, disk
<1>2. CASE CollectFinding \/ HandOff \/ RegenerateTest \/ Reprompt \/ StopUnowned
  <2>1. led' \in {led, Appended(led, Note), Appended(Appended(led, Note), Note)}
    BY <1>2 DEF CollectFinding, HandOff, RegenerateTest, Reprompt, StopUnowned
  <2> QED BY <1>0, <2>1, NotesEffect, RecordIsKept DEF SameRecord, Keeps
<1>3. CASE PassAdvisory
  <2>1. /\ phase \in BuildRole /\ Completed(led) = Earlier(phase) /\ phase \notin Earlier(phase)
        /\ led.terminal.kind # "RUN_SUCCEEDED"
        /\ led' = Appended(Appended(led, Note), GatePassed(phase))
    BY <1>3, DuringPhase DEF PassAdvisory, Deciding, Halting, InPhase
  <2>2. Completed(led') = Completed(led) \cup {phase} /\ led'.terminal = led.terminal
    BY <1>0, <2>1, NotesEffect, PassEffect DEF Keeps
  <2> QED BY <1>0, <2>1, <2>2, PassIsPromised
<1>4. CASE ReworkWriter
  <2> DEFINE m == Appended(led, Note)
             n == Appended(m, Rework(phase, verdict.names, {}))
  <2>1. m \in Ledgers /\ Completed(m) = Completed(led) /\ Keeps(led, m) BY <1>0, NotesEffect
  <2>2. led' = n BY <1>4 DEF ReworkWriter
  <2> HIDE DEF m
  <2>3. Completed(n) = Completed(m) \ {} /\ n.terminal = IF {} = {} THEN m.terminal ELSE NoVerdict
    BY <2>1, ReworkEffect
  <2> HIDE DEF n
  <2> QED BY <1>0, <2>1, <2>2, <2>3, RecordIsKept DEF SameRecord, Keeps
<1> QED BY <1>1, <1>2, <1>3, <1>4 DEF Decide

LEMMA ClosePromised ==
  ASSUME IInv, Close
  PROVE  PromiseStep
<1>0. led \in Ledgers /\ TypeOK /\ starts' = starts
  BY DEF IInv, TypeOK, DiskType, Close, Report, OpenAutoPilot, Succeed, FinishFailed, FinishSuccess, bounds
<1>1. CASE Report \/ Succeed BY <1>0, <1>1, RecordIsKept DEF Report, Succeed, SameRecord, disk
<1>2. CASE OpenAutoPilot
  <2>1. PICK reopenWriter \in BOOLEAN, cliReopen \in BOOLEAN :
          led' = IF cliReopen THEN Appended(OpenPilot(led, reopenWriter), Note)
                 ELSE OpenPilot(led, reopenWriter)
    BY <1>2 DEF OpenAutoPilot
  <2> DEFINE m == OpenPilot(led, reopenWriter)
  <2>2. Completed(m) \subseteq Completed(led) /\ m.terminal = NoVerdict /\ m \in Ledgers
    BY <1>0, OpenPilotEffect, OpenPilotType
  <2>3. led' = m \/ led' = Appended(m, Note) BY <2>1
  <2> HIDE DEF m
  <2>4. Completed(led') \subseteq Completed(led) /\ led'.terminal = NoVerdict
    BY <2>2, <2>3, NoteEffect DEF Keeps
  <2>5. PassesAreJudged' BY CloseStands DEF StandingIsJudged
  <2> QED BY <1>0, <2>4, <2>5, TakeBackIsPromised DEF PassesAreJudged
<1>3. CASE FinishFailed BY <1>0, <1>3, FailedEffect, FailIsPromised DEF FinishFailed
<1>4. CASE FinishSuccess
  <2>1. Completed(led) = BuildRole
    BY <1>4 DEF FinishSuccess, IInv, StandingIsJudged, MemoryMatchesLedger
  <2>2. PICK thin \in BOOLEAN, delivered \in BOOLEAN :
          led' = Appended(led,
                   IF thin \/ (Climbs /\ cycle # "pilot")
                   THEN RunFailed(IF Climbs /\ cycle # "pilot" THEN "TESTER" ELSE "WRITER",
                                  "FAILED_ROLE_ERROR", {})
                   ELSE RunSucceeded(IF delivered THEN "SUCCESS" ELSE "FAILED_ROLE_ERROR",
                                     cycle))
    BY <1>4 DEF FinishSuccess
  <2>3. CASE thin \/ (Climbs /\ cycle # "pilot")
    BY <1>0, <2>2, <2>3, FailedEffect, FailIsPromised
  <2>4. CASE ~(thin \/ (Climbs /\ cycle # "pilot"))
    <3> DEFINE o == IF delivered THEN "SUCCESS" ELSE "FAILED_ROLE_ERROR"
    <3>1. led' = Appended(led, RunSucceeded(o, cycle)) /\ o # "HANDOFF_TO_N3" BY <2>2, <2>4
    <3> HIDE DEF o
    <3>2. Completed(led') = Completed(led) /\ led'.terminal.kind = "RUN_SUCCEEDED"
      BY <1>0, <3>1, SucceededEffect
    <3> QED BY <1>0, <2>1, <3>2, SuccessIsPromised
  <2> QED BY <2>3, <2>4
<1> QED BY <1>1, <1>2, <1>3, <1>4 DEF Close

LEMMA AnswerPromised ==
  ASSUME IInv, AnswerN3
  PROVE  PromiseStep
<1>0. led \in Ledgers /\ TypeOK /\ starts' = starts
  BY DEF IInv, TypeOK, DiskType, AnswerN3, N3Green, N3NotProduct, N3Product, N3Unreachable,
         ReopenAdvisory, ReopenStopped, ReopenRework, bounds
\* The Store gate answers on the four earlier phases, its own standing or not.
<1>1. Completed(led) = BuildRole \/ Completed(led) = Earlier("STORE_MANAGER")
  <2>1. Completed(led) \in SUBSET BuildRole BY DEF Completed
  <2>2. Earlier("STORE_MANAGER") \subseteq Completed(led)
    BY DEF AnswerN3, N3Green, N3NotProduct, N3Product, N3Unreachable, ReopenAdvisory, ReopenStopped,
           ReopenRework, Waiting, IInv, StandingIsJudged, MemoryMatchesLedger
  <2> QED BY <2>1, <2>2, EarlierOf DEF BuildRole
<1>2. CASE N3Green
  <2> DEFINE m == Appended(led, N3Passed("STORE_MANAGER"))
  <2>1. m \in Ledgers BY <1>0, N3PassTypes, AppendedType
  <2>2. Completed(m) = Completed(led) \cup {"STORE_MANAGER"} BY <1>0, PassEffect DEF BuildRole
  <2>3. led' = Appended(m, [RunSucceeded("SUCCESS", "pilot") EXCEPT !.role = "STORE_MANAGER"])
    BY <1>2 DEF N3Green
  <2> HIDE DEF m
  <2>4. Completed(led') = Completed(m) /\ led'.terminal.kind = "RUN_SUCCEEDED"
    BY <2>1, <2>3, N3SucceededEffect
  <2>5. Completed(led') = BuildRole BY <1>1, <2>2, <2>4, EarlierOf DEF BuildRole
  <2> QED BY <1>0, <1>1, <2>4, <2>5, SuccessIsPromised
<1>3. CASE N3NotProduct \/ N3Product
  <2>1. \E F : led' = Appended(led, N3Failed(F)) BY <1>3 DEF N3NotProduct, N3Product
  <2> QED BY <1>0, <2>1, N3FailedEffect, FailIsPromised
<1>4. CASE N3Unreachable BY <1>0, <1>4, RecordIsKept DEF N3Unreachable, SameRecord, disk
<1>5. CASE ReopenAdvisory
  <2>1. led' = Appended(Appended(led, Note), GatePassed("STORE_MANAGER")) BY <1>5 DEF ReopenAdvisory
  <2>2. Completed(led') = Completed(led) \cup {"STORE_MANAGER"} /\ led'.terminal = led.terminal
    BY <1>0, <2>1, NotesEffect, PassEffect DEF Keeps, BuildRole
  <2>3. CASE Completed(led) = BuildRole
    BY <1>0, <2>2, <2>3, RecordIsKept DEF SameRecord, BuildRole
  <2>4. CASE Completed(led) = Earlier("STORE_MANAGER")
    <3>1. "STORE_MANAGER" \in BuildRole /\ "STORE_MANAGER" \notin Completed(led)
      BY <2>4, EarlierOf DEF BuildRole
    <3>2. led.terminal.kind # "RUN_SUCCEEDED"
      BY <3>1 DEF IInv, StandingIsJudged, PassesAreJudged
    <3> QED BY <1>0, <2>2, <2>4, <3>1, <3>2, PassIsPromised
  <2> QED BY <1>1, <2>3, <2>4
<1>6. CASE ReopenStopped
  <2>1. \E o : led' = Appended(led, RunFailed("STORE_MANAGER", o, verdict.names))
    BY <1>6 DEF ReopenStopped
  <2> QED BY <1>0, <2>1, FailedEffect, FailIsPromised
<1>7. CASE ReopenRework
  <2> DEFINE m == Appended(led, Note)
             R == {"WRITER", "TESTER", "STORE_MANAGER"}
             n == Appended(m, Rework("STORE_MANAGER", verdict.names, R))
  <2>1. m \in Ledgers /\ Completed(m) = Completed(led) BY <1>0, NotesEffect
  <2>2. led' = n BY <1>7 DEF ReopenRework
  <2> HIDE DEF m
  <2>3. Completed(n) = Completed(m) \ R /\ n.terminal = IF R = {} THEN m.terminal ELSE NoVerdict
    BY <2>1, ReworkEffect
  <2> HIDE DEF n
  <2>4. PassesAreJudged' BY AnswerStands DEF StandingIsJudged
  <2>5. Completed(led') \subseteq Completed(led) /\ led'.terminal = NoVerdict BY <2>1, <2>2, <2>3
  <2> QED BY <1>0, <2>4, <2>5, TakeBackIsPromised DEF PassesAreJudged
<1> QED BY <1>2, <1>3, <1>4, <1>5, <1>6, <1>7 DEF AnswerN3

LEMMA CrashPromised ==
  ASSUME IInv, KillProcess \/ CrashThread
  PROVE  PromiseStep
<1>0. led \in Ledgers /\ starts' = starts
  BY DEF IInv, TypeOK, DiskType, KillProcess, CrashThread, RecordsCrash
<1>1. CASE KillProcess BY <1>0, <1>1, RecordIsKept DEF KillProcess, SameRecord, disk
<1>2. CASE CrashThread BY <1>0, <1>2, FailedEffect, FailIsPromised DEF CrashThread, RecordsCrash
<1> QED BY <1>1, <1>2

LEMMA InitPromised ==
  ASSUME Init
  PROVE  Promised!Init
BY EmptyLedgerType DEF Init, Promised!Init, EmptyLedger, NoVerdict

LEMMA NextPromised ==
  ASSUME PlainBuild, IInv, [Next]_vars
  PROVE  [Promised!Next]_(Promised!promise)
<1>1. CASE UNCHANGED vars
  BY <1>1 DEF vars, disk, bounds, Promised!promise, Completed
<1>2. CASE Next
  <2>1. PromiseStep
    BY <1>2, StartPromised, PreludePromised, PhasePromised, DecidePromised, ClosePromised,
       AnswerPromised, CrashPromised
       DEF Next, Thread
  <2> QED BY <2>1 DEF PromiseStep
<1> QED BY <1>1, <1>2

\* The runner implements BuildPromise: to whoever reads the ledger, passes are gained
\* one at a time and in order, taken back only from some phase on, and a success is
\* recorded on all five and holds until the run is re-opened -- through every start,
\* resume, rework, handed-off answer and crash.
THEOREM PromiseKept == PlainBuild => (Spec => KeepsPromise)
<1> SUFFICES ASSUME PlainBuild PROVE Spec => Promised!Spec BY DEF KeepsPromise
<1>1. IInv /\ [Next]_vars => IInv' BY NextStands
<1>2. IInv /\ [Next]_vars => [Promised!Next]_(Promised!promise) BY NextPromised
<1>3. Init => Promised!Init BY InitPromised
<1> QED BY <1>1, <1>2, <1>3, InitStands, PTL DEF Spec, Promised!Spec

-----------------------------------------------------------------------------
(* Rework is bounded, in a build that collects failures too.                 *)

\* The budget's readings that only a rework and a reset change.
SameBudget(l, m) == m.names = l.names /\ \A g \in ReworkGates : m.spent[g] = l.spent[g]

LEMMA BudgetChain ==
  ASSUME NEW l, NEW m, NEW n, SameBudget(l, m), SameBudget(m, n)
  PROVE  SameBudget(l, n)
BY DEF SameBudget

LEMMA BudgetAfter ==
  ASSUME NEW l, NEW e, e.kind # "REWORK", e.key # "rework_budget_reset"
  PROVE  SameBudget(l, Appended(l, e))
BY DEF SameBudget, Appended, SpentAfter, NamesAfter

\* The events that spend nothing.
LEMMA BudgetEvents ==
  ASSUME NEW l
  PROVE  /\ SameBudget(l, l) /\ SameBudget(l, Appended(l, Note))
         /\ \A h : SameBudget(l, Appended(l, InputsRebased(h)))
         /\ \A r : /\ SameBudget(l, Appended(l, PhaseStarted(r)))
                   /\ SameBudget(l, Appended(l, GatePassed(r)))
                   /\ SameBudget(l, Appended(l, N3Passed(r)))
                   /\ SameBudget(l, Appended(l, GateFailed(r)))
                   /\ SameBudget(l, Appended(l, PhaseAborted(r)))
         /\ \A b : SameBudget(l, Appended(l, PilotOpened(b)))
         /\ \A r, o, F : SameBudget(l, Appended(l, RunFailed(r, o, F)))
         /\ \A F : SameBudget(l, Appended(l, N3Failed(F)))
         /\ \A o, c :
              /\ SameBudget(l, Appended(l, RunSucceeded(o, c)))
              /\ SameBudget(l, Appended(l, [RunSucceeded(o, c) EXCEPT !.role = "STORE_MANAGER"]))
<1> DEFINE Free(e) == e.kind # "REWORK" /\ e.key # "rework_budget_reset"
<1>1. SameBudget(l, l) BY DEF SameBudget
<1>2. Free(Note) BY DEF Note
<1>3. \A h : Free(InputsRebased(h)) BY DEF Note, InputsRebased
<1>4. \A r : Free(PhaseStarted(r)) /\ Free(GatePassed(r)) /\ Free(N3Passed(r))
             /\ Free(GateFailed(r)) /\ Free(PhaseAborted(r))
  BY DEF Note, PhaseStarted, GatePassed, N3Passed, GateFailed, PhaseAborted
<1>5. \A b : Free(PilotOpened(b)) BY DEF Note, PilotOpened
<1>6. \A r, o, F : Free(RunFailed(r, o, F)) BY DEF Note, RunFailed
<1>7. \A F : Free(N3Failed(F)) BY DEF Note, RunFailed, N3Failed
<1>8. \A o, c : /\ Free(RunSucceeded(o, c))
                /\ Free([RunSucceeded(o, c) EXCEPT !.role = "STORE_MANAGER"])
  BY DEF Note, RunSucceeded
<1> QED BY <1>1, <1>2, <1>3, <1>4, <1>5, <1>6, <1>7, <1>8, BudgetAfter

LEMMA BudgetOpening ==
  ASSUME NEW l, NEW b
  PROVE  SameBudget(l, LevelNoted(l)) /\ SameBudget(l, OpenPilot(l, b))
         /\ SameBudget(l, OpenPilot(LevelNoted(l), b))
<1>1. \A m : SameBudget(m, OpenPilot(m, b)) BY BudgetEvents, BudgetChain DEF OpenPilot
<1>2. SameBudget(l, LevelNoted(l)) BY BudgetEvents DEF LevelNoted
<1> QED BY <1>1, <1>2, BudgetChain

\* Only the two reworks spend.
LEMMA BudgetThread ==
  ASSUME Thread, ~ReworkWriter, ~ReopenRework
  PROVE  SameBudget(led, led')
<1> USE BudgetEvents, BudgetChain
<1>1. CASE RefuseInputs \/ FailPreflight \/ Enter
  <2>1. CASE RefuseInputs BY <2>1 DEF RefuseInputs, RecordsCrash
  <2>2. CASE FailPreflight BY <2>2, BudgetOpening DEF FailPreflight
  <2>3. CASE Enter BY <2>3, BudgetOpening DEF Enter
  <2> QED BY <1>1, <2>1, <2>2, <2>3
<1>2. CASE SpendWall \/ RunPhase
  BY <1>2 DEF SpendWall, RunPhase, StartPhase, LeaveLane, FailRole, FinishRole, FinishCommit, PassGate,
              FailGate, HaltStage, Checkpoint, FailCheckpoint, PassUnattached, disk
<1>3. CASE Decide
  BY <1>3 DEF Decide, CollectFinding, HandOff, FailTerminal, PassAdvisory, RegenerateTest, Reprompt,
              StopUnowned, StopTwice, StopSpent, StopForeman, disk
<1>4. CASE Close
  <2>1. CASE Report \/ Succeed BY <2>1 DEF Report, Succeed, disk
  <2>2. CASE OpenAutoPilot BY <2>2, BudgetOpening DEF OpenAutoPilot
  <2>3. CASE FinishFailed BY <2>3 DEF FinishFailed
  <2>4. CASE FinishSuccess
    <3>1. PICK thin \in BOOLEAN, delivered \in BOOLEAN :
            led' = Appended(led,
                     IF thin \/ (Climbs /\ cycle # "pilot")
                     THEN RunFailed(IF Climbs /\ cycle # "pilot" THEN "TESTER" ELSE "WRITER",
                                    "FAILED_ROLE_ERROR", {})
                     ELSE RunSucceeded(IF delivered THEN "SUCCESS" ELSE "FAILED_ROLE_ERROR",
                                       cycle))
      BY <2>4 DEF FinishSuccess
    <3> QED BY <3>1
  <2> QED BY <1>4, <2>1, <2>2, <2>3, <2>4 DEF Close
<1>5. CASE AnswerN3
  <2>1. CASE N3Green
    <3> DEFINE m == Appended(led, N3Passed("STORE_MANAGER"))
    <3>1. led' = Appended(m, [RunSucceeded("SUCCESS", "pilot") EXCEPT !.role = "STORE_MANAGER"])
      BY <2>1 DEF N3Green
    <3>2. SameBudget(led, m) OBVIOUS
    <3> HIDE DEF m
    <3> QED BY <3>1, <3>2
  <2>2. CASE N3NotProduct \/ N3Product \/ N3Unreachable
    BY <2>2 DEF N3NotProduct, N3Product, N3Unreachable, disk
  <2>3. CASE ReopenAdvisory \/ ReopenStopped BY <2>3 DEF ReopenAdvisory, ReopenStopped
  <2> QED BY <1>5, <2>1, <2>2, <2>3 DEF AnswerN3
<1> QED BY <1>1, <1>2, <1>3, <1>4, <1>5 DEF Thread

LEMMA BudgetCrash ==
  ASSUME KillProcess \/ CrashThread
  PROVE  SameBudget(led, led')
BY BudgetEvents DEF KillProcess, CrashThread, RecordsCrash, disk

\* A start that keeps the ledger keeps its budget; the others leave nothing spent.
LEMMA BudgetStart ==
  ASSUME TypeOK, Start
  PROVE  \/ (StartKept \/ StartIngest) /\ SameBudget(led, led')
         \/ led'.names = {} /\ \A g \in ReworkGates : led'.spent[g] = 0
<1>1. EmptyLedger.names = {} /\ \A g \in ReworkGates : EmptyLedger.spent[g] = 0 BY DEF EmptyLedger
<1>2. \A h : SameBudget(EmptyLedger, Appended(EmptyLedger, RunStarted(h)))
  <2>1. \A h : RunStarted(h).kind = "RUN_STARTED" /\ RunStarted(h).key = "none" BY DEF RunStarted, Note
  <2> QED BY <2>1, BudgetAfter
<1>3. CASE StartFresh \/ StartOver
  <2>1. \E h \in Inputs : led' = Appended(EmptyLedger, RunStarted(h))
    BY <1>3 DEF StartFresh, StartOver, OpenFresh
  <2> QED BY <1>1, <1>2, <2>1 DEF SameBudget
<1>4. CASE StartAttached
  <2> DEFINE m == Appended(EmptyLedger, RunStarted(branch.inputs))
  <2>1. m \in Ledgers BY RunStartedEffect DEF TypeOK, DiskType, Branches
  <2>2. led' = [m EXCEPT !.verdicts =
                  [r \in BuildRole |-> IF r \in Proven THEN "GATE_PASSED" ELSE "none"]]
    BY <1>4 DEF StartAttached
  <2>3. SameBudget(EmptyLedger, m) BY <1>2
  <2> HIDE DEF m
  <2>4. led'.names = m.names /\ led'.spent = m.spent BY <2>1, <2>2 DEF Ledgers
  <2> QED BY <1>1, <2>3, <2>4 DEF SameBudget
<1>5. CASE ResumeFailed
  <2>1. \E m : led' = Appended(m, BudgetReset) BY <1>5 DEF ResumeFailed
  <2>2. BudgetReset.key = "rework_budget_reset" BY DEF BudgetReset, Note
  <2> QED BY <2>1, <2>2 DEF Appended, NamesAfter, SpentAfter
<1>6. CASE StartKept \/ StartIngest BY <1>6, BudgetEvents DEF StartKept, StartIngest, disk
<1> QED BY <1>3, <1>4, <1>5, <1>6 DEF Start

\* A rework round of one gate.
LEMMA ReworkSpends ==
  ASSUME NEW l \in Ledgers, NEW g \in ReworkGates, NEW F, NEW R
  PROVE  LET m == Appended(Appended(l, Note), Rework(g, F, R)) IN
         /\ m.names = l.names \cup F
         /\ \A q \in ReworkGates : m.spent[q] = IF q = g THEN l.spent[q] + 1 ELSE l.spent[q]
         /\ SpentInBuild(m) = SpentInBuild(l) + 1
<1> DEFINE k == Appended(l, Note)
           e == Rework(g, F, R)
<1>1. SameBudget(l, k) BY BudgetEvents
<1>2. e.kind = "REWORK" /\ e.key = "none" /\ e.source = g /\ e.names = F BY DEF Rework, Note
<1> HIDE DEF k, e
<1> DEFINE m == Appended(k, e)
<1>3. m.names = l.names \cup F BY <1>1, <1>2 DEF Appended, NamesAfter, SameBudget
<1>4. \A q \in ReworkGates : m.spent[q] = IF q = g THEN l.spent[q] + 1 ELSE l.spent[q]
  BY <1>1, <1>2 DEF Appended, SpentAfter, SameBudget
<1> HIDE DEF m
<1>5. \A q \in ReworkGates : l.spent[q] \in Nat BY DEF Ledgers
<1>6. SpentInBuild(m) = SpentInBuild(l) + 1
  BY <1>4, <1>5 DEF SpentInBuild, ReworkGates
<1> QED BY <1>3, <1>4, <1>6 DEF m, k, e

-----------------------------------------------------------------------------
(* A WRITER pass is paid for when it is opened: by the run itself, by the    *)
(* pilot cycle, or by a round of one of the three budgets.                   *)

\* The WRITER has a pass to make before this run's next phase.
Due == /\ "WRITER" \notin done
       /\ pc = "pick" \/ (pc \in InPhase \cup {"passed"} /\ phase # "WRITER")

One(b) == IF b THEN 1 ELSE 0

Budgeted ==
  /\ SpentInBuild(led) <= Ceiling /\ \A g \in ReworkGates : led.spent[g] <= GateBudget
  /\ regens <= GateBudget /\ reprompts <= GateBudget
  /\ pc = "entered" => passes = 0
  /\ passes + One(Due) <= 1 + One(cycle = "pilot") + SpentInBuild(led) + regens + reprompts

BInv == TypeOK /\ Budgeted

LEMMA SpentType ==
  ASSUME NEW l \in Ledgers
  PROVE  /\ SpentInBuild(l) \in Nat /\ \A g \in ReworkGates : l.spent[g] \in Nat
         /\ \A m : SameBudget(l, m) => SpentInBuild(m) = SpentInBuild(l)
BY DEF Ledgers, SpentInBuild, ReworkGates, SameBudget

LEMMA OneType ==
  ASSUME NEW b \in BOOLEAN
  PROVE  One(b) \in {0, 1} /\ (b => One(b) = 1) /\ (~b => One(b) = 0)
BY DEF One

\* A step that spends nothing and opens no pass.
LEMMA BudgetKept ==
  ASSUME BInv, SameBudget(led, led'), pc' # "entered", Due' => Due,
         UNCHANGED <<cycle, regens, reprompts, passes>>
  PROVE  Budgeted'
<1>1. led \in Ledgers /\ passes \in Nat /\ regens \in Nat /\ reprompts \in Nat
  BY DEF BInv, TypeOK, DiskType, MemoryType
<1>2. /\ SpentInBuild(led') = SpentInBuild(led) /\ SpentInBuild(led) \in Nat
      /\ \A g \in ReworkGates : led'.spent[g] = led.spent[g]
  BY <1>1, SpentType DEF SameBudget
<1>3. Due \in BOOLEAN /\ Due' \in BOOLEAN BY DEF Due
<1>4. One(Due) \in {0, 1} /\ One(Due') \in {0, 1} /\ One(Due') <= One(Due)
  BY <1>3, OneType
<1>5. One(cycle = "pilot") \in {0, 1} BY OneType
<1> QED BY <1>1, <1>2, <1>4, <1>5 DEF BInv, Budgeted, One

\* A run that begins, or whose thread is gone, has made no pass.
LEMMA BudgetFresh ==
  ASSUME TypeOK', SpentInBuild(led') <= Ceiling,
         \A g \in ReworkGates : led'.spent[g] <= GateBudget,
         regens' = 0, reprompts' = 0, passes' = 0
  PROVE  Budgeted'
<1>1. SpentInBuild(led') \in Nat BY SpentType DEF TypeOK, DiskType
<1>2. Due' \in BOOLEAN BY DEF Due
<1>3. One(Due') \in {0, 1} /\ One(cycle' = "pilot") \in {0, 1} BY <1>2, OneType
<1> QED BY <1>1, <1>3, BudgetAssumption DEF Budgeted, One

LEMMA BudgetDown ==
  ASSUME BInv, TypeOK', SameBudget(led, led'), Down
  PROVE  Budgeted'
<1>1. led \in Ledgers BY DEF BInv, TypeOK, DiskType
<1>2. SpentInBuild(led') = SpentInBuild(led) /\ \A g \in ReworkGates : led'.spent[g] = led.spent[g]
  BY <1>1, SpentType DEF SameBudget
<1> QED BY <1>2, BudgetFresh DEF Down, BInv, Budgeted

LEMMA StartBudgeted ==
  ASSUME BInv, TypeOK', Start
  PROVE  Budgeted'
<1>1. CASE StartIngest
  <2>1. SameBudget(led, led') BY <1>1, BudgetEvents DEF StartIngest, disk
  <2>2. pc' = "ingest" /\ UNCHANGED <<cycle, regens, reprompts, passes>>
    BY <1>1 DEF StartIngest, counters, history
  <2> QED BY <2>1, <2>2, BudgetKept DEF Due, InPhase
<1>2. CASE ~StartIngest
  <2>1. regens' = 0 /\ reprompts' = 0 /\ passes' = 0
    BY <1>2 DEF Start, StartFresh, StartOver, StartAttached, ResumeFailed, StartKept, Launch
  <2>2. led \in Ledgers /\ led' \in Ledgers BY DEF BInv, TypeOK, DiskType
  <2>3. SpentInBuild(led') <= Ceiling /\ \A g \in ReworkGates : led'.spent[g] <= GateBudget
    <3>1. CASE SameBudget(led, led')
      BY <2>2, <3>1, SpentType DEF SameBudget, BInv, Budgeted
    <3>2. CASE \A g \in ReworkGates : led'.spent[g] = 0
      BY <3>2, BudgetAssumption DEF SpentInBuild, ReworkGates
    <3> QED BY <3>1, <3>2, BudgetStart DEF BInv
  <2> QED BY <2>1, <2>3, BudgetFresh
<1> QED BY <1>1, <1>2

LEMMA PreludeBudgeted ==
  ASSUME BInv, TypeOK', RefuseInputs \/ FailPreflight \/ Enter
  PROVE  Budgeted'
<1>1. SameBudget(led, led') BY BudgetThread DEF Thread, ReworkWriter, ReopenRework, Deciding, Halting,
                                                RefuseInputs, FailPreflight, Enter
<1>2. CASE RefuseInputs BY <1>1, <1>2, BudgetDown DEF RefuseInputs, RecordsCrash
<1>3. CASE FailPreflight
  <2>1. pc' = "stopping" /\ UNCHANGED <<cycle, regens, reprompts, passes>>
    BY <1>3 DEF FailPreflight, Stop, counters, history
  <2> QED BY <1>1, <2>1, BudgetKept DEF Due, InPhase
<1>4. CASE Enter
  <2>1. /\ pc = "entered" /\ pc' = "pick" /\ UNCHANGED <<cycle, regens, reprompts, passes>>
    BY <1>4 DEF Enter, counters
  <2>2. led \in Ledgers /\ regens \in Nat /\ reprompts \in Nat BY DEF BInv, TypeOK, DiskType, MemoryType
  <2>3. /\ SpentInBuild(led') = SpentInBuild(led) /\ SpentInBuild(led) \in Nat
        /\ \A g \in ReworkGates : led'.spent[g] = led.spent[g]
    BY <1>1, <2>2, SpentType DEF SameBudget
  <2>4. Due' \in BOOLEAN BY DEF Due
  <2>5. One(Due') \in {0, 1} /\ One(cycle = "pilot") \in {0, 1} BY <2>4, OneType
  <2> QED BY <2>1, <2>2, <2>3, <2>5 DEF BInv, Budgeted, One
<1> QED BY <1>2, <1>3, <1>4

LEMMA PhaseBudgeted ==
  ASSUME BInv, TypeOK', SpendWall \/ RunPhase
  PROVE  Budgeted'
<1>1. SameBudget(led, led')
  <2>1. ~ReworkWriter /\ ~ReopenRework
    BY DEF ReworkWriter, ReopenRework, Deciding, Halting, SpendWall, RunPhase, StartPhase, LeaveLane,
           FailRole, FinishRole, FinishCommit, PassGate, FailGate, HaltStage, Checkpoint, FailCheckpoint,
           PassUnattached, Stop, SendBack, Launch, Advance
  <2> QED BY <2>1, BudgetThread DEF Thread
<1>2. CASE StartPhase
  <2> DEFINE r == NextPhase(done)
  <2>1. r \in BuildRole \ done BY <1>2, NextPhaseType DEF StartPhase, BInv, TypeOK, MemoryType
  <2>2. /\ pc = "pick" /\ pc' = "role" /\ phase' = r /\ done' = done
        /\ passes' = IF r = "WRITER" /\ passes < PassBound THEN passes + 1 ELSE passes
        /\ UNCHANGED <<cycle, regens, reprompts>>
    BY <1>2 DEF StartPhase, counters
  <2> HIDE DEF r
  <2>3. CASE r # "WRITER"
    BY <1>1, <2>2, <2>3, BudgetKept DEF Due, InPhase
  <2>4. CASE r = "WRITER"
    <3>1. Due /\ ~Due' BY <2>1, <2>2, <2>4 DEF Due, InPhase
    <3>2. led \in Ledgers /\ passes \in Nat /\ regens \in Nat /\ reprompts \in Nat
      BY DEF BInv, TypeOK, DiskType, MemoryType
    <3>3. /\ SpentInBuild(led') = SpentInBuild(led) /\ SpentInBuild(led) \in Nat
          /\ \A g \in ReworkGates : led'.spent[g] = led.spent[g]
      BY <1>1, <3>2, SpentType DEF SameBudget
    <3>4. One(Due) = 1 /\ One(Due') = 0 /\ One(cycle = "pilot") \in {0, 1} BY <3>1, OneType DEF One
    <3>5. passes' <= passes + 1 /\ passes' \in Nat BY <2>2, <3>2
    <3> QED BY <2>2, <3>2, <3>3, <3>4, <3>5 DEF BInv, Budgeted
  <2> QED BY <2>3, <2>4
<1>3. CASE SpendWall \/ LeaveLane \/ HaltStage \/ FailCheckpoint
  <2>1. pc' = "stopping" /\ UNCHANGED <<cycle, regens, reprompts, passes>>
    BY <1>3 DEF SpendWall, LeaveLane, HaltStage, FailCheckpoint, Stop, counters, history
  <2> QED BY <1>1, <2>1, BudgetKept DEF Due, InPhase
<1>4. CASE FailRole \/ Checkpoint \/ PassUnattached
  <2>1. /\ pc \in {"role", "passed"} /\ UNCHANGED <<cycle, regens, reprompts, passes>>
        /\ \/ pc' = "stopping"
           \/ pc' = "pick" /\ done' = done \cup {phase}
    BY <1>4 DEF FailRole, Checkpoint, PassUnattached, Stop, Advance, counters, history
  <2> QED BY <1>1, <2>1, BudgetKept DEF Due, InPhase
<1>5. CASE FinishRole \/ FinishCommit \/ PassGate \/ FailGate
  <2>1. /\ pc \in InPhase /\ pc' \in InPhase \cup {"passed"} /\ done' = done /\ phase' = phase
        /\ UNCHANGED <<cycle, regens, reprompts, passes>>
    BY <1>5 DEF FinishRole, FinishCommit, PassGate, FailGate, InPhase, counters, history
  <2> QED BY <1>1, <2>1, BudgetKept DEF Due, InPhase
<1> QED BY <1>2, <1>3, <1>4, <1>5 DEF RunPhase

LEMMA DecideBudgeted ==
  ASSUME BInv, TypeOK', Decide
  PROVE  Budgeted'
<1>0. /\ pc = "failed" /\ cycle' = cycle /\ passes' = passes
      /\ led \in Ledgers /\ passes \in Nat /\ regens \in Nat /\ reprompts \in Nat
  BY DEF BInv, TypeOK, DiskType, MemoryType, Decide, CollectFinding, HandOff, FailTerminal, PassAdvisory,
         RegenerateTest, Reprompt, StopUnowned, StopTwice, StopSpent, StopForeman, ReworkWriter, Deciding,
         Halting, history
<1>1. CASE CollectFinding \/ HandOff \/ FailTerminal \/ PassAdvisory \/ StopUnowned \/ StopTwice
             \/ StopSpent \/ StopForeman
  <2>1. /\ regens' = regens /\ reprompts' = reprompts
        /\ \/ pc' = "stopping"
           \/ pc' = "pick" /\ done' = done \cup {phase}
    BY <1>1 DEF CollectFinding, HandOff, FailTerminal, PassAdvisory, StopUnowned, StopTwice, StopSpent,
                StopForeman, Stop, Advance, counters
  <2>2. SameBudget(led, led')
    <3>1. \E g \in BuildRole \cup {"none"} :
            led' \in {led, Appended(led, Note), Appended(Appended(led, Note), GatePassed(g))}
      BY <1>1 DEF CollectFinding, HandOff, FailTerminal, PassAdvisory, StopUnowned, StopTwice, StopSpent,
                  StopForeman, disk, BInv, TypeOK, MemoryType
    <3> QED BY <3>1, BudgetEvents, BudgetChain
  <2> QED BY <1>0, <2>1, <2>2, BudgetKept DEF Due, InPhase
\* What a WRITER sent back is paid with.
<1>2. /\ Due' \in BOOLEAN /\ Due \in BOOLEAN /\ One(Due') \in {0, 1} /\ One(Due) \in {0, 1}
      /\ One(cycle = "pilot") \in {0, 1}
  <2>1. Due' \in BOOLEAN /\ Due \in BOOLEAN BY DEF Due
  <2> QED BY <2>1, OneType
<1>3. CASE RegenerateTest \/ Reprompt
  <2>1. SameBudget(led, led')
    BY <1>3, BudgetEvents, BudgetChain DEF RegenerateTest, Reprompt
  <2>2. /\ SpentInBuild(led') = SpentInBuild(led) /\ SpentInBuild(led) \in Nat
        /\ \A g \in ReworkGates : led'.spent[g] = led.spent[g]
    BY <1>0, <2>1, SpentType DEF SameBudget
  <2>3. /\ pc' = "pick"
        /\ \/ regens < GateBudget /\ regens' = regens + 1 /\ reprompts' = reprompts
           \/ reprompts < GateBudget /\ reprompts' = reprompts + 1 /\ regens' = regens
    BY <1>3 DEF RegenerateTest, Reprompt, SendBack
  <2> QED BY <1>0, <1>2, <2>2, <2>3, BudgetAssumption DEF BInv, Budgeted
<1>4. CASE ReworkWriter
  <2>1. /\ led' = Appended(Appended(led, Note), Rework(phase, verdict.names, {}))
        /\ phase \in ReworkGates /\ led.spent[phase] < GateBudget /\ SpentInBuild(led) < Ceiling
        /\ pc' = "pick" /\ regens' = regens /\ reprompts' = reprompts
    <3>1. phase \in ReworkGates BY <1>4 DEF ReworkWriter, Deciding, ReworkGates
    <3>2. led.spent[phase] \in Nat /\ SpentInBuild(led) \in Nat BY <1>0, <3>1, SpentType
    <3> QED BY <1>4, <3>1, <3>2, BudgetAssumption
            DEF ReworkWriter, MayRework, GateSpent, CeilingReached, SendBack, counters
  <2>2. /\ SpentInBuild(led') = SpentInBuild(led) + 1
        /\ \A g \in ReworkGates : led'.spent[g] = IF g = phase THEN led.spent[g] + 1 ELSE led.spent[g]
    BY <1>0, <2>1, ReworkSpends
  <2>3. SpentInBuild(led) \in Nat /\ \A g \in ReworkGates : led.spent[g] \in Nat BY <1>0, SpentType
  <2> QED BY <1>0, <1>2, <2>1, <2>2, <2>3, BudgetAssumption DEF BInv, Budgeted
<1> QED BY <1>1, <1>3, <1>4 DEF Decide

LEMMA CloseBudgeted ==
  ASSUME BInv, TypeOK', Close
  PROVE  Budgeted'
<1>1. SameBudget(led, led')
  <2>1. ~ReworkWriter /\ ~ReopenRework
    BY DEF ReworkWriter, ReopenRework, Deciding, Halting, Close, Report, OpenAutoPilot, Succeed,
           FinishFailed, FinishSuccess, AllDone
  <2> QED BY <2>1, BudgetThread DEF Thread
<1>2. CASE Report \/ Succeed
  <2>1. pc' = "stopping" /\ UNCHANGED <<cycle, regens, reprompts, passes>>
    BY <1>2 DEF Report, Succeed, Stop, counters, history
  <2> QED BY <1>1, <2>1, BudgetKept DEF Due, InPhase
<1>3. CASE OpenAutoPilot
  <2>1. /\ ~Due /\ cycle = "code" /\ cycle' = "pilot" /\ pc' = "pick"
        /\ UNCHANGED <<regens, reprompts, passes>>
    BY <1>3 DEF OpenAutoPilot, AllDone, Due, BuildRole, counters, history
  <2>2. led \in Ledgers /\ passes \in Nat /\ regens \in Nat /\ reprompts \in Nat
    BY DEF BInv, TypeOK, DiskType, MemoryType
  <2>3. /\ SpentInBuild(led') = SpentInBuild(led) /\ SpentInBuild(led) \in Nat
        /\ \A g \in ReworkGates : led'.spent[g] = led.spent[g]
    BY <1>1, <2>2, SpentType DEF SameBudget
  <2>4. Due' \in BOOLEAN BY DEF Due
  <2>5. One(Due') \in {0, 1} /\ One(Due) = 0 BY <2>1, <2>4, OneType DEF One
  <2>6. One(cycle = "pilot") = 0 /\ One(cycle' = "pilot") = 1 BY <2>1 DEF One
  <2> QED BY <2>1, <2>2, <2>3, <2>5, <2>6 DEF BInv, Budgeted
<1>4. CASE FinishFailed \/ FinishSuccess
  <2>1. CASE Down BY <1>1, <2>1, BudgetDown
  <2>2. CASE pc' = "n3" /\ UNCHANGED Held
    BY <1>1, <2>2, BudgetKept DEF Held, counters, Due, InPhase
  <2> QED BY <1>4, <2>1, <2>2 DEF FinishFailed, FinishSuccess
<1> QED BY <1>2, <1>3, <1>4 DEF Close

LEMMA AnswerBudgeted ==
  ASSUME BInv, TypeOK', AnswerN3
  PROVE  Budgeted'
<1>1. CASE ReopenRework
  <2>1. /\ led' = Appended(Appended(led, Note),
                    Rework("STORE_MANAGER", verdict.names, {"WRITER", "TESTER", "STORE_MANAGER"}))
        /\ regens' = 0 /\ reprompts' = 0 /\ passes' = 0
        /\ ~(led.spent["STORE_MANAGER"] >= GateBudget) /\ ~(SpentInBuild(led) >= Ceiling)
    BY <1>1 DEF ReopenRework, MayRework, GateSpent, CeilingReached, Launch
  <2>2. led \in Ledgers /\ "STORE_MANAGER" \in ReworkGates
    BY DEF BInv, TypeOK, DiskType, ReworkGates
  <2>3. SpentInBuild(led) \in Nat /\ \A g \in ReworkGates : led.spent[g] \in Nat BY <2>2, SpentType
  <2>4. /\ SpentInBuild(led') = SpentInBuild(led) + 1
        /\ \A g \in ReworkGates :
             led'.spent[g] = IF g = "STORE_MANAGER" THEN led.spent[g] + 1 ELSE led.spent[g]
    BY <2>1, <2>2, ReworkSpends
  <2>5. SpentInBuild(led') <= Ceiling /\ \A g \in ReworkGates : led'.spent[g] <= GateBudget
    BY <2>1, <2>2, <2>3, <2>4, BudgetAssumption DEF BInv, Budgeted
  <2> QED BY <2>1, <2>5, BudgetFresh
<1>2. CASE ~ReopenRework
  <2>1. SameBudget(led, led')
    <3>1. ~ReworkWriter
      BY DEF ReworkWriter, Deciding, Halting, AnswerN3, N3Green, N3NotProduct, N3Product, N3Unreachable,
             Waiting, ReopenAdvisory, ReopenStopped, ReopenRework
    <3> QED BY <1>2, <3>1, BudgetThread DEF Thread
  <2>2. \/ Down
        \/ pc' = "reopen" /\ UNCHANGED <<cycle, regens, reprompts, passes>>
    BY <1>2 DEF AnswerN3, N3Green, N3NotProduct, N3Product, N3Unreachable, ReopenAdvisory, ReopenStopped,
                counters
  <2> QED BY <2>1, <2>2, BudgetDown, BudgetKept DEF Due, InPhase
<1> QED BY <1>1, <1>2

LEMMA InitBudgeted == Init => BInv
<1> SUFFICES ASSUME Init PROVE Budgeted BY InitType DEF BInv
<1>1. SpentInBuild(led) = 0 /\ \A g \in ReworkGates : led.spent[g] = 0
  BY DEF Init, EmptyLedger, SpentInBuild, ReworkGates
<1>2. ~Due /\ cycle = "code" BY DEF Init, Due, InPhase
<1> QED BY <1>1, <1>2, BudgetAssumption DEF Init, Budgeted, One

LEMMA NextBudgeted ==
  ASSUME BInv, [Next]_vars
  PROVE  BInv'
<1>1. TypeOK' BY NextType DEF BInv
<1>2. CASE UNCHANGED vars
  BY <1>1, <1>2 DEF vars, disk, memory, history, bounds, BInv, Budgeted, Due
<1>3. CASE Next
  <2>1. CASE KillProcess \/ CrashThread
    <3>1. Down BY <2>1 DEF KillProcess, CrashThread, RecordsCrash
    <3> QED BY <1>1, <2>1, <3>1, BudgetCrash, BudgetDown DEF BInv
  <2>2. CASE ~(KillProcess \/ CrashThread)
    BY <1>1, <1>3, <2>2, StartBudgeted, PreludeBudgeted, PhaseBudgeted, DecideBudgeted, CloseBudgeted,
       AnswerBudgeted
       DEF Next, Thread, BInv
  <2> QED BY <2>1, <2>2
<1> QED BY <1>2, <1>3

\* No run() makes more WRITER passes than its budgets add up to, and no build more
\* rework rounds than its gates and the ceiling allow, however many times it is resumed
\* on the same budget, collects failures or is handed off and re-opened.
THEOREM ReworkEnds == Spec => []ReworkBounded
<1>1. BInv /\ [Next]_vars => BInv' BY NextBudgeted
<1>2. BInv => ReworkBounded
  <2> SUFFICES ASSUME BInv PROVE ReworkBounded OBVIOUS
  <2>1. led \in Ledgers /\ passes \in Nat /\ regens \in Nat /\ reprompts \in Nat
    BY DEF BInv, TypeOK, DiskType, MemoryType
  <2>2. SpentInBuild(led) \in Nat BY <2>1, SpentType
  <2>3. Due \in BOOLEAN BY DEF Due
  <2>4. One(Due) \in {0, 1} /\ One(cycle = "pilot") \in {0, 1} BY <2>3, OneType
  <2>5. passes <= 2 + Ceiling + 2 * GateBudget
    BY <2>1, <2>2, <2>4, BudgetAssumption DEF BInv, Budgeted
  <2> QED BY <2>5 DEF BInv, Budgeted, ReworkBounded, PassLimit
<1> QED BY <1>1, <1>2, InitBudgeted, PTL DEF Spec

-----------------------------------------------------------------------------
(* The WRITER hears what it is failed for.  A declared build level appends a *)
(* NOTE after the REWORK that re-opens a run, and a crash loses the work     *)
(* list: the claim is of builds without the one, as long as there was none   *)
(* of the other, whether it collects failures or not: a run that reworks     *)
(* does not collect.                                                         *)

\* Failures a rework round was opened for that no finished WRITER pass was told of.
Owed == led.names \ heard

\* A run asked for the pilot cycle is in it, unless it found every phase done.
Piloted(l) == l.green => l.pilot

InPilot ==
  suite = "pilot" =>
    /\ pc \notin {"down", "ingest"} => cycle = "pilot"
    /\ pc \in InPhase \cup {"passed", "n3", "reopen"} => Piloted(led)
    /\ pc = "pick" => Piloted(led) \/ done = BuildRole
    /\ pc = "stopping" /\ ending.outcome = "HANDOFF_TO_N3" => Piloted(led)

\* What is owed is on its way to the WRITER -- re-opened for a run that is about to
\* read it, or on the list of the WRITER pass that is next or runs, in a run that
\* stops where it fails -- or the run has failed, and a start resets the budget.
OnItsWay ==
  /\ pc \in {"entered", "pick", "role", "stopping", "down"}
  /\ pc \in {"entered", "pick", "role"} => ~collecting
  /\ pc = "entered" => /\ Owed \subseteq led.reopening /\ ~MayOpenPilot(led)
                       /\ led.terminal.kind # "RUN_FAILED" /\ ResumePoint(led) = "WRITER"
  /\ pc = "pick" => Owed \subseteq work /\ done # BuildRole /\ NextPhase(done) = "WRITER"
  /\ pc = "role" => Owed \subseteq work /\ phase = "WRITER"
  /\ pc = "stopping" => ending.outcome \notin {"SUCCESS", "HANDOFF_TO_N3"}
  /\ pc = "down" => led.terminal.kind = "RUN_FAILED" /\ ~led.handoff

Heeded == (Owed # {} => OnItsWay) /\ HeardBeforeStop

HearInv == RInv /\ InPilot /\ (crashes = 0 => Heeded)

LEMMA PilotedAfter ==
  ASSUME NEW l, NEW e, (Piloted(l) /\ e.kind # "RUN_SUCCEEDED") \/ e.kind = "PILOT_OPENED"
  PROVE  Piloted(Appended(l, e))
BY DEF Piloted, Appended, GreenAfter, PilotAfter

LEMMA PilotedEvents ==
  ASSUME NEW l
  PROVE  /\ \A b : Piloted(Appended(l, PilotOpened(b)))
         /\ Piloted(l) =>
              /\ Piloted(Appended(l, Note))
              /\ \A r : /\ Piloted(Appended(l, PhaseStarted(r))) /\ Piloted(Appended(l, GatePassed(r)))
                        /\ Piloted(Appended(l, GateFailed(r))) /\ Piloted(Appended(l, PhaseAborted(r)))
              /\ \A g, F, R : Piloted(Appended(l, Rework(g, F, R)))
              /\ \A r, o, F : Piloted(Appended(l, RunFailed(r, o, F)))
              /\ \A F : Piloted(Appended(l, N3Failed(F)))
<1>1. Note.kind # "RUN_SUCCEEDED" BY DEF Note
<1>2. \A b : PilotOpened(b).kind = "PILOT_OPENED" BY DEF Note, PilotOpened
<1>3. \A r : /\ PhaseStarted(r).kind # "RUN_SUCCEEDED" /\ GatePassed(r).kind # "RUN_SUCCEEDED"
             /\ GateFailed(r).kind # "RUN_SUCCEEDED" /\ PhaseAborted(r).kind # "RUN_SUCCEEDED"
  BY DEF Note, PhaseStarted, GatePassed, GateFailed, PhaseAborted
<1>4. \A g, F, R : Rework(g, F, R).kind # "RUN_SUCCEEDED" BY DEF Note, Rework
<1>5. \A r, o, F : RunFailed(r, o, F).kind # "RUN_SUCCEEDED" BY DEF Note, RunFailed
<1>6. \A F : N3Failed(F).kind # "RUN_SUCCEEDED" BY DEF Note, RunFailed, N3Failed
<1> QED BY <1>1, <1>2, <1>3, <1>4, <1>5, <1>6, PilotedAfter

LEMMA InPilotDown ==
  ASSUME Down
  PROVE  InPilot'
BY DEF Down, InPilot

\* A step inside a run that is in its pilot cycle stays in it.
LEMMA InPilotKept ==
  ASSUME InPilot, UNCHANGED <<suite, cycle>>, pc \notin {"down", "ingest"},
         pc' # "entered", Piloted(led) => Piloted(led'),
         pc \in InPhase \cup {"passed", "n3", "reopen"}
           \/ (pc = "pick" /\ done # BuildRole)
           \/ (pc = "stopping" /\ ending.outcome = "HANDOFF_TO_N3")
  PROVE  InPilot'
BY DEF InPilot

LEMMA PilotStart ==
  ASSUME Start
  PROVE  InPilot'
<1>1. CASE StartIngest BY <1>1 DEF StartIngest, InPilot, InPhase
<1>2. CASE ~StartIngest
  <2>1. pc' = "entered" /\ cycle' = suite'
    BY <1>2 DEF Start, StartFresh, StartOver, StartAttached, ResumeFailed, StartKept, Launch
  <2> QED BY <2>1 DEF InPilot, InPhase
<1> QED BY <1>1, <1>2

LEMMA PilotPrelude ==
  ASSUME RInv, InPilot, RefuseInputs \/ FailPreflight \/ Enter
  PROVE  InPilot'
<1>1. CASE RefuseInputs BY <1>1, InPilotDown DEF RefuseInputs, RecordsCrash
<1>2. CASE FailPreflight
  BY <1>2 DEF FailPreflight, Stop, InPilot, InPhase, request
<1>3. CASE Enter
  <2>1. PICK opens \in BOOLEAN, reopenWriter \in BOOLEAN :
          /\ MayOpenPilot(led) /\ ~PilotReady(led) => opens
          /\ led' = IF opens THEN OpenPilot(LevelNoted(led), reopenWriter) ELSE LevelNoted(led)
    BY <1>3 DEF Enter
  <2>2. pc = "entered" /\ pc' = "pick" /\ UNCHANGED <<suite, cycle>> /\ done' = Completed(led')
    BY <1>3 DEF Enter, DoneAtEntry, request
  <2>3. led \in Ledgers BY DEF RInv, AInv, TypeOK, DiskType
  <2>4. suite = "pilot" => Piloted(led') \/ done' = BuildRole
    <3>1. CASE opens BY <2>1, <3>1, PilotedEvents DEF OpenPilot
    <3>2. CASE ~opens /\ Piloted(led) BY <2>1, <3>2, PilotedEvents DEF LevelNoted
    <3>3. CASE ~opens /\ ~Piloted(led) /\ suite = "pilot"
      <4>1. led.terminal.kind = "RUN_SUCCEEDED"
        BY <2>1, <3>3 DEF MayOpenPilot, Piloted, PilotReady
      <4>2. Completed(led) = BuildRole BY <4>1 DEF RInv, Claimed
      <4> QED BY <2>1, <2>2, <2>3, <3>3, <4>2, LevelNotedEffect
    <3> QED BY <3>1, <3>2, <3>3
  <2> QED BY <2>2, <2>4 DEF InPilot, InPhase
<1> QED BY <1>1, <1>2, <1>3

LEMMA PilotPhase ==
  ASSUME RInv, InPilot, SpendWall \/ RunPhase
  PROVE  InPilot'
<1>1. /\ UNCHANGED <<suite, cycle>> /\ pc' # "entered"
      /\ pc \in InPhase \cup {"passed"} \/ (pc = "pick" /\ done # BuildRole)
  BY DEF SpendWall, RunPhase, StartPhase, LeaveLane, FailRole, FinishRole, FinishCommit, PassGate, FailGate,
         HaltStage, Checkpoint, FailCheckpoint, PassUnattached, Stop, Advance, InPhase, request
<1>2. Piloted(led) => Piloted(led')
  BY PilotedEvents
     DEF SpendWall, RunPhase, StartPhase, LeaveLane, FailRole, FinishRole, FinishCommit, PassGate, FailGate,
         HaltStage, Checkpoint, FailCheckpoint, PassUnattached, disk
<1> QED BY <1>1, <1>2, InPilotKept DEF InPhase

LEMMA PilotDecide ==
  ASSUME RInv, InPilot, Decide
  PROVE  InPilot'
<1>1. UNCHANGED <<suite, cycle>> /\ pc' # "entered" /\ pc = "failed"
  BY DEF Decide, CollectFinding, HandOff, FailTerminal, PassAdvisory, RegenerateTest, Reprompt, StopUnowned,
         StopTwice, StopSpent, StopForeman, ReworkWriter, Deciding, Halting, Stop, Advance, SendBack, request
<1>2. Piloted(led) => Piloted(led')
  BY PilotedEvents
     DEF Decide, CollectFinding, HandOff, FailTerminal, PassAdvisory, RegenerateTest, Reprompt, StopUnowned,
         StopTwice, StopSpent, StopForeman, ReworkWriter, disk
<1> QED BY <1>1, <1>2, InPilotKept DEF InPhase

LEMMA PilotClose ==
  ASSUME RInv, InPilot, Close
  PROVE  InPilot'
<1>1. CASE Report \/ Succeed
  BY <1>1 DEF Report, Succeed, AllDone, Stop, InPilot, InPhase, request
<1>2. CASE OpenAutoPilot
  BY <1>2 DEF OpenAutoPilot, AllDone, InPilot, InPhase, request
<1>3. CASE FinishFailed
  <2>1. CASE ending.outcome = "HANDOFF_TO_N3"
    <3>1. pc = "stopping" /\ pc' = "n3" /\ UNCHANGED <<suite, cycle>>
          /\ led' = Appended(led, RunFailed(ending.role, ending.outcome, ending.names))
      BY <1>3, <2>1 DEF FinishFailed, Held, request
    <3> QED BY <2>1, <3>1, PilotedEvents, InPilotKept
  <2>2. CASE ending.outcome # "HANDOFF_TO_N3" BY <1>3, <2>2, InPilotDown DEF FinishFailed
  <2> QED BY <2>1, <2>2
<1>4. CASE FinishSuccess BY <1>4, InPilotDown DEF FinishSuccess
<1> QED BY <1>1, <1>2, <1>3, <1>4 DEF Close

LEMMA PilotAnswer ==
  ASSUME RInv, InPilot, AnswerN3
  PROVE  InPilot'
<1>1. CASE Down BY <1>1, InPilotDown
<1>2. CASE N3Product /\ ~Down
  <2>1. pc = "n3" /\ pc' = "reopen" /\ UNCHANGED <<suite, cycle>> /\ \E F : led' = Appended(led, N3Failed(F))
    BY <1>2 DEF N3Product, Waiting, request
  <2> QED BY <2>1, PilotedEvents, InPilotKept
<1>3. CASE ReopenRework
  BY <1>3 DEF ReopenRework, Launch, InPilot, InPhase
<1> QED BY <1>1, <1>2, <1>3
        DEF AnswerN3, N3Green, N3NotProduct, N3Unreachable, ReopenAdvisory, ReopenStopped

-----------------------------------------------------------------------------
LEMMA NothingOwed ==
  ASSUME Owed' = {}
  PROVE  Heeded'
BY DEF Heeded, Owed, HeardBeforeStop

LEMMA StillNothingOwed ==
  ASSUME Owed = {}, SameBudget(led, led'), heard \subseteq heard'
  PROVE  Heeded'
<1>1. Owed' = {} BY DEF Owed, SameBudget
<1> QED BY <1>1, NothingOwed

LEMMA FailedRunIsHeeded ==
  ASSUME pc' = "down", led'.terminal.kind = "RUN_FAILED", ~led'.handoff
  PROVE  Heeded'
BY DEF Heeded, OnItsWay, HeardBeforeStop

LEMMA StoppedRunIsHeeded ==
  ASSUME pc' = "stopping", ending'.outcome \notin {"SUCCESS", "HANDOFF_TO_N3"},
         ending'.outcome = "FAILED_GATE" => ending'.names = {}
  PROVE  Heeded'
BY DEF Heeded, OnItsWay, HeardBeforeStop

LEMMA StartHeeded ==
  ASSUME RInv, Heeded, Start
  PROVE  Heeded'
<1>1. CASE StartKept \/ StartIngest
  <2>1. led' = led /\ heard' = heard /\ pc = "down"
    BY <1>1 DEF StartKept, StartIngest, CanStart, disk, history
  <2>2. ~(led.terminal.kind = "RUN_FAILED" /\ ~led.handoff)
    BY <1>1 DEF StartKept, StartIngest, ReadsStalled, ReadsSucceeded, AwaitsN3
  <2>3. Owed' = {} BY <2>1, <2>2 DEF Heeded, OnItsWay, Owed
  <2> QED BY <2>3, NothingOwed
<1>2. CASE ~StartKept /\ ~StartIngest
  <2>1. led'.names = {} BY <1>2, BudgetStart DEF RInv, AInv, Start
  <2> QED BY <2>1, NothingOwed DEF Owed
<1> QED BY <1>1, <1>2

LEMMA PreludeHeeded ==
  ASSUME Declared = {}, RInv, Heeded, RefuseInputs \/ FailPreflight \/ Enter
  PROVE  Heeded'
<1>0. led \in Ledgers /\ ~led.handoff
  BY RIdle DEF RefuseInputs, FailPreflight, Enter
<1>1. CASE RefuseInputs
  <2>1. led' = Appended(led, RunFailed("none", "none", {})) /\ pc' = "down"
    BY <1>1 DEF RefuseInputs, RecordsCrash, Down
  <2>2. led'.terminal.kind = "RUN_FAILED" /\ ~led'.handoff BY <1>0, <2>1, FailedEffect
  <2> QED BY <2>1, <2>2, FailedRunIsHeeded
<1>2. CASE FailPreflight BY <1>2, StoppedRunIsHeeded DEF FailPreflight, Stop
<1>3. CASE Enter
  <2>1. pc = "entered" /\ pc' = "pick" /\ UNCHANGED <<heard, collecting>>
    BY <1>3 DEF Enter, request
  <2>2. SameBudget(led, led') BY <1>3, BudgetOpening DEF Enter
  <2>3. CASE Owed = {} BY <2>1, <2>2, <2>3, StillNothingOwed
  <2>4. CASE Owed # {}
    <3>1. /\ Owed \subseteq led.reopening /\ ~MayOpenPilot(led)
          /\ led.terminal.kind # "RUN_FAILED" /\ ResumePoint(led) = "WRITER" /\ ~collecting
      BY <2>1, <2>4 DEF Heeded, OnItsWay
    <3>2. led' = led BY <1>3, <3>1 DEF Enter, LevelNoted
    <3>3. done' = Completed(led) /\ work' = led.reopening
      BY <1>3, <3>1, <3>2 DEF Enter, DoneAtEntry, Seed
    <3>4. NextPhase(done') = "WRITER" /\ done' # BuildRole
      BY <3>1, <3>3 DEF ResumePoint, NextPhase
    <3>5. Owed' \subseteq work' BY <2>1, <3>1, <3>2, <3>3 DEF Owed
    <3> QED BY <2>1, <3>1, <3>4, <3>5 DEF Heeded, OnItsWay, HeardBeforeStop
  <2> QED BY <2>3, <2>4
<1> QED BY <1>1, <1>2, <1>3

LEMMA PhaseHeeded ==
  ASSUME RInv, Heeded, SpendWall \/ RunPhase
  PROVE  Heeded'
<1>1. SameBudget(led, led')
  <2>1. ~ReworkWriter /\ ~ReopenRework
    BY DEF ReworkWriter, ReopenRework, Deciding, Halting, SpendWall, RunPhase, StartPhase, LeaveLane,
           FailRole, FinishRole, FinishCommit, PassGate, FailGate, HaltStage, Checkpoint, FailCheckpoint,
           PassUnattached, Stop, SendBack, Launch, Advance
  <2> QED BY <2>1, BudgetThread DEF Thread
<1>2. heard \subseteq heard'
  BY DEF SpendWall, RunPhase, StartPhase, LeaveLane, FailRole, FinishRole, FinishCommit, PassGate,
         FailGate, HaltStage, Checkpoint, FailCheckpoint, PassUnattached, history
<1>3. CASE Owed = {} BY <1>1, <1>2, <1>3, StillNothingOwed
<1>4. CASE Owed # {}
  <2>1. OnItsWay BY <1>4 DEF Heeded
  <2>2. CASE SpendWall \/ LeaveLane \/ FailRole
    BY <2>1, <2>2, StoppedRunIsHeeded DEF SpendWall, LeaveLane, FailRole, Stop, OnItsWay
  <2>3. CASE StartPhase
    <3>1. Owed' \subseteq Owed BY <1>1, <1>2 DEF Owed, SameBudget
    <3>2. pc = "pick" /\ pc' = "role" /\ phase' = NextPhase(done)
          /\ UNCHANGED <<work, collecting>>
      BY <2>3 DEF StartPhase, request
    <3> QED BY <2>1, <3>1, <3>2 DEF Heeded, OnItsWay, HeardBeforeStop
  <2>4. CASE FinishRole
    <3>1. phase = "WRITER" /\ Owed \subseteq work BY <2>1, <2>4 DEF FinishRole, OnItsWay
    <3>2. heard' = heard \cup work /\ led' = led BY <2>4, <3>1 DEF FinishRole
    <3> QED BY <3>1, <3>2, NothingOwed DEF Owed
  <2>5. ~(FinishCommit \/ PassGate \/ FailGate \/ HaltStage \/ Checkpoint \/ FailCheckpoint \/ PassUnattached)
    BY <2>1 DEF OnItsWay, FinishCommit, PassGate, FailGate, HaltStage, Checkpoint, FailCheckpoint,
                PassUnattached
  <2> QED BY <2>2, <2>3, <2>4, <2>5 DEF RunPhase
<1> QED BY <1>3, <1>4

\* What passed before the WRITER brings the WRITER next, whatever else passed.
LEMMA WriterIsNext ==
  ASSUME NEW S \in SUBSET BuildRole, Earlier("WRITER") \subseteq S, "WRITER" \notin S
  PROVE  S # BuildRole /\ NextPhase(S) = "WRITER"
<1>1. "WRITER" \in BuildRole BY DEF BuildRole
<1>2. NextPhase(S) \in BuildRole \ S /\ Earlier(NextPhase(S)) \subseteq S BY <1>1, NextPhaseType
<1> QED BY <1>1, <1>2, EarlierIsLinear

LEMMA DecideHeeded ==
  ASSUME RInv, Heeded, Decide
  PROVE  Heeded'
<1>1. pc = "failed" /\ heard' = heard
  BY DEF Decide, CollectFinding, HandOff, FailTerminal, PassAdvisory, RegenerateTest, Reprompt, StopUnowned,
         StopTwice, StopSpent, StopForeman, ReworkWriter, Deciding, Halting, history
<1>2. Owed = {} BY <1>1 DEF Heeded, OnItsWay
<1>3. CASE ~ReworkWriter
  <2>1. ~ReopenRework BY <1>1 DEF ReopenRework
  <2>2. SameBudget(led, led') BY <1>3, <2>1, BudgetThread DEF Thread
  <2> QED BY <1>1, <1>2, <2>2, StillNothingOwed
<1>4. CASE ReworkWriter
  <2>1. /\ led' = Appended(Appended(led, Note), Rework(phase, verdict.names, {}))
        /\ phase \in {"WRITER", "TESTER"} /\ done' = done \ {"WRITER"} /\ work' = verdict.names
        /\ pc' = "pick" /\ ~collecting /\ collecting' = collecting
    BY <1>4 DEF ReworkWriter, Deciding, Halting, SendBack, request
  <2>2. led \in Ledgers /\ done \in SUBSET BuildRole /\ Earlier(phase) \subseteq done
    BY <1>1 DEF RInv, AInv, TypeOK, DiskType, MemoryType, Remembered, InPhase, OnPhase
  <2>3. led'.names = led.names \cup verdict.names BY <2>1, <2>2, ReworkSpends DEF ReworkGates
  <2>4. Owed' \subseteq work' BY <1>1, <1>2, <2>1, <2>3 DEF Owed
  <2>5. Earlier("WRITER") \subseteq done' BY <2>1, <2>2, EarlierOf
  <2>6. done' # BuildRole /\ NextPhase(done') = "WRITER" BY <2>1, <2>2, <2>5, WriterIsNext
  <2> QED BY <2>1, <2>4, <2>6 DEF Heeded, OnItsWay, HeardBeforeStop
<1> QED BY <1>3, <1>4

LEMMA CloseHeeded ==
  ASSUME RInv, Heeded, Close
  PROVE  Heeded'
<1>1. SameBudget(led, led')
  <2>1. ~ReworkWriter /\ ~ReopenRework
    BY DEF ReworkWriter, ReopenRework, Deciding, Halting, Close, Report, OpenAutoPilot, Succeed,
           FinishFailed, FinishSuccess, AllDone
  <2> QED BY <2>1, BudgetThread DEF Thread
<1>2. heard' = heard
  BY DEF Close, Report, OpenAutoPilot, Succeed, FinishFailed, FinishSuccess, history
<1>3. CASE Owed = {} BY <1>1, <1>2, <1>3, StillNothingOwed
<1>4. CASE Owed # {}
  <2>1. OnItsWay BY <1>4 DEF Heeded
  <2>2. FinishFailed /\ ending.outcome # "HANDOFF_TO_N3"
    BY <2>1 DEF OnItsWay, Close, Report, OpenAutoPilot, Succeed, FinishFailed, FinishSuccess, AllDone
  <2>3. pc = "stopping" /\ pc' = "down"
        /\ led' = Appended(led, RunFailed(ending.role, ending.outcome, ending.names))
    BY <2>2 DEF FinishFailed, Down
  <2>4. led \in Ledgers /\ ~led.handoff
    BY <2>3, RIdle
  <2>5. led'.terminal.kind = "RUN_FAILED" /\ ~led'.handoff BY <2>2, <2>3, <2>4, FailedEffect
  <2> QED BY <2>3, <2>5, FailedRunIsHeeded
<1> QED BY <1>3, <1>4

\* A REWORK that re-opens a run is the last event, and what the next run is told.
LEMMA ReopeningIsRead ==
  ASSUME NEW l, NEW F
  PROVE  Appended(l, Rework("STORE_MANAGER", F, {"WRITER", "TESTER", "STORE_MANAGER"})).reopening = F
<1> DEFINE e == Rework("STORE_MANAGER", F, {"WRITER", "TESTER", "STORE_MANAGER"})
<1>1. e.kind = "REWORK" /\ e.reopen = {"WRITER", "TESTER", "STORE_MANAGER"} /\ e.names = F
  BY DEF Rework, Note
<1> HIDE DEF e
<1>2. Appended(l, e).reopening = F BY <1>1 DEF Appended, ReopeningAfter
<1> QED BY <1>2 DEF e

LEMMA AnswerHeeded ==
  ASSUME RInv, InPilot, Heeded, AnswerN3
  PROVE  Heeded'
<1>1. pc \in {"n3", "ingest", "reopen"} /\ heard' = heard
  BY DEF AnswerN3, N3Green, N3NotProduct, N3Product, N3Unreachable, ReopenAdvisory, ReopenStopped,
         ReopenRework, Waiting
<1>2. Owed = {} BY <1>1 DEF Heeded, OnItsWay
<1>3. CASE ~ReopenRework
  <2>1. ~ReworkWriter BY <1>1 DEF ReworkWriter, Deciding, Halting
  <2>2. SameBudget(led, led') BY <1>3, <2>1, BudgetThread DEF Thread
  <2> QED BY <1>1, <1>2, <2>2, StillNothingOwed
<1>4. CASE ReopenRework
  <2> DEFINE R == {"WRITER", "TESTER", "STORE_MANAGER"}
             m == Appended(led, Note)
             n == Appended(m, Rework("STORE_MANAGER", verdict.names, R))
  <2>1. led' = n /\ pc = "reopen" /\ pc' = "entered" /\ UNCHANGED <<suite, collecting>>
    BY <1>4 DEF ReopenRework, Launch
  <2>2. led \in Ledgers BY DEF RInv, AInv, TypeOK, DiskType
  <2>3. n.names = led.names \cup verdict.names BY <2>2, ReworkSpends DEF ReworkGates
  <2>4. n.reopening = verdict.names BY ReopeningIsRead
  <2>5. m \in Ledgers /\ Completed(m) = Completed(led) BY <2>2, NotesEffect
  <2>6. suite = "pilot" => Piloted(n)
    BY <2>1, PilotedEvents DEF InPilot
  <2> HIDE DEF m
  <2>7. Completed(n) = Completed(m) \ R /\ n.terminal = IF R = {} THEN m.terminal ELSE NoVerdict
    BY <2>5, ReworkEffect
  <2> HIDE DEF n
  <2>8. Completed(led') = Earlier("WRITER")
    <3>1. Earlier("STORE_MANAGER") \subseteq Completed(led)
      BY <2>1 DEF RInv, Remembered
    <3>2. Completed(led) \in SUBSET BuildRole BY DEF Completed
    <3> QED BY <2>1, <2>5, <2>7, <3>1, <3>2, EarlierOf DEF BuildRole
  <2>9. ResumePoint(led') = "WRITER"
    <3>1. Completed(led') \in SUBSET BuildRole BY DEF Completed
    <3> QED BY <2>8, <3>1, EarlierOf, WriterIsNext DEF ResumePoint
  <2>10. led'.terminal.kind # "RUN_FAILED" BY <2>1, <2>7 DEF NoVerdict
  <2>11. ~MayOpenPilot(led)' BY <2>1, <2>6 DEF MayOpenPilot, Piloted
  <2>12. Owed' \subseteq led'.reopening BY <1>1, <1>2, <2>1, <2>3, <2>4 DEF Owed
  <2>13. ~collecting BY <2>1 DEF RInv, Remembered
  <2> QED BY <2>1, <2>9, <2>10, <2>11, <2>12, <2>13 DEF Heeded, OnItsWay, HeardBeforeStop
<1> QED BY <1>3, <1>4

LEMMA InitHeard == Init => HearInv
<1> SUFFICES ASSUME Init PROVE HearInv OBVIOUS
<1>1. InPilot BY DEF Init, InPilot
<1>2. Owed = {} /\ HeardBeforeStop BY DEF Init, EmptyLedger, Owed, HeardBeforeStop
<1> QED BY <1>1, <1>2, InitRemembered DEF HearInv, Heeded

LEMMA NextHeard ==
  ASSUME Declared = {}, HearInv, [Next]_vars
  PROVE  HearInv'
<1>1. RInv' BY NextRemembered DEF HearInv
<1>2. CASE UNCHANGED vars
  BY <1>1, <1>2 DEF vars, disk, memory, history, bounds, HearInv, InPilot, Piloted, Heeded, Owed, OnItsWay,
                    HeardBeforeStop, MayOpenPilot, ResumePoint, Completed, request, counters
<1>3. CASE Next
  <2>1. InPilot'
    BY <1>3, PilotStart, PilotPrelude, PilotPhase, PilotDecide, PilotClose, PilotAnswer, InPilotDown
       DEF Next, Thread, KillProcess, CrashThread, RecordsCrash, HearInv
  <2>2. ASSUME crashes' = 0 PROVE Heeded'
    <3>1. crashes \in Nat BY DEF HearInv, RInv, AInv, TypeOK, HistoryType
    <3>2. ~(KillProcess \/ CrashThread) BY <2>2, <3>1 DEF KillProcess, CrashThread, CanCrash
    <3>3. CASE Start
      <4>1. crashes = 0
        BY <2>2, <3>3 DEF Start, StartFresh, StartOver, StartAttached, ResumeFailed, StartKept, StartIngest
      <4> QED BY <3>3, <4>1, StartHeeded DEF HearInv
    <3>4. CASE Thread
      <4>1. crashes = 0
        BY <2>2, <3>4
           DEF Thread, RefuseInputs, RecordsCrash, FailPreflight, Enter, SpendWall, RunPhase, StartPhase,
               LeaveLane, FailRole, FinishRole, FinishCommit, PassGate, FailGate, HaltStage, Checkpoint,
               FailCheckpoint, PassUnattached, Decide, CollectFinding, HandOff, FailTerminal, PassAdvisory,
               RegenerateTest, Reprompt, StopUnowned, StopTwice, StopSpent, StopForeman, ReworkWriter,
               Close, Report, OpenAutoPilot, Succeed, FinishFailed, FinishSuccess, AnswerN3, N3Green,
               N3NotProduct, N3Product, N3Unreachable, ReopenAdvisory, ReopenStopped, ReopenRework, bounds
      <4> QED BY <3>4, <4>1, PreludeHeeded, PhaseHeeded, DecideHeeded, CloseHeeded, AnswerHeeded
              DEF Thread, HearInv
    <3> QED BY <1>3, <3>2, <3>3, <3>4 DEF Next
  <2> QED BY <1>1, <2>1, <2>2 DEF HearInv
<1> QED BY <1>2, <1>3

\* Until a crash, a build that declares no level is stopped for a repeated failure only
\* after a finished WRITER pass was told of it: through resumes, re-prompts, the pilot
\* cycle and the Store gate's re-opening alike.
THEOREM HeardFirst == Declared = {} => (Spec => [](crashes = 0 => HeardBeforeStop))
<1> SUFFICES ASSUME Declared = {} PROVE Spec => [](crashes = 0 => HeardBeforeStop) OBVIOUS
<1>1. HearInv /\ [Next]_vars => HearInv' BY NextHeard
<1>2. HearInv => (crashes = 0 => HeardBeforeStop) BY DEF HearInv, Heeded
<1> QED BY <1>1, <1>2, InitHeard, PTL DEF Spec
=============================================================================
