----------------------------- MODULE BuildLedger -----------------------------
(***************************************************************************)
(* The append-only build ledger (factory/build/ledger.py), as its readers  *)
(* see it.  Every question the factory asks of the ledger -- which phases  *)
(* are complete, what the run's verdict is, which rework rounds are spent  *)
(* -- is a left fold over the events.  A "ledger" here is therefore the    *)
(* record of those folds, and Appended(l, e) is one more event folded in:    *)
(* what BuildLedger.append() leaves for the next reader to find.           *)
(* LedgerReplay checks these steps against readings of the whole log.      *)
(***************************************************************************)
EXTENDS Naturals, FiniteSets

CONSTANTS Failures,   \* same-failure-twice keys a gate can report
          Inputs      \* blueprint hashes a caller can supply

\* A blueprint hash is never the empty string ("no run recorded yet").
ASSUME InputsAreHashes == "none" \notin Inputs

-----------------------------------------------------------------------------
(* authority.py: the five roles, in build order.                           *)

BuildRole == {"COLLECTOR", "CLONER", "WRITER", "TESTER", "STORE_MANAGER"}

BUILD_PHASES ==
  [COLLECTOR |-> 1, CLONER |-> 2, WRITER |-> 3, TESTER |-> 4, STORE_MANAGER |-> 5]

Earlier(r) == {p \in BuildRole : BUILD_PHASES[p] < BUILD_PHASES[r]}

\* A set of phases no phase of which was reached past a missing one.
InOrder(S) == \A r \in S : Earlier(r) \subseteq S

\* Gates whose failure can open a rework round; each has its own budget.
ReworkGates == {"WRITER", "TESTER", "STORE_MANAGER"}

-----------------------------------------------------------------------------
(* Events.  An event is a record of the parts of its payload some reader    *)
(* acts on; a NOTE that no reader acts on is Note.                          *)

PhaseKinds == {"PHASE_STARTED", "GATE_PASSED", "GATE_FAILED", "PHASE_ABORTED"}

Note == [kind |-> "NOTE", role |-> "none", key |-> "none", reopen |-> {},
         source |-> "none", names |-> {}, outcome |-> "none", cycle |-> "code",
         inputs |-> "none"]

RunStarted(h)   == [Note EXCEPT !.kind = "RUN_STARTED", !.inputs = h]
PhaseStarted(r) == [Note EXCEPT !.kind = "PHASE_STARTED", !.role = r]
GatePassed(r)   == [Note EXCEPT !.kind = "GATE_PASSED", !.role = r]
GateFailed(r)   == [Note EXCEPT !.kind = "GATE_FAILED", !.role = r]
PhaseAborted(r) == [Note EXCEPT !.kind = "PHASE_ABORTED", !.role = r]

\* open_pilot_cycle(reopen_writer=...)
PilotOpened(reopenWriter) ==
  [Note EXCEPT !.kind = "PILOT_OPENED",
               !.reopen = IF reopenWriter THEN {"WRITER"} ELSE {}]

\* rebase_inputs and reset_rework_budget are NOTEs told apart by a payload key.
InputsRebased(h) == [Note EXCEPT !.key = "inputs_rebased", !.inputs = h]
BudgetReset      == [Note EXCEPT !.key = "rework_budget_reset"]

\* A rework round opened by gate `source` for the failures `names`.
Rework(source, names, reopen) ==
  [Note EXCEPT !.kind = "REWORK", !.role = "WRITER", !.source = source,
               !.names = names, !.reopen = reopen]

RunSucceeded(outcome, cycle) ==
  [Note EXCEPT !.kind = "RUN_SUCCEEDED", !.outcome = outcome, !.cycle = cycle]
RunFailed(r, outcome, names) ==
  [Note EXCEPT !.kind = "RUN_FAILED", !.role = r, !.outcome = outcome, !.names = names]

\* The same two verdicts written from the Store gate's answer (n3_store_gate).
N3Passed(r)         == [GatePassed(r) EXCEPT !.key = "n3"]
N3Failed(names)     == [RunFailed("STORE_MANAGER", "FAILED_GATE", names) EXCEPT !.key = "n3"]

-----------------------------------------------------------------------------
(* The readings, one step each.                                             *)

\* Mutant of Withdraws: new inputs leave the old passes standing.
WithdrawsKeepingRebased(e) ==
  CASE e.kind = "PILOT_OPENED" -> {"TESTER", "STORE_MANAGER"} \cup e.reopen
    [] e.kind = "REWORK"       -> e.reopen
    [] OTHER                   -> {}

\* completed_roles: the roles whose standing verdict this event withdraws.
Withdraws(e) ==
  CASE e.kind = "PILOT_OPENED"    -> {"TESTER", "STORE_MANAGER"} \cup e.reopen
    [] e.key = "inputs_rebased"   -> BuildRole
    [] e.kind = "REWORK"          -> e.reopen
    [] OTHER                      -> {}

SetsVerdict(e) == e.kind \in PhaseKinds /\ e.role \in BuildRole

\* completed_roles: the latest verdict of each role, "none" when withdrawn.
VerdictsAfter(l, e) ==
  [r \in BuildRole |-> IF r \in Withdraws(e) THEN "none"
                       ELSE IF SetsVerdict(e) /\ r = e.role THEN e.kind
                       ELSE l.verdicts[r]]

\* interrupted_role: the same fold with no withdrawals.
RunningAfter(l, e) ==
  IF ~SetsVerdict(e) THEN l.running
  ELSE IF e.kind = "PHASE_STARTED" THEN l.running \cup {e.role}
  ELSE l.running \ {e.role}

NoVerdict == [kind |-> "none", role |-> "none", outcome |-> "none",
              cycle |-> "code", names |-> {}]

\* Mutant of Reopens: opening the pilot cycle leaves the code cycle's verdict.
ReopensWithoutPilot(e) == e.key = "inputs_rebased" \/ (e.kind = "REWORK" /\ e.reopen # {})

Reopens(e) == \/ e.kind = "PILOT_OPENED"
              \/ e.key = "inputs_rebased"
              \/ e.kind = "REWORK" /\ e.reopen # {}

\* terminal_event: the last run verdict that nothing has re-opened since.
TerminalAfter(l, e) ==
  IF e.kind \in {"RUN_SUCCEEDED", "RUN_FAILED"}
    THEN [kind |-> e.kind, role |-> e.role, outcome |-> e.outcome,
          cycle |-> e.cycle, names |-> e.names]
    ELSE IF Reopens(e) THEN NoVerdict ELSE l.terminal

\* Mutant of ReopeningAfter: any rework seeds the next run.
ReopeningAfterAny(e) == IF e.kind = "REWORK" THEN e.names ELSE {}

\* reopening_rework: the failures of a re-opening REWORK, while it is the last event.
ReopeningAfter(e) ==
  IF e.kind = "REWORK" /\ e.reopen # {} THEN e.names ELSE {}

\* Mutant of SpentAfter: a reset forgets the failures and not the rounds.
SpentAfterNoReset(l, e) ==
  [g \in ReworkGates |->
     IF e.kind = "REWORK" /\ e.source = g THEN l.spent[g] + 1 ELSE l.spent[g]]

\* RoleRunner._reworks: rounds per gate, and their failures, since the last reset.
SpentAfter(l, e) ==
  [g \in ReworkGates |->
     IF e.key = "rework_budget_reset" THEN 0
     ELSE IF e.kind = "REWORK" /\ e.source = g THEN l.spent[g] + 1 ELSE l.spent[g]]
NamesAfter(l, e) ==
  IF e.key = "rework_budget_reset" THEN {}
  ELSE IF e.kind = "REWORK" THEN l.names \cup e.names ELSE l.names

\* pilot_cycle_open, code_phase_succeeded
PilotAfter(l, e) ==
  e.kind = "PILOT_OPENED" \/ (l.pilot /\ e.kind # "RUN_SUCCEEDED")
GreenAfter(l, e) == l.green \/ e.kind = "RUN_SUCCEEDED"

\* Mutant of HandoffAfter: one failed answer settles every handoff to come.
HandoffAfterOnce(l, e) ==
  (e.outcome = "HANDOFF_TO_N3" \/ l.handoff) /\ e.key # "n3" /\ e.kind # "RUN_SUCCEEDED"
    /\ ~(l.terminal.kind = "RUN_FAILED" /\ ~l.handoff)

\* n3_store_gate.handoff_awaiting_n3: judged from the last handoff onward.
HandoffAfter(l, e) ==
  \/ e.outcome = "HANDOFF_TO_N3"
  \/ l.handoff /\ e.key # "n3" /\ e.kind # "RUN_SUCCEEDED"

\* inputs_hash: RUN_STARTED pins the run, a typed rebase re-pins it.
InputsAfter(l, e) ==
  IF \/ e.kind = "RUN_STARTED" /\ l.inputs = "none"
     \/ e.key = "inputs_rebased"
  THEN e.inputs ELSE l.inputs

-----------------------------------------------------------------------------

EventKinds == PhaseKinds \cup {"RUN_STARTED", "NOTE", "PILOT_OPENED", "REWORK",
                                "RUN_SUCCEEDED", "RUN_FAILED"}

Outcomes == {"none", "SUCCESS", "COLLECT_ALL_REPORT", "HANDOFF_TO_N3", "FAILED_GATE",
             "FAILED_BUDGET_SPENT", "FAILED_ROLE_ERROR", "FAILED_AUTHORITY"}

Events ==
  [kind : EventKinds, role : BuildRole \cup {"none"},
   key : {"none", "inputs_rebased", "rework_budget_reset", "n3"},
   reopen : SUBSET BuildRole, source : ReworkGates \cup {"none"},
   names : SUBSET Failures, outcome : Outcomes, cycle : {"code", "pilot"},
   inputs : Inputs \cup {"none"}]

Verdicts == PhaseKinds \cup {"none"}

Terminals ==
  [kind : {"none", "RUN_SUCCEEDED", "RUN_FAILED"}, role : BuildRole \cup {"none"},
   outcome : Outcomes, cycle : {"code", "pilot"}, names : SUBSET Failures]

Ledgers ==
  [verdicts : [BuildRole -> Verdicts], running : SUBSET BuildRole,
   terminal : Terminals, reopening : SUBSET Failures,
   spent : [ReworkGates -> Nat], names : SUBSET Failures,
   pilot : BOOLEAN, green : BOOLEAN, handoff : BOOLEAN,
   inputs : Inputs \cup {"none"}]

EmptyLedger ==
  [verdicts |-> [r \in BuildRole |-> "none"], running |-> {},
   terminal |-> NoVerdict, reopening |-> {},
   spent |-> [g \in ReworkGates |-> 0], names |-> {},
   pilot |-> FALSE, green |-> FALSE, handoff |-> FALSE, inputs |-> "none"]

Appended(l, e) ==
  [verdicts  |-> VerdictsAfter(l, e), running   |-> RunningAfter(l, e),
   terminal  |-> TerminalAfter(l, e), reopening |-> ReopeningAfter(e),
   spent     |-> SpentAfter(l, e),    names     |-> NamesAfter(l, e),
   pilot     |-> PilotAfter(l, e),    green     |-> GreenAfter(l, e),
   handoff   |-> HandoffAfter(l, e),  inputs    |-> InputsAfter(l, e)]

\* BuildLedger.exists: a ledger file exists once a run was recorded in it.
Exists(l) == l.inputs # "none"

\* Mutant of Completed: a phase that was started counts.
CompletedOrStarted(l) ==
  {r \in BuildRole : l.verdicts[r] \in {"GATE_PASSED", "PHASE_STARTED"}}

\* completed_roles
Completed(l) == {r \in BuildRole : l.verdicts[r] = "GATE_PASSED"}

\* The first phase of BUILD_PHASES not in `finished`; "none" when all are.
NextPhase(finished) ==
  IF finished = BuildRole THEN "none"
  ELSE CHOOSE r \in BuildRole \ finished : Earlier(r) \subseteq finished

ResumePoint(l) == NextPhase(Completed(l))

\* pilot_ready: the standing verdict is a SUCCESS that closed a pilot cycle.
PilotReady(l) == l.terminal.kind = "RUN_SUCCEEDED" /\ l.terminal.cycle = "pilot"

\* _rework_rounds_this_build: every gate together.
SpentInBuild(l) == l.spent["WRITER"] + l.spent["TESTER"] + l.spent["STORE_MANAGER"]
=============================================================================
