----------------------------- MODULE LedgerReplay -----------------------------
(***************************************************************************)
(* The ledger of BuildLedger next to the whole log it folds.  Any event may *)
(* follow any other here, more than a real run appends: the runner, the     *)
(* starts, the Store-gate ingest and an operator all write to one file, and *)
(* each reading has to survive every order they do it in.  The properties   *)
(* state each reading over the positions of the log, the way its docstring  *)
(* does.                                                                    *)
(***************************************************************************)
EXTENDS BuildLedger, Sequences, FiniteSetsExt

CONSTANTS
  Roles,     \* bound: the roles events are about
  MaxEvents  \* bound: events appended after RUN_STARTED

ASSUME ReplayAssumption == Roles \subseteq BuildRole /\ MaxEvents \in Nat

VARIABLES log, led

Reworks(reopen) ==
  UNION {{Rework(g, {f}, reopen) : f \in Failures} : g \in ReworkGates \cap Roles}

Written ==
  (UNION {{PhaseStarted(r), GatePassed(r), GateFailed(r), PhaseAborted(r)} : r \in Roles})
  \cup {PilotOpened(b) : b \in BOOLEAN} \cup {InputsRebased(h) : h \in Inputs}
  \cup {RunStarted(h) : h \in Inputs}
  \cup Reworks({}) \cup Reworks({"WRITER", "TESTER", "STORE_MANAGER"})
  \cup {RunSucceeded("SUCCESS", c) : c \in {"code", "pilot"}}
  \cup {RunFailed("TESTER", "FAILED_GATE", {f}) : f \in Failures}
  \cup {RunFailed("STORE_MANAGER", "HANDOFF_TO_N3", {}), N3Failed({}),
        N3Passed("STORE_MANAGER"), BudgetReset, Note}

Init == \E h \in Inputs : log = <<RunStarted(h)>> /\ led = Appended(EmptyLedger, log[1])

Write ==
  /\ Len(log) <= MaxEvents
  /\ \E e \in Written : log' = log \o <<e>> /\ led' = Appended(led, e)

Spec == Init /\ [][Write]_<<log, led>>

-----------------------------------------------------------------------------
Positions == 1 .. Len(log)
After(i)  == {j \in Positions : j > i}
Latest(S) == IF S = {} THEN 0 ELSE Max(S)

\* completed_roles: a phase is complete when its most recent attempt was a pass
\* and nothing has withdrawn it since -- an attempt that has started and not
\* finished is an attempt.
CompletedIsTheLastAttempt ==
  Completed(led) =
    {r \in BuildRole : \E i \in Positions :
       /\ log[i].kind = "GATE_PASSED" /\ log[i].role = r
       /\ \A j \in After(i) :
            /\ log[j].role = r => log[j].kind \notin PhaseKinds
            /\ r \notin log[j].reopen /\ log[j].key # "inputs_rebased"
            /\ log[j].kind = "PILOT_OPENED" => r \notin {"TESTER", "STORE_MANAGER"}}

\* The events that give the run a verdict, and those that take one back.
Gives(e) == e.kind \in {"RUN_SUCCEEDED", "RUN_FAILED"}
Takes(e) == \/ e.kind = "PILOT_OPENED" \/ e.key = "inputs_rebased"
            \/ e.kind = "REWORK" /\ e.reopen # {}
Words    == {i \in Positions : Gives(log[i]) \/ Takes(log[i])}

\* terminal_event, reopening_rework: the run has a verdict exactly while the last
\* event that gives or takes one gives one, and a re-opening rework seeds a run
\* only while nothing follows it.
VerdictIsTheLastWord ==
  /\ led.terminal.kind # "none" <=> Words # {} /\ Gives(log[Max(Words)])
  /\ led.terminal.kind # "none" =>
       /\ led.terminal.kind = log[Max(Words)].kind
       /\ led.terminal.names = log[Max(Words)].names
  /\ led.reopening # {} => Takes(log[Len(log)]) /\ led.reopening = log[Len(log)].names
  /\ led.reopening # {} => led.terminal.kind = "none"

\* The rework rounds since the last reset of the budget.
Resets == {i \in Positions : log[i].key = "rework_budget_reset"}
Rounds == {i \in Positions : log[i].kind = "REWORK" /\ \A j \in Resets : i > j}

\* _reworks and its three readers: rounds and failures are those since the last
\* reset, each round of its own gate.
BudgetIsCountedSinceReset ==
  /\ \A g \in ReworkGates : led.spent[g] = Cardinality({i \in Rounds : log[i].source = g})
  /\ led.names = UNION {log[i].names : i \in Rounds}
  /\ SpentInBuild(led) = Cardinality(Rounds)

Pilots   == {i \in Positions : log[i].kind = "PILOT_OPENED"}
Greens   == {i \in Positions : log[i].kind = "RUN_SUCCEEDED"}
Handoffs == {i \in Positions : log[i].outcome = "HANDOFF_TO_N3"}
Answers  == {i \in Positions : log[i].key = "n3" \/ log[i].kind = "RUN_SUCCEEDED"}
Rebases  == {i \in Positions : log[i].key = "inputs_rebased"}

\* pilot_cycle_open, code_phase_succeeded, handoff_awaiting_n3, inputs_hash: each
\* is decided by the last marker of its kind, whatever came before it.
RunStatusIsTheLastMarker ==
  /\ led.pilot <=> Latest(Pilots) > Latest(Greens)
  /\ led.green <=> Greens # {}
  /\ led.handoff <=> Handoffs # {} /\ \A i \in Answers : i < Latest(Handoffs)
  /\ led.inputs = log[IF Rebases = {} THEN 1 ELSE Latest(Rebases)].inputs
=============================================================================
