---------------------------- MODULE ChangeRequests -----------------------------
(***************************************************************************)
(* Change requests of one product, from the signed document to the package *)
(* in staging: intake and dry run, the owner's decisions, the workbench's  *)
(* runs and gates, the promotion.  Every handler runs on the event loop    *)
(* and never awaits, so one runs at a time; but it writes a request's      *)
(* state several times on its way, and an exception nobody catches, or the *)
(* end of the process, leaves whatever it wrote last.                      *)
(***************************************************************************)
EXTENDS Naturals

CONSTANTS
  Requests,   \* request ids, all made against one version of the product
  Nobody,     \* no request
  MaxRuns,    \* bound on the workbench's runs
  MaxBreaks   \* bound on the handlers that stop half way

ASSUME NobodyIsNoRequest == Nobody \notin Requests
ASSUME ChangeBounds == MaxRuns \in Nat /\ MaxBreaks \in Nat

VARIABLES
  item,      \* request -> its file in the queue: see Absent
  audit,     \* request -> the live-audit artifact its file names: none, fresh or stale
  hand,      \* the handler that runs: on which request, and the step it is at
  package,   \* what staging holds for the product's next version
  runs,      \* runs of the workbench so far; a candidate is named by its run
  passed,    \* history: candidates whose gates passed, with their request
  breaks     \* handlers that stopped half way

vars == <<item, audit, hand, package, runs, passed, breaks>>

\* state, dry_run_report, decision (no, yes, or superseded_by_gate_failure), candidate
Absent == [state |-> "absent", dry |-> FALSE, decision |-> "none", candidate |-> 0]

Idle == [on |-> Nobody, at |-> "none"]
Empty == [of |-> Nobody, candidate |-> 0, receipt |-> FALSE]

Intake == {"received", "validated", "dry_run_evaluated", "awaiting_approval"}
Workbench == {"workbench_running", "candidate_ready", "gate_passed", "gate_failed", "staged"}
States == {"absent", "approved", "rejected"} \cup Intake \cup Workbench

Init ==
  /\ item = [r \in Requests |-> Absent]
  /\ audit = [r \in Requests |-> "none"]
  /\ hand = Idle /\ package = Empty
  /\ runs = 0 /\ passed = {} /\ breaks = 0

Is(r, state) == item[r].state = state
At(r, step) == hand = [on |-> r, at |-> step]
GoesTo(r, step) == hand' = [on |-> r, at |-> step]
Writes(r, state) == item' = [item EXCEPT ![r].state = state]

-----------------------------------------------------------------------------
(* Intake and decision.                                                     *)

\* Mutant of Delivered: every delivery goes through the pipeline.
DeliveredAnew(r) == FALSE

\* A request delivered again is returned as it is -- once it has its dry run.
Delivered(r) == ~Is(r, "absent") /\ ~Is(r, "received") /\ item[r].dry

\* put_received, for a document that passed schema and signature.
Receive(r) ==
  /\ hand = Idle /\ ~Delivered(r)
  /\ item' = IF Is(r, "absent") THEN [item EXCEPT ![r].state = "received"] ELSE item
  /\ GoesTo(r, "validate")
  /\ UNCHANGED <<audit, package, runs, passed, breaks>>

Validate(r) ==
  /\ At(r, "validate") /\ Writes(r, "validated") /\ GoesTo(r, "evaluate")
  /\ UNCHANGED <<audit, package, runs, passed, breaks>>

DryRun(r) ==
  /\ At(r, "evaluate") /\ GoesTo(r, "await")
  /\ item' = [item EXCEPT ![r].state = "dry_run_evaluated", ![r].dry = TRUE]
  /\ UNCHANGED <<audit, package, runs, passed, breaks>>

Await(r) ==
  /\ At(r, "await") /\ Writes(r, "awaiting_approval") /\ hand' = Idle
  /\ UNCHANGED <<audit, package, runs, passed, breaks>>

\* record_decision asks for no state: any request that exists can be decided.
Decide(r, approved) ==
  /\ hand = Idle /\ ~Is(r, "absent")
  /\ item' = [item EXCEPT ![r].state = IF approved THEN "approved" ELSE "rejected",
                          ![r].decision = IF approved THEN "yes" ELSE "no"]
  /\ UNCHANGED <<audit, hand, package, runs, passed, breaks>>

-----------------------------------------------------------------------------
(* The workbench.                                                           *)

Run(r) ==
  /\ hand = Idle /\ Is(r, "approved") /\ runs < MaxRuns
  /\ Writes(r, "workbench_running") /\ GoesTo(r, "agent") /\ runs' = runs + 1
  /\ UNCHANGED <<audit, package, passed, breaks>>

\* The agent produced a candidate; the gates follow at once when the caller asked.
AgentDone(r) ==
  /\ At(r, "agent")
  /\ item' = [item EXCEPT ![r].state = "candidate_ready", ![r].candidate = runs]
  /\ hand' \in {Idle, [on |-> r, at |-> "gates"]}
  /\ UNCHANGED <<audit, package, runs, passed, breaks>>

\* Mutant of Died: the session's failure is not written down.
DiedSilently(r) == UNCHANGED item

\* A violation, a timeout or the CLI's failure: the state says so, an older candidate stays.
Died(r) == Writes(r, "gate_failed")

AgentFailed(r) ==
  /\ At(r, "agent") /\ Died(r) /\ hand' = Idle
  /\ UNCHANGED <<audit, package, runs, passed, breaks>>

\* Mutant of Gateable: the gates ask for a candidate and not for the state.
GateableByCandidate(r) == item[r].candidate # 0

Gateable(r) ==
  item[r].candidate # 0 /\ item[r].state \in {"candidate_ready", "gate_failed", "gate_passed"}

\* evaluate_gates, at the end of a run or asked for: no gate is skipped, and one of
\* them needs a fresh audit.  A failure supersedes the decision.
Gates(r) ==
  /\ At(r, "gates") \/ hand = Idle
  /\ Gateable(r)
  /\ \/ /\ audit[r] = "fresh" /\ Writes(r, "gate_passed")
        /\ passed' = passed \cup {<<r, item[r].candidate>>}
     \/ /\ item' = [item EXCEPT ![r].state = "gate_failed", ![r].decision = "superseded"]
        /\ UNCHANGED passed
  /\ hand' = Idle
  /\ UNCHANGED <<audit, package, runs, breaks>>

\* Mutant of Promotable: any candidate with a fresh audit.
PromotableReady(r) == item[r].state \in {"candidate_ready", "gate_passed"} /\ audit[r] = "fresh"

\* promote_via_packager looks at the audit again, by now perhaps too old.
Promotable(r) == Is(r, "gate_passed") /\ audit[r] = "fresh"

\* generate(clean=True) into the one directory of the product's next version, the receipt
\* of whoever was there included.
Package(r) ==
  /\ hand = Idle /\ Promotable(r)
  /\ package' = [of |-> r, candidate |-> item[r].candidate, receipt |-> FALSE]
  /\ GoesTo(r, "verify")
  /\ UNCHANGED <<item, audit, runs, passed, breaks>>

\* The package's checksums, then its receipt.
Verify(r) ==
  /\ At(r, "verify")
  /\ \/ GoesTo(r, "stage") /\ package' = [package EXCEPT !.receipt = TRUE]
     \/ hand' = Idle /\ UNCHANGED package
  /\ UNCHANGED <<item, audit, runs, passed, breaks>>

Stage(r) ==
  /\ At(r, "stage") /\ Writes(r, "staged") /\ hand' = Idle
  /\ UNCHANGED <<audit, package, runs, passed, breaks>>

\* The operator's: an audit is attached to the request's file, and grows old.
Audit(r) ==
  /\ hand = Idle /\ ~Is(r, "absent")
  /\ audit' = [audit EXCEPT ![r] = IF @ = "fresh" THEN "stale" ELSE "fresh"]
  /\ UNCHANGED <<item, hand, package, runs, passed, breaks>>

\* An exception nobody catches, or the end of the process.
Break ==
  /\ hand # Idle /\ breaks < MaxBreaks
  /\ hand' = Idle /\ breaks' = breaks + 1
  /\ UNCHANGED <<item, audit, package, runs, passed>>

Next ==
  \/ \E r \in Requests :
       \/ Receive(r) \/ Validate(r) \/ DryRun(r) \/ Await(r)
       \/ \E approved \in BOOLEAN : Decide(r, approved)
       \/ Run(r) \/ AgentDone(r) \/ AgentFailed(r) \/ Gates(r)
       \/ Package(r) \/ Verify(r) \/ Stage(r) \/ Audit(r)
  \/ Break

Spec == Init /\ [][Next]_vars

-----------------------------------------------------------------------------

TypeOK ==
  /\ item \in [Requests -> [state : States, dry : BOOLEAN, candidate : 0..runs,
                            decision : {"none", "yes", "no", "superseded"}]]
  /\ audit \in [Requests -> {"none", "fresh", "stale"}]
  /\ hand \in [on : Requests \cup {Nobody},
               at : {"none", "validate", "evaluate", "await", "agent", "gates", "verify", "stage"}]
  /\ package \in [of : Requests \cup {Nobody}, candidate : 0..runs, receipt : BOOLEAN]
  /\ runs \in 0..MaxRuns /\ passed \in SUBSET (Requests \X (1..runs)) /\ breaks \in 0..MaxBreaks

\* What staging holds, whole or torn, and what a staged request names, is a candidate
\* that passed its own gates: not an earlier one's, and not an ungated one's -- whatever
\* was decided, run again or stopped meanwhile.
StagedIsGated ==
  /\ package # Empty => <<package.of, package.candidate>> \in passed
  /\ \A r \in Requests : Is(r, "staged") => <<r, item[r].candidate>> \in passed

\* Nothing is in the workbench's states against the owner's last word: a rejection ends
\* them, and the candidate it leaves behind does not bring the request back.
WorkIsApproved ==
  \A r \in Requests : item[r].state \in Workbench => item[r].decision \in {"yes", "superseded"}

\* A request is left between two steps, or decided without its dry run (whose list of
\* gates the workbench then lacks), only where a handler stopped half way.
MidwayOnlyByABreak ==
  breaks = 0 /\ hand = Idle =>
    \A r \in Requests :
      /\ item[r].state \notin (Intake \ {"awaiting_approval"}) \cup {"workbench_running"}
      /\ ~Is(r, "absent") => item[r].dry

\* The same document delivered again withdraws no decision and no work of a request that
\* has its dry run: only its own intake, going on, writes a state of the intake.
DecisionStands ==
  [][\A r \in Requests :
       item[r].dry /\ item'[r].state \in Intake /\ ~Is(r, item'[r].state) =>
         Is(r, "dry_run_evaluated")]_vars

(* What the repository says and the code does not keep.                      *)

\* Each staged request has emitted "a new product version"; two requests against one
\* version share one directory, and the later package replaces the earlier.
StagedIsANewVersion ==
  hand = Idle => \A r \in Requests : Is(r, "staged") => package.of = r
=============================================================================
