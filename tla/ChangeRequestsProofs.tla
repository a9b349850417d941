------------------------- MODULE ChangeRequestsProofs -------------------------
(***************************************************************************)
(* What holds of change requests for every set of them, every number of    *)
(* workbench runs and every number of handlers that stop half way.         *)
(***************************************************************************)
EXTENDS ChangeRequests, TLAPS

(* What the properties rest on.                                             *)

\* A handler that is under way finds its request in the state it wrote last: nobody
\* else runs meanwhile.  One that has not come to the dry run has a request without.
HandHoldsState ==
  \A r \in Requests :
    /\ At(r, "validate") \/ At(r, "evaluate") => ~item[r].dry
    /\ At(r, "await") => Is(r, "dry_run_evaluated")
    /\ At(r, "agent") => Is(r, "workbench_running")
    /\ At(r, "gates") => Is(r, "candidate_ready")
    /\ At(r, "verify") \/ At(r, "stage") => Is(r, "gate_passed") /\ package.of = r

\* Nothing has its dry run before its intake went on.
FreshIsDryless == \A r \in Requests : Is(r, "absent") \/ Is(r, "received") => ~item[r].dry

\* A candidate the state calls passed did, and nothing else is packaged.
PassedDid ==
  /\ \A r \in Requests :
       Is(r, "gate_passed") \/ Is(r, "staged") => <<r, item[r].candidate>> \in passed
  /\ package # Empty => <<package.of, package.candidate>> \in passed

\* Approval is the owner's, and the workbench starts from nothing else.
ApprovedByOwner ==
  \A r \in Requests :
    /\ Is(r, "approved") => item[r].decision = "yes"
    /\ item[r].state \in Workbench => item[r].decision \in {"yes", "superseded"}

\* Without a break only the handler that runs has a request midway.
Midway(r) == item[r].state \in (Intake \ {"awaiting_approval"}) \cup {"workbench_running"}

OnlyTheHandIsMidway ==
  breaks = 0 => \A r \in Requests :
    /\ hand.on # r => ~Midway(r) /\ (~Is(r, "absent") => item[r].dry)
    /\ hand.on = r => /\ ~Is(r, "absent")
                      /\ hand.at \notin {"validate", "evaluate"} => item[r].dry

IInv ==
  /\ TypeOK
  /\ HandHoldsState /\ FreshIsDryless /\ PassedDid /\ ApprovedByOwner /\ OnlyTheHandIsMidway

-----------------------------------------------------------------------------
(* What a step writes, field by field.                                      *)

Item(n) == [state : States, dry : BOOLEAN, candidate : 0..n,
            decision : {"none", "yes", "no", "superseded"}]

\* The step writes these four fields of r's file and no other file.
FileOf(r, state, dry, candidate, decision) ==
  /\ item'[r].state = state /\ item'[r].dry = dry
  /\ item'[r].candidate = candidate /\ item'[r].decision = decision
  /\ \A q \in Requests \ {r} : item'[q] = item[q]

\* One request's file replaced: the queue is still a queue.
LEMMA FileWritten ==
  ASSUME TypeOK, NEW r \in Requests, NEW m \in Nat, runs <= m, NEW file \in Item(m),
         item' = [item EXCEPT ![r] = file]
  PROVE  /\ FileOf(r, file.state, file.dry, file.candidate, file.decision)
         /\ item' \in [Requests -> Item(m)]
<1>1. item \in [Requests -> Item(runs)] /\ runs \in Nat
  BY ChangeBounds DEF TypeOK, Item
<1>2. Item(runs) \subseteq Item(m)
  BY <1>1 DEF Item
<1>3. item' \in [Requests -> Item(m)]
  BY <1>1, <1>2
<1>4. FileOf(r, file.state, file.dry, file.candidate, file.decision)
  BY <1>1 DEF FileOf
<1> QED  BY <1>3, <1>4

\* A file with another state is a file; nothing else of it changes.
LEMMA StateWritten ==
  ASSUME TypeOK, NEW r \in Requests, NEW state \in States, Writes(r, state)
  PROVE  /\ FileOf(r, state, item[r].dry, item[r].candidate, item[r].decision)
         /\ item' \in [Requests -> Item(runs)]
<1> DEFINE file == [item[r] EXCEPT !.state = state]
<1>1. item[r] \in Item(runs) /\ runs \in Nat /\ runs <= runs
  BY ChangeBounds DEF TypeOK, Item
<1>2. file \in Item(runs)
  BY <1>1 DEF Item
<1>3. /\ file.state = state /\ file.dry = item[r].dry
      /\ file.candidate = item[r].candidate /\ file.decision = item[r].decision
  BY <1>1 DEF Item
<1>4. item' = [item EXCEPT ![r] = file]
  BY DEF Writes
<1> HIDE DEF file
<1>5. /\ FileOf(r, file.state, file.dry, file.candidate, file.decision)
      /\ item' \in [Requests -> Item(runs)]
  BY <1>1, <1>2, <1>4, FileWritten
<1> QED  BY <1>3, <1>5

\* So does a file with another state and decision.
LEMMA DecisionWritten ==
  ASSUME TypeOK, NEW r \in Requests, NEW state \in States,
         NEW decision \in {"yes", "no", "superseded"},
         item' = [item EXCEPT ![r].state = state, ![r].decision = decision]
  PROVE  /\ FileOf(r, state, item[r].dry, item[r].candidate, decision)
         /\ item' \in [Requests -> Item(runs)]
<1> DEFINE file == [item[r] EXCEPT !.state = state, !.decision = decision]
<1>1. item[r] \in Item(runs) /\ runs \in Nat /\ runs <= runs /\ r \in DOMAIN item
  BY ChangeBounds DEF TypeOK, Item
<1>2. file \in Item(runs)
  BY <1>1 DEF Item
<1>3. /\ file.state = state /\ file.dry = item[r].dry
      /\ file.candidate = item[r].candidate /\ file.decision = decision
  BY <1>1 DEF Item
<1>4. item' = [item EXCEPT ![r] = file]
  BY <1>1
<1> HIDE DEF file
<1>5. /\ FileOf(r, file.state, file.dry, file.candidate, file.decision)
      /\ item' \in [Requests -> Item(runs)]
  BY <1>1, <1>2, <1>4, FileWritten
<1> QED  BY <1>3, <1>5

-----------------------------------------------------------------------------
(* Each step keeps the invariant: what it writes, then the parts one by one. *)

\* A document put into the queue: its request has no dry run, so nothing of the workbench.
LEMMA ReceiveKeeps ==
  ASSUME IInv, NEW r \in Requests, Receive(r)
  PROVE  IInv'
<1> USE NobodyIsNoRequest, ChangeBounds
    DEF Receive, At, Is, GoesTo, Idle, Intake, Workbench, Delivered
<1> DEFINE now == IF Is(r, "absent") THEN "received" ELSE item[r].state
<1>1. /\ FileOf(r, now, item[r].dry, item[r].candidate, item[r].decision)
      /\ item' \in [Requests -> Item(runs)]
  <2>1. CASE Is(r, "absent")
    BY <2>1, StateWritten DEF IInv, States, Writes
  <2>2. CASE ~Is(r, "absent")
    BY <2>2 DEF IInv, TypeOK, FileOf, Item
  <2> QED  BY <2>1, <2>2
<1>a. \/ now = "received" /\ item[r].state \in {"absent", "received"}
      \/ now = item[r].state /\ item[r].state \notin {"absent", "received"}
  OBVIOUS
<1>b. ~item[r].dry
  BY DEF IInv, FreshIsDryless
<1> HIDE DEF now
<1>2. TypeOK'
  BY <1>1, <1>a, <1>b DEF IInv, TypeOK, Item
<1>3. HandHoldsState'
  BY <1>1, <1>a, <1>b DEF IInv, HandHoldsState, FreshIsDryless, FileOf
<1>4. FreshIsDryless'
  BY <1>1, <1>a, <1>b DEF IInv, FreshIsDryless, HandHoldsState, FileOf
<1>5. PassedDid'
  BY <1>1, <1>a, <1>b DEF IInv, PassedDid, HandHoldsState, FileOf, Empty
<1>6. ApprovedByOwner'
  BY <1>1, <1>a, <1>b DEF IInv, ApprovedByOwner, HandHoldsState, FileOf
<1>7. OnlyTheHandIsMidway'
  BY <1>1, <1>a, <1>b DEF IInv, OnlyTheHandIsMidway, Midway, HandHoldsState, FileOf
<1> QED  BY <1>2, <1>3, <1>4, <1>5, <1>6, <1>7 DEF IInv

\* Validated, and still without its dry run.
LEMMA ValidateKeeps ==
  ASSUME IInv, NEW r \in Requests, Validate(r)
  PROVE  IInv'
<1> USE NobodyIsNoRequest, ChangeBounds
    DEF Validate, At, Is, GoesTo, Idle, Intake, Workbench
<1>1. /\ FileOf(r, "validated", item[r].dry, item[r].candidate, item[r].decision)
      /\ item' \in [Requests -> Item(runs)]
  BY StateWritten DEF IInv, States
<1>2. TypeOK'
  BY <1>1 DEF IInv, TypeOK, Item
<1>3. HandHoldsState'
  BY <1>1 DEF IInv, HandHoldsState, FreshIsDryless, FileOf
<1>4. FreshIsDryless'
  BY <1>1 DEF IInv, FreshIsDryless, HandHoldsState, FileOf
<1>5. PassedDid'
  BY <1>1 DEF IInv, PassedDid, HandHoldsState, FileOf, Empty
<1>6. ApprovedByOwner'
  BY <1>1 DEF IInv, ApprovedByOwner, HandHoldsState, FileOf
<1>7. OnlyTheHandIsMidway'
  BY <1>1 DEF IInv, OnlyTheHandIsMidway, Midway, HandHoldsState, FileOf
<1> QED  BY <1>2, <1>3, <1>4, <1>5, <1>6, <1>7 DEF IInv

\* The one step that gives a request its dry run.
LEMMA DryRunKeeps ==
  ASSUME IInv, NEW r \in Requests, DryRun(r)
  PROVE  IInv'
<1> USE NobodyIsNoRequest, ChangeBounds
    DEF DryRun, At, Is, GoesTo, Idle, Intake, Workbench
<1>1. /\ FileOf(r, "dry_run_evaluated", TRUE, item[r].candidate, item[r].decision)
      /\ item' \in [Requests -> Item(runs)]
  <2> DEFINE file == [item[r] EXCEPT !.state = "dry_run_evaluated", !.dry = TRUE]
  <2>1. item[r] \in Item(runs) /\ runs \in Nat /\ runs <= runs /\ r \in DOMAIN item
    BY DEF IInv, TypeOK, Item
  <2>2. file \in Item(runs)
    BY <2>1 DEF Item, States
  <2>3. /\ file.state = "dry_run_evaluated" /\ file.dry = TRUE
        /\ file.candidate = item[r].candidate /\ file.decision = item[r].decision
    BY <2>1 DEF Item
  <2>4. item' = [item EXCEPT ![r] = file]
    BY <2>1
  <2> HIDE DEF file
  <2>5. /\ FileOf(r, file.state, file.dry, file.candidate, file.decision)
        /\ item' \in [Requests -> Item(runs)]
    BY <2>1, <2>2, <2>4, FileWritten DEF IInv
  <2> QED  BY <2>3, <2>5
<1>2. TypeOK'
  BY <1>1 DEF IInv, TypeOK, Item
<1>3. HandHoldsState'
  BY <1>1 DEF IInv, HandHoldsState, FreshIsDryless, FileOf
<1>4. FreshIsDryless'
  BY <1>1 DEF IInv, FreshIsDryless, HandHoldsState, FileOf
<1>5. PassedDid'
  BY <1>1 DEF IInv, PassedDid, HandHoldsState, FileOf, Empty
<1>6. ApprovedByOwner'
  BY <1>1 DEF IInv, ApprovedByOwner, HandHoldsState, FileOf
<1>7. OnlyTheHandIsMidway'
  BY <1>1 DEF IInv, OnlyTheHandIsMidway, Midway, HandHoldsState, FileOf
<1> QED  BY <1>2, <1>3, <1>4, <1>5, <1>6, <1>7 DEF IInv

\* The intake ends, with a dry run.
LEMMA AwaitKeeps ==
  ASSUME IInv, NEW r \in Requests, Await(r)
  PROVE  IInv'
<1> USE NobodyIsNoRequest, ChangeBounds
    DEF Await, At, Is, GoesTo, Idle, Intake, Workbench
<1>1. /\ FileOf(r, "awaiting_approval", item[r].dry, item[r].candidate, item[r].decision)
      /\ item' \in [Requests -> Item(runs)]
  BY StateWritten DEF IInv, States
<1>2. TypeOK'
  BY <1>1 DEF IInv, TypeOK, Item
<1>3. HandHoldsState'
  BY <1>1 DEF IInv, HandHoldsState, FreshIsDryless, FileOf
<1>4. FreshIsDryless'
  BY <1>1 DEF IInv, FreshIsDryless, HandHoldsState, FileOf
<1>5. PassedDid'
  BY <1>1 DEF IInv, PassedDid, HandHoldsState, FileOf, Empty
<1>6. ApprovedByOwner'
  BY <1>1 DEF IInv, ApprovedByOwner, HandHoldsState, FileOf
<1>7. OnlyTheHandIsMidway'
  BY <1>1 DEF IInv, OnlyTheHandIsMidway, Midway, HandHoldsState, FileOf
<1> QED  BY <1>2, <1>3, <1>4, <1>5, <1>6, <1>7 DEF IInv

\* A decision brings no request midway, and no other candidate.
LEMMA DecideKeeps ==
  ASSUME IInv, NEW r \in Requests, NEW approved \in BOOLEAN, Decide(r, approved)
  PROVE  IInv'
<1> USE NobodyIsNoRequest, ChangeBounds
    DEF Decide, At, Is, GoesTo, Idle, Intake, Workbench
<1> DEFINE now == IF approved THEN "approved" ELSE "rejected"
           decision == IF approved THEN "yes" ELSE "no"
<1>1. /\ FileOf(r, now, item[r].dry, item[r].candidate, decision)
      /\ item' \in [Requests -> Item(runs)]
  BY DecisionWritten DEF IInv, States
<1>a. \/ now = "approved" /\ decision = "yes"
      \/ now = "rejected" /\ decision = "no"
  OBVIOUS
<1> HIDE DEF now, decision
<1>2. TypeOK'
  BY <1>1, <1>a DEF IInv, TypeOK, Item
<1>3. HandHoldsState'
  BY <1>1, <1>a DEF IInv, HandHoldsState, FreshIsDryless, FileOf
<1>4. FreshIsDryless'
  BY <1>1, <1>a DEF IInv, FreshIsDryless, HandHoldsState, FileOf
<1>5. PassedDid'
  BY <1>1, <1>a DEF IInv, PassedDid, HandHoldsState, FileOf, Empty
<1>6. ApprovedByOwner'
  BY <1>1, <1>a DEF IInv, ApprovedByOwner, HandHoldsState, FileOf
<1>7. OnlyTheHandIsMidway'
  BY <1>1, <1>a DEF IInv, OnlyTheHandIsMidway, Midway, HandHoldsState, FileOf
<1> QED  BY <1>2, <1>3, <1>4, <1>5, <1>6, <1>7 DEF IInv

\* The workbench starts from the owner's yes.
LEMMA RunKeeps ==
  ASSUME IInv, NEW r \in Requests, Run(r)
  PROVE  IInv'
<1> USE NobodyIsNoRequest, ChangeBounds
    DEF Run, At, Is, GoesTo, Idle, Intake, Workbench
<1>1. /\ FileOf(r, "workbench_running", item[r].dry, item[r].candidate, item[r].decision)
      /\ item' \in [Requests -> Item(runs)]
  BY StateWritten DEF IInv, States
<1>2. TypeOK'
  BY <1>1 DEF IInv, TypeOK, Item
<1>3. HandHoldsState'
  BY <1>1 DEF IInv, HandHoldsState, FreshIsDryless, FileOf
<1>4. FreshIsDryless'
  BY <1>1 DEF IInv, FreshIsDryless, HandHoldsState, FileOf
<1>5. PassedDid'
  BY <1>1 DEF IInv, PassedDid, HandHoldsState, FileOf, Empty
<1>6. ApprovedByOwner'
  BY <1>1 DEF IInv, ApprovedByOwner, HandHoldsState, FileOf
<1>7. OnlyTheHandIsMidway'
  BY <1>1 DEF IInv, OnlyTheHandIsMidway, Midway, HandHoldsState, FileOf
<1> QED  BY <1>2, <1>3, <1>4, <1>5, <1>6, <1>7 DEF IInv

\* A candidate is named by its run, and is not passed yet.
LEMMA AgentDoneKeeps ==
  ASSUME IInv, NEW r \in Requests, AgentDone(r)
  PROVE  IInv'
<1> USE NobodyIsNoRequest, ChangeBounds
    DEF AgentDone, At, Is, GoesTo, Idle, Intake, Workbench
<1>1. /\ FileOf(r, "candidate_ready", item[r].dry, runs, item[r].decision)
      /\ item' \in [Requests -> Item(runs)]
  <2> DEFINE file == [item[r] EXCEPT !.state = "candidate_ready", !.candidate = runs]
  <2>1. item[r] \in Item(runs) /\ runs \in Nat /\ runs <= runs /\ r \in DOMAIN item
    BY DEF IInv, TypeOK, Item
  <2>2. file \in Item(runs)
    BY <2>1 DEF Item, States
  <2>3. /\ file.state = "candidate_ready" /\ file.dry = item[r].dry
        /\ file.candidate = runs /\ file.decision = item[r].decision
    BY <2>1 DEF Item
  <2>4. item' = [item EXCEPT ![r] = file]
    BY <2>1
  <2> HIDE DEF file
  <2>5. /\ FileOf(r, file.state, file.dry, file.candidate, file.decision)
        /\ item' \in [Requests -> Item(runs)]
    BY <2>1, <2>2, <2>4, FileWritten DEF IInv
  <2> QED  BY <2>3, <2>5
<1>2. TypeOK'
  BY <1>1 DEF IInv, TypeOK, Item
<1>3. HandHoldsState'
  <2>1. CASE hand' = Idle
    BY <1>1, <2>1 DEF IInv, HandHoldsState, FreshIsDryless, FileOf
  <2>2. CASE GoesTo(r, "gates")
    BY <1>1, <2>2 DEF IInv, HandHoldsState, FreshIsDryless, FileOf
  <2> QED  BY <2>1, <2>2
<1>4. FreshIsDryless'
  BY <1>1 DEF IInv, FreshIsDryless, HandHoldsState, FileOf
<1>5. PassedDid'
  BY <1>1 DEF IInv, PassedDid, HandHoldsState, FileOf, Empty
<1>6. ApprovedByOwner'
  BY <1>1 DEF IInv, ApprovedByOwner, HandHoldsState, FileOf
<1>7. OnlyTheHandIsMidway'
  <2>1. CASE hand' = Idle
    BY <1>1, <2>1 DEF IInv, OnlyTheHandIsMidway, Midway, HandHoldsState, FileOf
  <2>2. CASE GoesTo(r, "gates")
    BY <1>1, <2>2 DEF IInv, OnlyTheHandIsMidway, Midway, HandHoldsState, FileOf
  <2> QED  BY <2>1, <2>2
<1> QED  BY <1>2, <1>3, <1>4, <1>5, <1>6, <1>7 DEF IInv

\* A session that died is written down.
LEMMA AgentFailedKeeps ==
  ASSUME IInv, NEW r \in Requests, AgentFailed(r)
  PROVE  IInv'
<1> USE NobodyIsNoRequest, ChangeBounds
    DEF AgentFailed, At, Is, GoesTo, Idle, Intake, Workbench, Died
<1>1. /\ FileOf(r, "gate_failed", item[r].dry, item[r].candidate, item[r].decision)
      /\ item' \in [Requests -> Item(runs)]
  BY StateWritten DEF IInv, States
<1>2. TypeOK'
  BY <1>1 DEF IInv, TypeOK, Item
<1>3. HandHoldsState'
  BY <1>1 DEF IInv, HandHoldsState, FreshIsDryless, FileOf
<1>4. FreshIsDryless'
  BY <1>1 DEF IInv, FreshIsDryless, HandHoldsState, FileOf
<1>5. PassedDid'
  BY <1>1 DEF IInv, PassedDid, HandHoldsState, FileOf, Empty
<1>6. ApprovedByOwner'
  BY <1>1, ZenonT(30) DEF IInv, ApprovedByOwner, HandHoldsState, FileOf
<1>7. OnlyTheHandIsMidway'
  BY <1>1 DEF IInv, OnlyTheHandIsMidway, Midway, HandHoldsState, FileOf
<1> QED  BY <1>2, <1>3, <1>4, <1>5, <1>6, <1>7 DEF IInv

\* Passing puts the candidate on record; failing takes the request out of the passed states.
LEMMA GatesKeeps ==
  ASSUME IInv, NEW r \in Requests, Gates(r)
  PROVE  IInv'
<1> USE NobodyIsNoRequest, ChangeBounds
    DEF Gates, Gateable, At, Is, GoesTo, Idle, Intake, Workbench
<1>a. item[r].candidate \in 1..runs
  BY DEF IInv, TypeOK
<1>b. ~Is(r, "staged") /\ (breaks = 0 => item[r].dry)
  BY DEF IInv, OnlyTheHandIsMidway
<1>1. CASE /\ Writes(r, "gate_passed")
           /\ passed' = passed \cup {<<r, item[r].candidate>>}
  <2>1. /\ FileOf(r, "gate_passed", item[r].dry, item[r].candidate, item[r].decision)
        /\ item' \in [Requests -> Item(runs)]
    BY <1>1, StateWritten DEF IInv, States
  <2>2. TypeOK'
    BY <1>1, <1>a, <1>b, <2>1 DEF IInv, TypeOK, Item
  <2>3. HandHoldsState'
    BY <1>1, <1>a, <1>b, <2>1 DEF IInv, HandHoldsState, FreshIsDryless, FileOf
  <2>4. FreshIsDryless'
    BY <1>1, <1>a, <1>b, <2>1 DEF IInv, FreshIsDryless, HandHoldsState, FileOf
  <2>5. PassedDid'
    BY <1>1, <1>a, <1>b, <2>1 DEF IInv, PassedDid, HandHoldsState, FileOf, Empty
  <2>6. ApprovedByOwner'
    BY <1>1, <1>a, <1>b, <2>1 DEF IInv, ApprovedByOwner, HandHoldsState, FileOf
  <2>7. OnlyTheHandIsMidway'
    BY <1>1, <1>a, <1>b, <2>1 DEF IInv, OnlyTheHandIsMidway, Midway, HandHoldsState, FileOf
  <2> QED  BY <2>2, <2>3, <2>4, <2>5, <2>6, <2>7 DEF IInv
<1>2. CASE /\ item' = [item EXCEPT ![r].state = "gate_failed", ![r].decision = "superseded"]
           /\ UNCHANGED passed
  <2>1. /\ FileOf(r, "gate_failed", item[r].dry, item[r].candidate, "superseded")
        /\ item' \in [Requests -> Item(runs)]
    BY <1>2, DecisionWritten DEF IInv, States
  <2>2. TypeOK'
    BY <1>2, <1>a, <1>b, <2>1 DEF IInv, TypeOK, Item
  <2>3. HandHoldsState'
    BY <1>2, <1>a, <1>b, <2>1 DEF IInv, HandHoldsState, FreshIsDryless, FileOf
  <2>4. FreshIsDryless'
    BY <1>2, <1>a, <1>b, <2>1 DEF IInv, FreshIsDryless, HandHoldsState, FileOf
  <2>5. PassedDid'
    BY <1>2, <1>a, <1>b, <2>1 DEF IInv, PassedDid, HandHoldsState, FileOf, Empty
  <2>6. ApprovedByOwner'
    BY <1>2, <1>a, <1>b, <2>1 DEF IInv, ApprovedByOwner, HandHoldsState, FileOf
  <2>7. OnlyTheHandIsMidway'
    BY <1>2, <1>a, <1>b, <2>1 DEF IInv, OnlyTheHandIsMidway, Midway, HandHoldsState, FileOf
  <2> QED  BY <2>2, <2>3, <2>4, <2>5, <2>6, <2>7 DEF IInv
<1> QED  BY <1>1, <1>2

\* Only a passed candidate is packaged.
LEMMA PackageKeeps ==
  ASSUME IInv, NEW r \in Requests, Package(r)
  PROVE  IInv'
<1> USE NobodyIsNoRequest, ChangeBounds
    DEF Package, At, Is, GoesTo, Idle, Intake, Workbench, Promotable
<1>1. /\ FileOf(r, item[r].state, item[r].dry, item[r].candidate, item[r].decision)
      /\ item' \in [Requests -> Item(runs)]
  BY DEF IInv, TypeOK, FileOf, Item
<1>2. TypeOK'
  BY <1>1 DEF IInv, TypeOK, Item
<1>3. HandHoldsState'
  BY <1>1 DEF IInv, HandHoldsState, FreshIsDryless, FileOf
<1>4. FreshIsDryless'
  BY <1>1 DEF IInv, FreshIsDryless, HandHoldsState, FileOf
<1>5. PassedDid'
  BY <1>1 DEF IInv, PassedDid, HandHoldsState, FileOf, Empty
<1>6. ApprovedByOwner'
  BY <1>1 DEF IInv, ApprovedByOwner, HandHoldsState, FileOf
<1>7. OnlyTheHandIsMidway'
  BY <1>1 DEF IInv, OnlyTheHandIsMidway, Midway, HandHoldsState, FileOf
<1> QED  BY <1>2, <1>3, <1>4, <1>5, <1>6, <1>7 DEF IInv

\* The receipt changes neither whose package it is nor of which candidate.
LEMMA VerifyKeeps ==
  ASSUME IInv, NEW r \in Requests, Verify(r)
  PROVE  IInv'
<1> USE NobodyIsNoRequest, ChangeBounds
    DEF Verify, At, Is, GoesTo, Idle, Intake, Workbench
<1>1. /\ FileOf(r, item[r].state, item[r].dry, item[r].candidate, item[r].decision)
      /\ item' \in [Requests -> Item(runs)]
  BY DEF IInv, TypeOK, FileOf, Item
<1>b. /\ package'.of = package.of /\ package'.candidate = package.candidate
      /\ package' \in [of : Requests \cup {Nobody}, candidate : 0..runs, receipt : BOOLEAN]
  BY DEF IInv, TypeOK
<1>d. package.of = r
  BY DEF IInv, HandHoldsState
<1>c. package # Empty
  BY <1>d DEF Empty
<1>2. TypeOK'
  BY <1>1, <1>b, <1>c DEF IInv, TypeOK, Item
<1>3. HandHoldsState'
  <2>1. CASE hand' = Idle
    BY <1>1, <2>1 DEF IInv, HandHoldsState, FreshIsDryless, FileOf
  <2>2. CASE GoesTo(r, "stage")
    BY <1>1, <1>b, <1>d, <2>2 DEF IInv, HandHoldsState, FreshIsDryless, FileOf
  <2> QED  BY <2>1, <2>2
<1>4. FreshIsDryless'
  BY <1>1, <1>b, <1>c DEF IInv, FreshIsDryless, HandHoldsState, FileOf
<1>5. PassedDid'
  BY <1>1, <1>b, <1>c DEF IInv, PassedDid, HandHoldsState, FileOf, Empty
<1>6. ApprovedByOwner'
  BY <1>1, <1>b, <1>c DEF IInv, ApprovedByOwner, HandHoldsState, FileOf
<1>7. OnlyTheHandIsMidway'
  <2>1. CASE hand' = Idle
    BY <1>1, <2>1 DEF IInv, OnlyTheHandIsMidway, Midway, HandHoldsState, FileOf
  <2>2. CASE GoesTo(r, "stage")
    BY <1>1, <1>b, <1>d, <2>2 DEF IInv, OnlyTheHandIsMidway, Midway, HandHoldsState, FileOf
  <2> QED  BY <2>1, <2>2
<1> QED  BY <1>2, <1>3, <1>4, <1>5, <1>6, <1>7 DEF IInv

\* The staged candidate is the packaged one, which passed.
LEMMA StageKeeps ==
  ASSUME IInv, NEW r \in Requests, Stage(r)
  PROVE  IInv'
<1> USE NobodyIsNoRequest, ChangeBounds
    DEF Stage, At, Is, GoesTo, Idle, Intake, Workbench
<1>1. /\ FileOf(r, "staged", item[r].dry, item[r].candidate, item[r].decision)
      /\ item' \in [Requests -> Item(runs)]
  BY StateWritten DEF IInv, States
<1>2. TypeOK'
  BY <1>1 DEF IInv, TypeOK, Item
<1>3. HandHoldsState'
  BY <1>1 DEF IInv, HandHoldsState, FreshIsDryless, FileOf
<1>4. FreshIsDryless'
  BY <1>1 DEF IInv, FreshIsDryless, HandHoldsState, FileOf
<1>5. PassedDid'
  BY <1>1 DEF IInv, PassedDid, HandHoldsState, FileOf, Empty
<1>6. ApprovedByOwner'
  BY <1>1, ZenonT(30) DEF IInv, ApprovedByOwner, HandHoldsState, FileOf
<1>7. OnlyTheHandIsMidway'
  BY <1>1 DEF IInv, OnlyTheHandIsMidway, Midway, HandHoldsState, FileOf
<1> QED  BY <1>2, <1>3, <1>4, <1>5, <1>6, <1>7 DEF IInv

\* An audit changes no file's state.
LEMMA AuditKeeps ==
  ASSUME IInv, NEW r \in Requests, Audit(r)
  PROVE  IInv'
<1> USE NobodyIsNoRequest, ChangeBounds
    DEF Audit, At, Is, GoesTo, Idle, Intake, Workbench
<1>1. /\ FileOf(r, item[r].state, item[r].dry, item[r].candidate, item[r].decision)
      /\ item' \in [Requests -> Item(runs)]
  BY DEF IInv, TypeOK, FileOf, Item
<1>2. TypeOK'
  BY <1>1 DEF IInv, TypeOK, Item
<1>3. HandHoldsState'
  BY <1>1 DEF IInv, HandHoldsState, FreshIsDryless, FileOf
<1>4. FreshIsDryless'
  BY <1>1 DEF IInv, FreshIsDryless, HandHoldsState, FileOf
<1>5. PassedDid'
  BY <1>1 DEF IInv, PassedDid, HandHoldsState, FileOf, Empty
<1>6. ApprovedByOwner'
  BY <1>1 DEF IInv, ApprovedByOwner, HandHoldsState, FileOf
<1>7. OnlyTheHandIsMidway'
  BY <1>1 DEF IInv, OnlyTheHandIsMidway, Midway, HandHoldsState, FileOf
<1> QED  BY <1>2, <1>3, <1>4, <1>5, <1>6, <1>7 DEF IInv

\* Where a handler stopped, its request may stay midway.
LEMMA BreakKeeps ==
  ASSUME IInv, Break
  PROVE  IInv'
<1> USE NobodyIsNoRequest, ChangeBounds
    DEF Break, At, Is, Idle
<1>1. breaks' \in 0..MaxBreaks /\ breaks' # 0
  BY DEF IInv, TypeOK
<1>2. TypeOK'
  BY <1>1 DEF IInv, TypeOK
<1>3. HandHoldsState'
  BY DEF HandHoldsState
<1>4. FreshIsDryless' /\ PassedDid' /\ ApprovedByOwner'
  BY DEF IInv, FreshIsDryless, PassedDid, ApprovedByOwner
<1>5. OnlyTheHandIsMidway'
  BY <1>1 DEF OnlyTheHandIsMidway
<1> QED  BY <1>2, <1>3, <1>4, <1>5 DEF IInv

LEMMA IInvStutters ==
  ASSUME IInv, UNCHANGED vars
  PROVE  IInv'
BY DEF IInv, vars, TypeOK, HandHoldsState, FreshIsDryless, PassedDid, ApprovedByOwner,
       OnlyTheHandIsMidway, Midway, At, Is

-----------------------------------------------------------------------------
(* The invariant.                                                           *)

LEMMA IInvInit == Init => IInv
<1> SUFFICES ASSUME Init PROVE IInv  OBVIOUS
<1> USE NobodyIsNoRequest, ChangeBounds
    DEF Init, At, Is, Idle, Absent, Intake, Workbench
<1>1. TypeOK
  BY DEF TypeOK, States, Empty
<1>2. HandHoldsState /\ FreshIsDryless /\ ApprovedByOwner
  BY DEF HandHoldsState, FreshIsDryless, ApprovedByOwner
<1>3. PassedDid /\ OnlyTheHandIsMidway
  BY DEF PassedDid, OnlyTheHandIsMidway, Midway
<1> QED  BY <1>1, <1>2, <1>3 DEF IInv

LEMMA IInvStep == IInv /\ [Next]_vars => IInv'
<1> SUFFICES ASSUME IInv, [Next]_vars PROVE IInv'  OBVIOUS
<1>1. ASSUME NEW r \in Requests, Receive(r) PROVE IInv'
  BY <1>1, ReceiveKeeps
<1>2. ASSUME NEW r \in Requests, Validate(r) PROVE IInv'
  BY <1>2, ValidateKeeps
<1>3. ASSUME NEW r \in Requests, DryRun(r) PROVE IInv'
  BY <1>3, DryRunKeeps
<1>4. ASSUME NEW r \in Requests, Await(r) PROVE IInv'
  BY <1>4, AwaitKeeps
<1>5. ASSUME NEW r \in Requests, NEW approved \in BOOLEAN, Decide(r, approved) PROVE IInv'
  BY <1>5, DecideKeeps
<1>6. ASSUME NEW r \in Requests, Run(r) PROVE IInv'
  BY <1>6, RunKeeps
<1>7. ASSUME NEW r \in Requests, AgentDone(r) PROVE IInv'
  BY <1>7, AgentDoneKeeps
<1>8. ASSUME NEW r \in Requests, AgentFailed(r) PROVE IInv'
  BY <1>8, AgentFailedKeeps
<1>9. ASSUME NEW r \in Requests, Gates(r) PROVE IInv'
  BY <1>9, GatesKeeps
<1>10. ASSUME NEW r \in Requests, Package(r) PROVE IInv'
  BY <1>10, PackageKeeps
<1>11. ASSUME NEW r \in Requests, Verify(r) PROVE IInv'
  BY <1>11, VerifyKeeps
<1>12. ASSUME NEW r \in Requests, Stage(r) PROVE IInv'
  BY <1>12, StageKeeps
<1>13. ASSUME NEW r \in Requests, Audit(r) PROVE IInv'
  BY <1>13, AuditKeeps
<1>14. CASE Break
  BY <1>14, BreakKeeps
<1>15. CASE UNCHANGED vars
  BY <1>15, IInvStutters
<1> QED
  BY <1>1, <1>2, <1>3, <1>4, <1>5, <1>6, <1>7, <1>8, <1>9, <1>10, <1>11, <1>12, <1>13,
     <1>14, <1>15 DEF Next

\* The queue, the hand, the package and the counters keep their types, and the five
\* facts above hold of every reachable state.
THEOREM QueueInvariant == Spec => []IInv
<1>1. Init => IInv
  BY IInvInit
<1>2. IInv /\ [Next]_vars => IInv'
  BY IInvStep
<1> QED  BY <1>1, <1>2, PTL DEF Spec

\* Whatever is decided, run again or stopped half way, staging never holds a candidate
\* whose gates did not pass, and no staged request names one: evaluate_gates is the only
\* door to promote_via_packager.
THEOREM StagingIsGated == Spec => []StagedIsGated
<1>1. IInv => StagedIsGated
  BY DEF IInv, PassedDid, StagedIsGated
<1> QED  BY <1>1, QueueInvariant, PTL

\* The workbench never works, gates or stages against the owner's last decision.
THEOREM WorkNeedsApproval == Spec => []WorkIsApproved
<1>1. IInv => WorkIsApproved
  BY DEF IInv, ApprovedByOwner, WorkIsApproved
<1> QED  BY <1>1, QueueInvariant, PTL

\* As long as every handler runs to its end, no request rests between two steps of the
\* intake or in workbench_running, and each has its dry run.
THEOREM OnlyBreaksLeaveMidway == Spec => []MidwayOnlyByABreak
<1>1. ASSUME IInv, breaks = 0, hand = Idle, NEW r \in Requests
      PROVE  ~Midway(r) /\ (~Is(r, "absent") => item[r].dry)
  <2>1. hand.on # r
    BY <1>1, NobodyIsNoRequest DEF Idle
  <2> QED  BY <1>1, <2>1 DEF IInv, OnlyTheHandIsMidway
<1>2. IInv => MidwayOnlyByABreak
  BY <1>1 DEF MidwayOnlyByABreak, Midway
<1> QED  BY <1>2, QueueInvariant, PTL

-----------------------------------------------------------------------------
(* The decision stands.                                                     *)

\* The file of a request that has its dry run is written a state of the intake.
BackToIntake(r) == item[r].dry /\ item'[r].state \in Intake /\ ~Is(r, item'[r].state)

\* The four steps that write a state of the intake write it to a request without its dry
\* run, or go on from the dry run.
LEMMA IntakeTakesNoneBack ==
  ASSUME IInv, NEW r \in Requests, NEW q \in Requests,
         Receive(r) \/ Validate(r) \/ DryRun(r) \/ Await(r)
  PROVE  BackToIntake(q) => Is(q, "dry_run_evaluated")
<1> USE DEF IInv, At, Is
<1>1. CASE Receive(r)
  <2>1. ~item[r].dry
    BY <1>1 DEF Receive, Delivered, FreshIsDryless
  <2>2. item'[q] = item[q] \/ q = r
    BY <1>1 DEF Receive, TypeOK
  <2> QED  BY <2>1, <2>2 DEF BackToIntake
<1>2. CASE Validate(r) \/ DryRun(r)
  <2>1. ~item[r].dry
    BY <1>2 DEF Validate, DryRun, HandHoldsState
  <2>2. item'[q] = item[q] \/ q = r
    BY <1>2 DEF Validate, DryRun, Writes, TypeOK
  <2> QED  BY <2>1, <2>2 DEF BackToIntake
<1>3. CASE Await(r)
  <2>1. Is(r, "dry_run_evaluated")
    BY <1>3 DEF Await, HandHoldsState
  <2>2. item'[q] = item[q] \/ q = r
    BY <1>3 DEF Await, Writes, TypeOK
  <2> QED  BY <2>1, <2>2 DEF BackToIntake
<1> QED  BY <1>1, <1>2, <1>3

\* No other step writes a state of the intake.
LEMMA OthersTakeNoneBack ==
  ASSUME IInv, NEW r \in Requests, NEW q \in Requests,
         \/ \E approved \in BOOLEAN : Decide(r, approved)
         \/ Run(r) \/ AgentDone(r) \/ AgentFailed(r) \/ Gates(r)
         \/ Package(r) \/ Verify(r) \/ Stage(r) \/ Audit(r)
  PROVE  ~BackToIntake(q)
<1>1. item \in [Requests -> Item(runs)]
  BY DEF IInv, TypeOK, Item
<1>2. item'[q] = item[q] \/ item'[q].state \notin Intake
  <2>1. CASE \E approved \in BOOLEAN : Decide(r, approved)
    <3>1. PICK approved \in BOOLEAN : Decide(r, approved)
      BY <2>1
    <3>2. CASE approved
      BY <1>1, <3>1, <3>2 DEF Decide, Item, Intake
    <3>3. CASE ~approved
      BY <1>1, <3>1, <3>3 DEF Decide, Item, Intake
    <3> QED  BY <3>2, <3>3
  <2>2. CASE Run(r) \/ AgentFailed(r) \/ Stage(r)
    BY <1>1, <2>2 DEF Run, AgentFailed, Died, Stage, Writes, Item, Intake
  <2>3. CASE AgentDone(r)
    BY <1>1, <2>3 DEF AgentDone, Item, Intake
  <2>4. CASE Gates(r)
    BY <1>1, <2>4 DEF Gates, Writes, Item, Intake
  <2>5. CASE Package(r) \/ Verify(r) \/ Audit(r)
    BY <2>5 DEF Package, Verify, Audit
  <2> QED  BY <2>1, <2>2, <2>3, <2>4, <2>5
<1> QED  BY <1>2 DEF BackToIntake, Is

\* A document delivered again withdraws no decision and no work of a request that has
\* its dry run, whoever delivers it and whatever was stopped half way.
THEOREM DecisionsStand == Spec => DecisionStands
<1>1. ASSUME IInv, [Next]_vars, NEW q \in Requests
      PROVE  BackToIntake(q) => Is(q, "dry_run_evaluated")
  <2>1. CASE \E r \in Requests : Receive(r) \/ Validate(r) \/ DryRun(r) \/ Await(r)
    BY <1>1, <2>1, IntakeTakesNoneBack
  <2>2. CASE \E r \in Requests :
               \/ \E approved \in BOOLEAN : Decide(r, approved)
               \/ Run(r) \/ AgentDone(r) \/ AgentFailed(r) \/ Gates(r)
               \/ Package(r) \/ Verify(r) \/ Stage(r) \/ Audit(r)
    BY <1>1, <2>2, OthersTakeNoneBack
  <2>3. CASE Break \/ UNCHANGED vars
    BY <2>3 DEF Break, vars, BackToIntake, Is
  <2> QED  BY <1>1, <2>1, <2>2, <2>3 DEF Next
<1>2. IInv /\ [Next]_vars =>
        [\A r \in Requests :
           item[r].dry /\ item'[r].state \in Intake /\ ~Is(r, item'[r].state) =>
             Is(r, "dry_run_evaluated")]_vars
  BY <1>1 DEF BackToIntake
<1> QED  BY <1>2, QueueInvariant, PTL DEF Spec, DecisionStands
===============================================================================
