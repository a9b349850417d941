------------------------------ MODULE WorkerSlots -----------------------------
(***************************************************************************)
(* The slots a worker process runs coding agents in                        *)
(* (factory/build/codewhale_worker.py, InProcessSlotCounter): a cap for the *)
(* process, a cap for each tenant, one slot only a smoke job may hold, and *)
(* a queue served first-in-first-out per tenant, smoke jobs first.         *)
(*                                                                         *)
(* One lock guards the counters and the queue.  An action is one holding   *)
(* of it, from acquiring it to releasing it or waiting on its condition.   *)
(***************************************************************************)
EXTENDS Integers, SequencesExt, FiniteSets

CONSTANTS
  Jobs,         \* build threads, each asking for one slot
  Tenants,
  TenantOf,     \* the tenant a job is bound to
  Reserved,     \* tenants of the smoke's own principal
  Impatient,    \* jobs that do not wait: acquire instead of acquire_waiting
  ProcessCap, TenantCap

ASSUME JobsAssumption ==
  /\ IsFiniteSet(Jobs) /\ Impatient \subseteq Jobs
  /\ TenantOf \in [Jobs -> Tenants] /\ Reserved \subseteq Tenants
ASSUME CapsAssumption == ProcessCap \in Nat \ {0} /\ TenantCap \in Nat \ {0}

VARIABLES
  pc,        \* where a job's thread is
  ticket,    \* the `seq` of its place in the queue, 0 before it has one
  seq,       \* _seq
  active,    \* _process_active
  smoke,     \* _reserved_active
  held,      \* _tenant_active
  holders    \* _tenant_holders: who holds a tenant's slots

queue    == <<ticket, seq>>
counters == <<active, smoke, held, holders>>
vars     == <<pc, queue, counters>>

-----------------------------------------------------------------------------
(* The queue.  A waiter is "checking" once it is woken, "telling" while      *)
(* on_wait runs outside the lock, "asleep" in the condition's wait.          *)

Waiting == {"checking", "telling", "asleep"}
Waiters == {j \in Jobs : pc[j] \in Waiting}

IsReserved(j) == TenantOf[j] \in Reserved

\* reserved_slots
KeptSlots == IF ProcessCap >= 2 THEN 1 ELSE 0

\* Mutant of Admissible: a user may take the last slot.
AdmissibleToLast(j) == held[TenantOf[j]] < TenantCap /\ active < ProcessCap

\* _admissible: a slot is free for this job.
Admissible(j) ==
  /\ held[TenantOf[j]] < TenantCap
  /\ active < ProcessCap
  /\ IsReserved(j) \/ active - smoke < ProcessCap - KeptSlots

\* Mutant of Ahead: plain arrival order, smoke jobs or not.
AheadByArrival(i, j, place) == place[i] < place[j]

\* _serving_order: smoke jobs, then users, each by ticket.
Ahead(i, j, place) ==
  \/ IsReserved(i) /\ ~IsReserved(j)
  \/ (IsReserved(i) <=> IsReserved(j)) /\ place[i] < place[j]

\* Mutant of HasTurn: a job waits for everyone before it, able to run or not.
HasTurnInLine(j, place) ==
  /\ Admissible(j)
  /\ \A i \in Waiters : ~Ahead(i, j, place)

\* _turn_for: the first in serving order that can use a slot, and no one of its
\* own tenant before it.
HasTurn(j, place) ==
  /\ Admissible(j)
  /\ \A i \in Waiters : Ahead(i, j, place) => TenantOf[i] # TenantOf[j] /\ ~Admissible(i)

-----------------------------------------------------------------------------
Init ==
  /\ pc = [j \in Jobs |-> "new"] /\ ticket = [j \in Jobs |-> 0] /\ seq = 0
  /\ active = 0 /\ smoke = 0
  /\ held = [t \in Tenants |-> 0] /\ holders = [t \in Tenants |-> <<>>]

\* Mutant of Wake: whoever leaves wakes nobody.
WakeNobody(j, place) == pc' = [pc EXCEPT ![j] = place]

\* notify_all, and the thread's own next place.
Wake(j, place) ==
  pc' = [i \in Jobs |-> IF i = j THEN place
                        ELSE IF pc[i] = "asleep" THEN "checking" ELSE pc[i]]

\* _take
Take(j, reserved) ==
  LET t == TenantOf[j]
  IN  /\ active' = active + 1
      /\ smoke' = IF reserved THEN smoke + 1 ELSE smoke
      /\ held' = [held EXCEPT ![t] = @ + 1]
      /\ holders' = [holders EXCEPT ![t] = Append(@, [job |-> j, reserved |-> reserved])]

\* One turn of acquire_waiting's loop: in, which may let in the one behind, or out
\* of the lock to narrate its place (on_wait).
Proceed(j, place) ==
  IF HasTurn(j, place)
  THEN Take(j, IsReserved(j)) /\ Wake(j, "holding")
  ELSE pc' = [pc EXCEPT ![j] = "telling"] /\ UNCHANGED counters

\* Not its turn and the run's phase wall is spent: SLOT_WAIT_EXHAUSTED.
Exhaust(j, place) == ~HasTurn(j, place) /\ Wake(j, "gone") /\ UNCHANGED counters

\* acquire_waiting joins the queue and looks at once.
Join(j) ==
  /\ pc[j] = "new" /\ j \notin Impatient
  /\ seq' = seq + 1 /\ ticket' = [ticket EXCEPT ![j] = seq + 1]
  /\ LET place == [ticket EXCEPT ![j] = seq + 1]
     IN  Proceed(j, place) \/ Exhaust(j, place)

Check(j) == pc[j] = "checking" /\ Proceed(j, ticket) /\ UNCHANGED queue

GiveUp(j) == pc[j] = "checking" /\ Exhaust(j, ticket) /\ UNCHANGED queue

\* Mutant of Told: it goes to sleep on what it knew before it let go of the lock.
ToldUnchecked(j) ==
  /\ pc[j] = "telling"
  /\ pc' = [pc EXCEPT ![j] = "asleep"]
  /\ UNCHANGED <<queue, counters>>

\* The lock is taken back and the turn asked again: what was freed while it
\* talked woke nobody.
Told(j) ==
  /\ pc[j] = "telling"
  /\ IF HasTurn(j, ticket)
     THEN Take(j, IsReserved(j)) /\ Wake(j, "holding")
     ELSE pc' = [pc EXCEPT ![j] = "asleep"] /\ UNCHANGED counters
  /\ UNCHANGED queue

\* on_wait writes the ledger, which can fail: the waiter leaves.
FailTelling(j) ==
  /\ pc[j] = "telling"
  /\ Wake(j, "gone")
  /\ UNCHANGED <<queue, counters>>

\* The condition's wait times out.
Poll(j) ==
  /\ pc[j] = "asleep"
  /\ pc' = [pc EXCEPT ![j] = "checking"]
  /\ UNCHANGED <<queue, counters>>

\* acquire: a slot now or a refusal, and never a reserved one.
Grab(j) ==
  /\ pc[j] = "new" /\ j \in Impatient
  /\ IF active < ProcessCap /\ held[TenantOf[j]] < TenantCap
     THEN Take(j, FALSE) /\ pc' = [pc EXCEPT ![j] = "holding"]
     ELSE pc' = [pc EXCEPT ![j] = "gone"] /\ UNCHANGED counters
  /\ UNCHANGED queue

\* Mutant of Release: the kept slot stays counted as the smoke's.
ReleaseKeepingSmoke(j) ==
  LET t == TenantOf[j]
  IN  /\ pc[j] = "holding"
      /\ active' = active - 1 /\ held' = [held EXCEPT ![t] = @ - 1]
      /\ holders' = [holders EXCEPT ![t] = IF held[t] > 1 THEN Front(@) ELSE <<>>]
      /\ Wake(j, "gone")
      /\ UNCHANGED <<smoke, queue>>

\* release: the entry dropped is the tenant's last, and an empty tenant is forgotten.
Release(j) ==
  LET t    == TenantOf[j]
      last == Last(holders[t])
  IN  /\ pc[j] = "holding"
      /\ active' = active - 1
      /\ smoke' = IF last.reserved /\ smoke > 0 THEN smoke - 1 ELSE smoke
      /\ held' = [held EXCEPT ![t] = @ - 1]
      /\ holders' = [holders EXCEPT ![t] = IF held[t] > 1 THEN Front(@) ELSE <<>>]
      /\ Wake(j, "gone")
      /\ UNCHANGED queue

Step(j)   == Check(j) \/ Told(j) \/ Release(j)
Leave(j)  == GiveUp(j) \/ FailTelling(j)
Arrive(j) == Join(j) \/ Grab(j)

Next == \E j \in Jobs : Arrive(j) \/ Step(j) \/ Leave(j) \/ Poll(j)

Spec == Init /\ [][Next]_vars

\* Woken threads get the lock, on_wait returns, builds end.  The poll, the wall and
\* new arrivals are left out: a waiter must not need them.
FairSpec == Spec /\ \A j \in Jobs : WF_vars(Step(j))

-----------------------------------------------------------------------------
Places == {"new", "checking", "telling", "asleep", "holding", "gone"}

Entries == [job : Jobs, reserved : BOOLEAN]

\* Every variable keeps its shape.
TypeOK ==
  /\ pc \in [Jobs -> Places] /\ ticket \in [Jobs -> Nat] /\ seq \in Nat
  /\ active \in Nat /\ smoke \in Nat /\ held \in [Tenants -> Nat]
  /\ holders \in [Tenants -> Seq(Entries)]

Holding       == {j \in Jobs : pc[j] = "holding"}
HoldingFor(t) == {j \in Holding : TenantOf[j] = t}

\* No slot is leaked or given back twice: the counters the caps are enforced with
\* count the jobs that run, for the process, for each tenant and for the smoke.
CountersCountTheRunning ==
  /\ active = Cardinality(Holding)
  /\ smoke = Cardinality({j \in Holding : IsReserved(j)})
  /\ \A t \in Tenants : held[t] = Cardinality(HoldingFor(t)) /\ Len(holders[t]) = held[t]

\* Neither cap is exceeded, and the users who queue leave the smoke its slot: on a
\* box of two slots or more they never hold them all.
SlotsKept ==
  /\ Cardinality(Holding) <= ProcessCap
  /\ \A t \in Tenants : Cardinality(HoldingFor(t)) <= TenantCap
  /\ Cardinality({j \in Holding \ Impatient : ~IsReserved(j)}) <= ProcessCap - KeptSlots

\* No wake-up is missed: a job whose turn it is is not asleep, although slots are
\* freed while it narrates its place outside the lock.  A job that never queued may
\* shift the turn and wake nobody; then it holds a slot, whose release will.
SleepersHaveNoTurn ==
  \A j \in Waiters : pc[j] = "asleep" /\ HasTurn(j, ticket) =>
    \E i \in Impatient : pc[i] = "holding"

\* No slot idles: when a waiting job could use a free slot, some waiting job is let
\* in, however the two caps, the kept slot and the per-tenant order interact.
NoIdleSlot == (\E j \in Waiters : Admissible(j)) => \E j \in Waiters : HasTurn(j, ticket)

\* Of two waiting jobs the later one of a tenant does not start before the earlier,
\* nor a user's before a smoke job that could start.
Overtakes(i, j) ==
  \/ TenantOf[i] = TenantOf[j] /\ ticket[j] < ticket[i]
  \/ ~IsReserved(i) /\ IsReserved(j) /\ Admissible(j)

StartInOrder ==
  [][\A i, j \in Waiters : Overtakes(i, j) => pc'[i] # "holding"]_vars

\* A job that waits gets its slot, or leaves: no one sleeps through the last
\* release, with no help from the poll.
WaitersServed == \A j \in Jobs : pc[j] \in Waiting ~> pc[j] \in {"holding", "gone"}

(* What the repository says and the code does not keep.                      *)

\* The jobs a tenant's refusal names are the tenant's jobs that run: a released
\* holder no longer appears.
HoldersAreRunning ==
  \A t \in Tenants : {holders[t][n].job : n \in 1 .. Len(holders[t])} \subseteq Holding
=============================================================================
