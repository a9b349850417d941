# CerebrumDev.ai: the build engine and its services in TLA+

CerebrumDev.ai turns a conversation into a generated platform. Two things have to be
right when processes die, steps fail and users press a button twice. The first
is the build engine: a ledger, a runner that walks five phases, the jobs that start
and resume it, the branch it is checkpointed to, and the Store gate it may be
handed to. The second is what surrounds it: the quota a build is charged to, the
session it belongs to, the change requests made to its product, the backups of it
all, and the limiter at the doors. This directory models both.

## Reading guide

| module | models | kind |
|---|---|---|
| `BuildLedger` | `factory/build/ledger.py`, the event kinds, and every reading of the log | operators, no state |
| `RoleRunner` | `runner.py`, `build_jobs._run` and `start_runner_build`, `start_over`, attach, the branch checkpoints, the Store-gate answers | state machine |
| `BuildPromise` | what a reader of the ledger may rely on | abstract specification |
| `WorkerSlots` | `InProcessSlotCounter` of `codewhale_worker.py` | state machine |
| `StoreGate` | `n3_store_gate.py`'s waiters, the doors and the thread registry around one workspace, the boot hooks of `orphan_recovery.py` | state machine |
| `GenerationQuota` | `trial_limits.py`, the doors that start a build, the quota marker of `build_jobs.py`, Stripe's events | state machine |
| `SessionLife` | `session_store.py`, `session_persistence.py`, `upload_processor.py`, `data_rights.py` for one session | state machine |
| `ChangeRequests` | `change_requests/` and `workbench/` for one product | state machine |
| `Backups` | `backup.py`, `backup_scheduler.py`, the merge of `migrate_accounts_to_postgres.py` | state machine |
| `RateLimit` | `rate_limit.py` under `llm_throttle.py` and the sign-in doors | state machine |
| `LedgerReplay` | the fold of `BuildLedger` beside the whole log | state machine |
| `MCRoleRunner`, `MCWorkerSlots`, `MCGenerationQuota`, `MCSessionLife`, `MCRateLimit` | constants and symmetry for TLC | instances |
| `RoleRunnerProofs`, `LedgerReplayProofs`, `WorkerSlotsProofs`, `StoreGateProofs`, `LimitsProofs` (of `GenerationQuota` and `RateLimit`), `SessionLifeProofs`, `ChangeRequestsProofs`, `BackupsProofs` | the theorems | proofs |

## The system: an inventory

Paths are under `src/backend/app/`.

| component | state it keeps | operations | talks to | what is hard | what makes it correct |
|---|---|---|---|---|---|
| Build ledger (`factory/build/ledger.py`) | an append-only JSONL file | append; completed roles, verdict, interruption, handoff, budget, pins | everything below reads it | readings of a log several parties write, stale events | each reading is the one its docstring states; a pass withdrawn is never counted |
| Role runner (`runner.py`) | `done`, work list, counters, cycle (memory only) | run, decide, rework, finish, reopen | ledger, workspace, gates, branch | crash between any two effects; loops | success only of all five phases on the shipped tree; bounded rework; it ends |
| Workspace (`workspace.py`) | `app/`, a staging tree | stage, commit | runner | a commit killed half-way | no phase runs on a torn tree |
| Build jobs (`build_jobs.py`) | thread registry, crash marker, ledger status | start, resume, status, crash record | runner, Store gate | status read before a start; two starts | a handed-off run is not re-run; a resume continues |
| Chat and HTTP doors (`platform_chat_flow.py`, `routers/chat.py`, `routers/session_product.py`) | session and its paths | approve, continue, start over, attach by a pasted link, generate, reseed | build jobs, branch | two doors at once; doors that do not look for a live thread | start over is the one door to a second workspace |
| Branch of record (`branch_attach.py`, `platform_branch.py`, `builds_push.py`) | a git branch, trailers | checkpoint, attach, archive | runner, GitHub | push failure, stale trailers | the tip never claims more than was judged |
| Store gate (`n3_store_gate.py`) | handoff event, waiter thread | hand off, poll, ingest, reopen | ledger, GitHub | late answers, two waiters, timeouts | one answer, to the run that asked |
| Worker slots (`codewhale_worker.py`) | holders, FIFO of waiters | acquire, wait, release | WRITER runs | lost wake-ups, reserved slots | caps, per-tenant order, nobody idles beside a free slot |
| Orphan recovery (`orphan_recovery.py`) | none (reads ledgers) | boot resume, stranded handoffs | build jobs | races a user's resume | one thread per build |
| Writer internals (`writer_phases.py`, `writer_fanout.py`, `agent_process.py`, `promotion.py`) | subprocesses, partial files | passes, fan-out, watchdog | worker, workspace | kill of a hung CLI, partial promotion | nothing half-promoted |
| Gates and floors (`gates.py`, `*_floor.py`) | none | judge a tree | runner | none of control | verdict of content |
| Trial limits (`core/trial_limits.py`) | usage counters, a marker per workspace | check, charge, refund | accounts store, build jobs, Stripe | check and charge around a start of seconds; whom to refund | the overdraft is bounded; who got a build paid, who did not is refunded |
| Rate limiter (`core/rate_limit.py`) | buckets in memory or Redis | check | routers | eviction, two media, outages | a window's attempts are bounded; an outage locks nobody out but sign-ins |
| Sessions (`core/session_*.py`, `data_rights.py`, `upload_processor.py`) | memory map, snapshots, vectors, the owner's row | create, load, edit, upload, erase | routers, Chroma | await points, pool threads, partial erasure, restart | what was answered survives; what lost its owner is gone |
| Change requests, workbench (`change_requests/`, `workbench/`) | one JSON file each, a staging directory | receive, decide, run, gate, promote | packager | handlers that stop half way, verdicts on an earlier candidate, redelivery | nothing staged that did not pass; the owner's last word holds |
| Heals (`resident_engineer/heal/`) | approvals, runtime settings | approve, heal, roll back | database | consume race, roll-back of another's heal | one approval, one heal |
| RAG ingestion (`core/rag_ingestion_store.py`) | JSON files | save job, list | ingest jobs | lost update | no job is lost |
| Backups (`core/backup*.py`, the merge script) | archives, last report | back up, prune, report, merge | accounts store | two runs in one directory, torn archives, a merge after a merge | a readable archive survives; nobody's address is lost |
| Accounts, billing (`core/auth.py`, `core/stripe_billing.py`) | database rows | login, webhooks | Stripe | redelivered webhooks | an old event sent again changes nothing |
| Catalogues, compilers, kernel, chat text, React client | none that lives | pure functions, text, views | | | not control |

## The plan

1. **Core**, done: `BuildLedger`, `RoleRunner`, `BuildPromise`, `LedgerReplay`, the
   worker's slot queue `WorkerSlots`, and `StoreGate` (requests, runners, waiters
   and boots around one workspace).
2. **Services**, done: `GenerationQuota`, `SessionLife`, `ChangeRequests`, `Backups`,
   `RateLimit`.
3. **Proofs**, done for every safety property of every passing run.
4. Lower: the duplicate sequence number of two writers of one ledger, the pilot
   cycle's door in `StoreGate`, concurrent saves of the RAG ingestion's files.

Typing (`TypeOK`; `RateTypeOK` in `RateLimit`) is part of an invariant proved for each module that
defines it; the runs themselves spend their time on the other properties.

## `BuildLedger`: the log as a fold

`ledger.py` answers every question by scanning its file. `BuildLedger` keeps, in
one record, what those scans would find (the last verdict on each phase, the
terminal event, rounds spent, pins, markers) and `Appended(l, e)` is one append.
An event is a record over the kinds of `EventKind`; payload keys no reader asks
for are dropped. So a state holds no log, and the runner's state space does not
grow with the length of a run.

`LedgerReplay` is the check that this is the same thing: it keeps the whole log
beside the fold, appends any event after any other, and states each reading over
the positions of the log as its docstring does.

## `RoleRunner`: one platform's build

*Disk* is the ledger `led`, the tree (`bare`, `torn` inside a WRITER commit,
`whole`) and the branch of record. *Memory* is what `RoleRunner.run` holds in
locals and `Down` throws away. `pc` is where the build thread is:

| `pc` | code |
|---|---|
| `down` | no thread |
| `entered` | started, before `run()`'s prelude |
| `pick` | top of the loop over `BUILD_PHASES` |
| `role`, `commit`, `gate` | `_run_phase`: the role, the staged commit, the gate |
| `passed`, `failed` | the gate's event is appended, its consequences are not |
| `stopping` | `_finish`, before the terminal event |
| `n3`, `ingest` | waiting for the Store gate, as the thread that handed off or as a bare waiter |
| `reopen` | `reopen_after_store_gate` |

An action is a stretch of code between two effects a crash can separate. Roles
and gates are free: a gate may find any set of failure names in any class
`failure_owner` can give it, the foreman may stop any round it is asked about,
the wall may run out before any phase, and a push may fail.

`judged`, `basis`, `heard` and `passes` are history: the phases whose pass judged
the product *as it now stands*, the inputs they judged it against, the failures a
finished WRITER pass was told of, and WRITER passes in this `run()`. No guard
reads them. They are what "this success was earned" is stated in.

### Bounds

`MaxStarts` and `MaxCrashes` bound how often the build is started and killed;
`GateBudget` and `Ceiling` are the code's own budgets, made small. `passes` is
counted up to `PassBound`, one more than the budgets allow, so exceeding them is
still seen. Two starts and a crash give every pair of interrupted run and
resumption; a start over or a pasted link is a start. One failure name is enough
for a repeat, two for "a different failure each round". Inputs are one that climbs to
the Store gate and one that does not.

### Fairness and deadlock

`FairSpec` asks that a live build thread keeps taking steps. Roles run under the
phase wall clock and the Store-gate poll has a wall of its own, so a live thread
is never stuck in the code either. Nothing is asked of starts, crashes or which branch
a gate takes. The runs set `CHECK_DEADLOCK FALSE`: a build stops when nobody asks
for it again, and starts are bounded.

### Runs

| run | shows | size |
|---|---|---|
| `Runner` | the judged-as-it-stands invariant, earned success, phases on judged work, resume continues, a handoff is not re-run, the refinement of `BuildPromise` | 1.2 M states |
| `RunnerEnds` | with both switch positions of collect-all: every run ends, passes and rounds are within budget, no stop for a failure the WRITER was not told of | 0.1 M states |
| `LedgerReplay` | the four groups of readings against the whole log | 0.95 M states |

`Runner` leaves collect-all off and pasted links up to date. Collect-all marks failed
phases done on purpose and ends in a report; links to a stale tip are what
`RecordedStillHolds` (below) is about. With either, a standing pass does not mean a judged
product, and these properties are stated for builds that use neither. Two need no such
limit, a resume continues and a handoff is not re-run: the proofs below have them for
every build.

### Refinement

`BuildPromise` has three variables: the standing passes, the recorded verdict and
the number of asks. Passes are gained one at a time in order, withdrawn only from
some phase on, and success is recorded on five of them. `KeepsPromise` maps
`Completed(led)` and the terminal kind to it.

## `WorkerSlots`: the queue for a place to run

A WRITER runs a coding agent in a slot of its worker process. `worker_job_slot`
takes one, waiting in line when a run gives it a wall (`acquire_waiting`) or
being refused at once (`acquire`: direct callers and the operator's probe, the
jobs of `Impatient`), and gives it back when the job ends.

| variable | code |
|---|---|
| `active`, `smoke`, `held`, `holders` | `_process_active`, `_reserved_active`, `_tenant_active`, `_tenant_holders` |
| `ticket`, `seq` | the waiter's `seq`, `_seq` |
| `pc` | where a job's thread is: `checking` the turn under the lock, `telling` its place outside it, `asleep` on the condition, `holding` |

One lock guards everything, so an action is one holding of it: `Join`, `Check` and
`Told` ask for the turn, `GiveUp` leaves with the wall spent, `FailTelling` leaves
when the ledger refuses the narration, `Poll` is the wait's timeout, `Grab` and
`Release` are `acquire` and `release`. Waiters are not a list: the serving order is
computed from tickets, as the code computes it by sorting.

What can go wrong is between the actions. A slot freed while a waiter narrates
signals nobody (`SleepersHaveNoTurn`, `WaitersServed`). A waiter blocked by its
tenant's cap must let others by, though not its own tenant's next (`NoIdleSlot`,
`StartInOrder`). The caps are enforced from four counters, and `release` reads
whether the slot was the smoke's from the tenant's *last* entry, whoever releases
(`CountersCountTheRunning`, `SlotsKept`).

| run | shows | size |
|---|---|---|
| `Slots` | the properties above: a smoke job and five of three users, one a probe, on three slots | 0.13 M states |

Three slots with one kept and a tenant cap of one make all three reasons to wait
bind, with a line of two behind each tenant cap. `FairSpec` asks that a woken
thread gets the lock, that `on_wait` returns and that a running job ends; the poll,
the wall and new jobs are left out, so no waiter is served by polling alone.
`CHECK_DEADLOCK FALSE`: each of finitely many jobs asks once.

The caps are constants: the code reads them from the environment at each call,
and a lowered cap applies to later callers only.

## `StoreGate`: the threads around one workspace

`RoleRunner` follows one build thread. `StoreGate` puts the others beside it: the
owner's requests (a typed action of the Floor, a build link pasted into the chat,
`POST /generate`, `POST /n3-reseed`), runner threads, and the waiters that poll the
Store gate, a commit status on GitHub. They share the ledger and two registries of
threads, and each acts on what it read some steps ago. `BuildLedger` gives the ledger; a
build is its first event and its verdict.

| variable | code |
|---|---|
| `ledger`, `handoffs`, `gate` | the workspace's ledger, the handoffs in it, the `store-gate` status of each one's commit |
| `slot`, `runner` | `_N3_THREADS`, `_RUNNER_THREADS` for this workspace |
| `th[t]` | where thread `t` is, the handoff it polls, what it saw |
| `answers`, `lapsed`, `byFloor`, `adopted` | history, for the properties |

| where a thread is | actions | code |
|---|---|---|
| `door` | `FloorDoor`, `Adopt`, `HttpDoor` | Continue (`start_or_resume_coder`), its `_adopt_green_build`, and Approve; `has_running_build` of both routes |
| `launch` | `Launch` | `start_runner_build`, which reads the status again; a pasted link begins here (`FirstStop`) |
| `stamp` | `Stamp` | `reseed_handoff_ledger` |
| `join`, `leave` | `Join`, `Leave` | the two holdings of `_N3_GUARD` in `wait_and_ingest_n3` |
| `open`, `poll`, `judge` | `Open`, `Poll`, `Judge`, `Undecided` | `ingest_n3_store_gate`: the check, the read or the poll, `judge_snapshot` |
| `enter`, `build`, `verdict` | `Enter`, the `Build...` actions, `Reopen`, `Stopped` | `_run` around the runner, and after its waiter returned |

`MayRead` is what `build_status` may answer. The last verdict decides; without one,
how long the ledger has been quiet, which is left open when no thread is registered.
A poll may see GitHub's answer, its own wall (written like a failure the Factory
owes: no rework), or GitHub out of reach all along (nothing is written). `Crash`
loses every thread; the boot hooks run before the server serves, first the orphaned
WRITER (`BootResumes`, `BootFails`), then the stranded handoff (`Rewatch`).

| run | shows | size |
|---|---|---|
| `Gate` | one waiter; for an owner who keeps to the Floor's typed actions one runner, no build on an open handoff, and verdicts written for the handoff they are about; every handoff is answered | 0.42 M states |
| `GateSingleFlight` | violated: `SingleFlight` | |

*The doors.* Continue and Approve ask whether a thread is alive. The other doors do not: a
pasted link (`attach_from_link`) clones or re-enters the workspace of the linked commit and
goes straight to `start_runner_build`, and the HTTP routes go by the status. `byFloor`
says that only typed actions have been used, and three properties are limited to it,
since a second runner breaks each of them. `adopted` says that a Continue adopted a green
build while a runner or a waiter was alive. It tries that before it looks for a thread, so
it may open a handoff under a build, or under the waiter of an earlier handoff that is
leaving. `OneRunnerByFloor` does not need the exception, the properties about open
handoffs do.

*Bounds.* Three workers are a runner, a waiter, and one more for the race; three requests
start a build, resume it after a failure and act on it once more, which is what a
second runner takes; two handoffs give an answer somebody else's handoff to be written for;
one restart. Requests come one at a time in `Gate`, beside the runners, the waiters and
the boot, since the messages of a chat do; four of its properties are limited to the chat's
typed actions or excuse HTTP. `OneWaiter`, which is not, is proved below for any number of
requests at once, and `GateSingleFlight` has two.

*Assumption.* `BuildOutlastsPolls`: with no handoff open, a build hands off only when no
waiter and no request is still at the gate with an earlier answer. A poll reads every half
minute and a request once, while a build walks phases of many minutes. Without it a
request that read "red" for one handoff could write it over the next one, since the ledger
is not looked at again (`n3_store_gate.py:1433`).

*Fairness.* `FairSpec` asks only that the process does something while a thread can
run, and that the service is restarted when it is down: one weak fairness for all
threads. Every thread's walk is finite between requests, so nothing starves.
Nothing is asked of GitHub (the poll's wall ends it) or of new requests.
`HandoffIsAnswered` excuses a waiter that never reached GitHub (`lapsed`), and a handoff
that a reseed, a second runner or an adoption may have opened while the waiter of another
one was leaving (`~byFloor`, `adopted`): who would watch it finds the registry taken and
goes, and the registered one is gone a moment later. `CHECK_DEADLOCK FALSE`: requests are bounded, and a finished
platform rests.

*Left out*: a start over (it moves to another workspace); a link whose branch tip has
moved since (it is another workspace, `<slug>@<sha7>`); which phases a first attach takes as
done (`RoleRunner`); a Continue whose workspace has left the host (it goes through
`attach_from_link` and counts as a link here); a certification withdrawn after a success; the
pilot cycle's own door; model calls that read "overdue"; sessions without a build branch;
a reseed of other commits than the newest.

**Where the code and its words part.** The tests of `/generate` say "a second start
while building is refused", those of the build lock "a second runner for the same workspace
must never start". A run resumed after a failure reads "failed" until its
first re-opening event, and `start_runner_build` goes by that status and not by the registry.
Two doors lead there without a look at the registry, so that a second runner starts on the
workspace of a live one (`SingleFlight`, `build_jobs.py:1163`): a build link pasted again
(`platform_chat_flow.py:1620`), which is the trace TLC prints, and `POST /generate`, whose
`has_running_build` refuses only "building". In the chat it takes three pastes of one link:
the first build fails before the tip moves, the second paste resumes it, the third
starts another. The Floor's typed actions look for the live thread and are safe
(`OneRunnerByFloor`).

## `GenerationQuota`: one account's generations

An account without an active subscription may start `Limit` builds in its life. A door
checks the counter, starts the build, which takes seconds, and charges afterwards; the
build thread gives the charge back when the build failed, and learns whom to give it to
from a marker file in the workspace. Nothing is held across these steps.

| variable | code |
|---|---|
| `used`, `subscribed`, `applied` | the rows of usage, subscription and applied Stripe events |
| `verdict`, `marker` | per platform: what its ledger ends with; `.generation_quota_account` |
| `rq[q]`, `th[w]` | a request between check, start and charge; a build thread in `_run` |
| `delivered`, `unpaid`, `idled`, `unmarked`, `metered`, `lapses`, `inOrder`, `byFloor` | history |

`Ask` is `require_remaining`, which a pasted link does not pass through, `Start` the door's call with its reply, `Charge` is
`_consume_generation_on_start`. `Replies` says what each door may answer, given the ledger's last
word and the live threads, and `Charges` which answers cost a unit: the doors that resume look for
a reply that says "already", so a refusal and the ingest of a gate's answer cost one
too. A pasted link costs nothing: the chat handler returns before its charge. `Return`, `Keep`, `Answered` and `Settle` are `_run` after the runner: a handoff removes
the marker and keeps the charge, the end of the thread removes it and refunds by the
ledger's verdict. `Deliver` is `handle_event`; `CrashInEvent` stops between the
subscription's row and the event's.

`OverdraftBounded` is what check-then-act leaves of the limit. `DeliveredIsPaid` and
`FailureFindsItsMarker` are about the marker: several runs of one workspace write and
remove it. They are stated for an owner who keeps to the Floor's typed actions (`byFloor`). A
pasted link starts a build that nobody checked or charges, though it writes the marker, so
it is delivered for nothing and one that fails gives back a charge never made. And with a
link or `POST /generate` a second runner may start on a workspace (`SingleFlight`), and two runs
share one marker. `OverdraftBounded` and `RedeliveryIsSafe` hold whatever doors are used.
`FailureFindsItsMarker` holds restarts or not: a restart takes the thread that would
look for the marker along. `RedeliveryIsSafe` is the dedupe of events.

*Run* `Quota` (3.2 M states): two platforms, two requests at a time and three in all, two
builders, two events, a restart, limit 1. Two requests are enough to pass one check
together, three to start again on a workspace while an earlier run settles. The
run sets `CHECK_DEADLOCK FALSE`: requests are bounded.

*Left out*: the counters of messages, drafts and exports, which are only ever charged; the
adoption of a green build, which starts nothing and is answered like an ingest, though beside a
live build it may rewrite the verdict that build settles by; a Continue whose workspace has
left the host, which attaches without a look at the thread, like a link, but charges. A
platform is a workspace here, so a start over is an approval of a new one.

## `SessionLife`: one session, from creation to erasure

A session is five things: the owner's row, the object in memory, a snapshot on disk
written through one temporary file, the vectors of its uploads, and the workspace of
its platform. Handlers on the event loop interleave only where they await; those FastAPI
runs on its thread pool interleave anywhere (`LoopFree`, `MayRun`).

| variable | code |
|---|---|
| `owner` | the row in `session_owners` |
| `cache`, `obj` | `_session_store` and the `SessionState` objects alive |
| `main`, `tmp`, `dir`, `vectors`, `outputs` | `state.json`, its temporary file, the directory, the Chroma collection, `factory_outputs` |
| `purge`, `rq[r]` | the erasure and the requests under way |

`Load` is `get_session` with its three sources, `Edit` to `Replace` are `update_session` and
`save_session_state`, `Index` the upload's middle. `Purge` to `Forget` are the
categories of `purge_session` and `purge_account` in their order, each of which may
fail and be reported. A session's contents are reduced to which request's edit they
hold.

`UnownedIsGone`: without its row nothing of the session is left, unless its owner was told
so or a writing request was in flight at the erasure; the code does not wait
for those. `AnsweredIsKept` and `BusyIsProcessing` are stated while only handlers of
the loop have run (`byLoop`): a pool handler replaces what came into the store while it
loaded, and no document promises otherwise.

*Run* `Sessions` (70 s): three requests of any role, one failing category, one restart, and as
many loads as keep the requests apart. Three requests give an upload, an edit and a
reader beside the erasure.

*Left out*: `state.json.bak`, a save that raises on a full disk, the refusal to delete
under a live build thread. The upload handler's own edit of the object it holds is one
step, although it awaits the file's bytes in between.

## `ChangeRequests`: from a signed document to staging

Every handler of `change_requests/` and `workbench/` runs on the event loop without
awaiting, so `hand` is the one that runs. What makes it hard is that a handler writes a
request's state several times on its way and may stop in between (`Break`: an exception
nobody names, or the end of the process), and that each call looks at the state, the
candidate and the audit anew.

| variable | code |
|---|---|
| `item[r]` | the request's JSON file: state, dry run, decision, candidate |
| `audit[r]` | the live-audit artifact its file names, and its age |
| `package` | `workbench/staging/<product>/<next version>` |
| `runs`, `passed` | candidates are named by their run; those whose gates passed (history) |

`StagedIsGated` says that what is staged, whole or torn, passed its own gates.
`WorkIsApproved` is that the owner's last word holds through gates and promotions
asked for after it, `DecisionStands` that a redelivered document withdraws nothing,
`MidwayOnlyByABreak` that every handler that ends leaves a state the next call expects.

*Run* `Changes` (1.7 M states): two requests of one product version, three runs and two
breaks, so that a request can be rejected, approved anew and gated on an older
candidate while the other is staged. `CHECK_DEADLOCK FALSE`: runs are bounded.

*Left out*: the agent's sandbox and envelope, the Redis index, file contents.

## `Backups`: archives and the merge of accounts

`scheduler_loop` and the operator's `POST /v1/ops/backup` each run `run_backup_once`: copy, archive
under a name stamped with the time, prune by name, report to `last_backup.json`. A restart leaves a
torn archive under a good name and perhaps an illegible report, and may be the move of the
accounts from SQLite to Postgres. `Restore` is the merge of an archive into the live
accounts. Of these the model keeps who signs in under one address: `mail`, or the
`parked` address of `displaced_email_for`.

`GoodOutlivesTorn`: however two runs overlap, fail and prune, a readable archive stays once there was
one, unless torn ones fill the directory (`prune_backups` counts them).
`EventuallyBacked`: the first archive comes, whatever failed before and whatever restarts
left. `ParkedIsReclaimed`: an address taken from a live account goes to the archive's.

*Run* `Backups` (0.9 M states): two accounts, the nightly job and the operator's, two archives kept,
a failure and a restart. *Fairness*: `WF_vars(Scheduler)`. The loop is a task of the server that sleeps at
most a day, and `run_backup_once` returns a report for every exception, so the loop goes on.
Failures and restarts are bounded, which is what "eventually" needs.

**Where the code and its words part** (`BackupsParked`). The runbook says a live address is parked "so
the backup id can reclaim the real address". `_displace_conflicting_emails` parks it for every
row of the archive, and `_plan_table` then skips rows whose id is already live. After
the merge of an older archive has parked one owner, the merge of a newer one, in which that
owner had the address, parks the second owner too. The address signs in nobody.

*Left out*: two runs in one second, what an archive holds besides accounts, dry runs, the
command line.

## `RateLimit`: attempts per identity

`check_rate_limit` counts in Redis per fixed slot, or in a bounded map of sliding windows when
there is no Redis or it fails a budget that may fall back; sign-in budgets fail closed.

Of Redis the model keeps one identity, `watched`, any one of them: keys of Redis do not
touch each other. The map is kept whole, since identities compete for it (`Dropped`: what
is stale by the caller's window goes, else the bucket longest silent). A call is one step: the in-memory
part is under `_LOCK`, and a call to Redis is given up after a second, far below a tick.
`RedisFailed` is a call that fails before or after it counted. The history keeps two windows of
admissions, capped at `NotedBound`, above every bound stated.

`WindowBounded`: in a window of its length an identity is admitted its limit from memory, per life of the
server, and twice its limit from Redis, whose slots a window overlaps -- whatever others
do, unless its own live bucket was dropped. The exception includes the sweep: the
comment in `rate_limit.py` says that dropping swept buckets "cannot lift anyone's limit", which holds
only between budgets with equal windows. `RefusedHasSpent`: an outage refuses nobody but
the sign-in doors.

*Run* `Rate` (2.1 M states): two sign-in identities (one attempt in three ticks) and an LLM route (two in
two) on a map of two, six ticks, one restart: the map overflows, windows differ, and two windows pass.

*Left out*: a Redis that restarts and loses its counts, after which a slot may admit its limit again.

## Stated and not kept

Each of these says what a comment, docstring or test says. The modules define it under the heading
"What the repository says and the code does not keep"; it has no run of its own, and checking it as an
invariant of the instance named gives TLC's counterexample.

| property | words | what the code does | instance |
|---|---|---|---|
| `RoleRunner!RecordedStillHolds` | `branch_attach.py:182`: "any later change to the tree invalidates what it recorded" | a start over commits its COLLECTOR checkpoint on the replaced product's trailers, so the old TESTER pass is read off a tip it never judged | `Runner` |
| `RoleRunner!DeliveryFailureIsNamed` | `runner.py:1755`: "a push failure turns the run into a NAMED failure" | the event's kind is fixed before the push, so the ledger reads as a success | `Runner` |
| `RoleRunner!BranchNeverLags` | `runner.py:2548`: "the branch never lags the run it belongs to" | a stop between a pass and its checkpoint is never made up for | `Runner` |
| `RoleRunner!HeardBeforeStop` | `runner.py:1428`: "a NOTE after it would hide the reopen" | with a declared build level, its NOTE is that NOTE, and the WRITER runs untold | `RunnerEnds` with every input `Declared`, both suites, two starts, one failure, no collect-all |
| `WorkerSlots!HoldersAreRunning` | `test_codewhale_worker_concurrency.py:658`: "the old holder must not leak into a later refusal" | `release` pops the tenant's last entry, whoever releases | `Slots` with `TenantCap = 2` |
| `GenerationQuota!ChargedIsStarted` | `session_product.py:236`: "after a build actually started" | an ingest, or a refusal at a door that resumes, is charged | `Quota` |
| `SessionLife!PartialStaysDeletable` | `data_rights.py:279`: "leaves the session still listed and deletable again" | with snapshot and vectors gone and one category failed, the row names a session Delete cannot load | `Sessions` |
| `ChangeRequests!StagedIsANewVersion` | `M4-build-mode-workbench.md:72`: "`staged` = packager emitted a new product version" | two requests against one version share a staging directory; the later package replaces the earlier | `Changes` |
| `Backups!ReadyNeverInvents` | `main.py:336`: "Never invent ok: true." | a torn archive newer than a recorded failure is read as a success | `Backups` |

## Proofs

`RoleRunnerProofs` proves, for every set of failures and inputs, every budget and
every number of starts and crashes:

* of every build: `TypeOK`, `ReworkBounded`, and the action properties `HandoffIsNotRerun`
  and `ResumeContinues`;
* under `PlainBuild` (no collect-all, pasted links only to up-to-date tips):
  `StandingIsJudged`, `SuccessIsEarned`, `PhasesStandOnJudgedWork`, and `KeepsPromise`,
  that the runner implements `BuildPromise`;
* with no declared build level: `HeardBeforeStop`, while no crash has happened.

Its first part has the lemmas on the fold: what each event does to the completed phases,
the verdict and the handoff. Of the properties only typing is inductive.

*Earned success.* `IInv` adds what makes the properties of a plain build inductive:

* `PassesAreJudged`: the standing passes are in phase order, within `judged`, given
  against the pinned inputs, and include the WRITER's only on a whole tree. This
  is the fact a resume relies on when it skips phases.
* `MemoryMatchesLedger`: `done` is what the ledger says is complete, except right
  after a regenerate or a re-prompt, when the WRITER's pass stands in the ledger
  but not in memory. Without it a step could not be related to the passes a later
  resume will read.
* `HandoffIsLast`: an open handoff is the ledger's verdict and nothing runs but
  its waiter. It is what makes a late green answer a success of all five phases.

`PlainBuild` is needed: a collect-all run that is then resumed without the switch,
or an attach to a stale tip, reaches states outside `PassesAreJudged`.

*The refinement.* `IInv` holds of both ends of a step, and each action is mapped to a step of
`BuildPromise` or to a stutter, one lemma per action: a pass is gained with every
earlier one standing, a rework withdraws from some phase on, and success is written
on five passes.

*Handed off is not re-run*, collecting or not. `Alone` is the part of `HandoffIsLast` that needs
no judged passes: while a handoff is open nothing is between the prelude and the end of
a run. Each place a phase starts from is then shown to be shut.

*A resume continues*, collecting or not. Where passes need not be in order, `RInv` keeps what
any thread remembers of the ledger: until it has collected a failure, what it has done has
passed; what has passed it has done, but for a WRITER sent back; and the phase that runs is
missing, with every earlier one done. The next phase is then never one that has passed
(`FirstMissing`), and a resume begins from what stands. Two more results of `RInv` need no plain
build: a success in the ledger stands on a pass of every phase (`SuccessIsComplete`), and
`HandoffIsLast` (`HandoffIsWaited`); what a plain build adds is that those passes were judged.

*Bounded rework.* `Budgeted` counts: the WRITER passes of a run are at most the one it
began with and one for each rework, regenerate and re-prompt spent since, and each
counter is tested before it is spent. The ledger's rounds and the run's counters are
bounded apart, since a resume brings the first and resets the second.

*Heard before given up.* `HearInv` adds to `RInv` that the failures a
re-opening round handed over (`Owed`) are heard once the WRITER has finished a pass, in a run
that does not collect: a collecting one opens no round. The two
conditions are real. A crash after the REWORK event forgets what it owed, and the NOTE of a
declared level hides it from the run that resumes ("Stated and not kept").

`LedgerReplayProofs` proves the four groups of readings for a log of any length. The
fold and the log's own reading are compared event by event: appending one event
moves the last position of each kind at most to the new end (`MaxIsIn`, from the
well-foundedness of strict inclusion on finite sets, gives a last position at all), and
the fold changes by that event. What it needs besides is the log's shape and that it
starts with its pins.

`WorkerSlotsProofs` proves all six safety properties of the run `Slots` for any jobs,
tenants and caps. `StepKinds` says that every step gains a slot, loses one or
keeps the counters. Over it, `CountInv` counts the running jobs of each tenant and
matches the reserved flags among a tenant's `holders` to its smoke jobs; the
counters and the caps follow. It needs `UsersProbe`, that the smoke never
bypasses the queue: `acquire` enters a job unreserved, so a smoke job among a
tenant's probes would have its flag dropped by another's release. `QueueInv` is
`SleepersHaveNoTurn` itself with the places' types: a step that can give a sleeper
the turn either wakes everybody or is a probe's, which then holds a slot.
`NoIdleSlot` and `StartInOrder` need no invariant beyond the types: the first
admissible waiter in serving order exists because a finite set of tickets has a
least one.

`StoreGateProofs` proves, for any number of requests, workers, handoffs and restarts,
the typing, `OneWaiter` and `OneRunnerByFloor`. Typing needs `Bookkeeping`: an open handoff
has been counted, a server that is down runs nothing, and `GoodThread` ties a thread's
pool, role and place together, so that only workers register and what is judged
was seen. `OneWaiter` is inductive with it (`Registered`), whatever doors are used.
`OneRunnerByFloor` is not: `FloorRuns` adds that a runner is the registered one, that the
owner has one message at a time under way, and that no runner is registered while it
stands between its look at the registry and its start. `Watched` says what any door leaves
true: an open handoff is a failure that names nobody, and without a recorded run there is
no handoff, runner or poll. For the typed actions, until a green build is adopted beside a live
thread, `Undisturbed` adds that no thread re-stamps, that with a handoff open no worker is
entering or building, and that whoever polls or judges does so for the newest handoff
(`Aligned`). From it `NoBuildOnOpenHandoff` and `AnswersItsHandoff` follow. They stand or fall
together: a build under an open handoff would open the next one under the waiter. An
adoption beside nobody keeps it: then no worker polls or builds, and the owner has no other
request under way. `Recalled` says that what was once asked or adopted is not forgotten.

`LimitsProofs` holds the proofs of both limits of use and extends both modules; the names of
`RateLimit` that a module of its own would shorten (`RateInit`, `RateNext`, `RateSpec`) keep the two apart.

For `GenerationQuota` it proves the four properties of the run for any limit, any numbers of
requests, platforms, build threads and restarts, and any order of Stripe's events. `OverdraftBounded`
as a bound on the counter is not inductive: it says nothing of the requests let through and not
yet charged. `Booked` adds that, while the quota binds, the counter and the requests in
flight together stay within the bound. A lapse of the subscription is the step that
disturbs it, since requests let through for nothing are charged after all, and
`lapses` gives the bound room for all of them once more (`MostGrows`). `DeliveredIsPaid` needs
the builds still running on both sides of the books (`Accounted`: delivered and live builds against
charged, charging and lost ones), and that a platform has one thread whose marker lies
there until a handoff takes it (`OneByOne`), which is `FailureFindsItsMarker` too. Both hold
for the typed actions alone (`byFloor`); `FloorStartsAlone` is where that is used: a typed
action starts nothing on a platform that has a thread.
`RedeliveryIsSafe` is inductive with the types of what Stripe touches.

For `RateLimit` it proves `WindowBounded`, `RefusedHasSpent` and the typing, the bound of the map
included, for any identities, limits, windows, size of the map, time and restarts. Sequences of admissions
are read from the end, `Ago(q, i)`, so that an admission moves every entry by one and what
leaves the window leaves the rest where it was. `Accounts` is the invariant: the bucket in memory is the
end of the history of the memory, or older than two windows (`Matches`); what the history has beyond the
bucket, but for a limit's worth for each restart, is out of the window (`Afresh`), the part that gives way when the bucket
is dropped while live; no slot holds more than the limit (`Spread`) and the current one no more than the count
(`Tallied`), so a window, which overlaps two slots, holds at most twice the limit.
`RefusedHasSpent` needs the converse, that a count is not higher than what was admitted: `Owed` pairs the
count with admissions by Redis in this slot and by the memory in this slot or the last one (a call that was
counted and then failed is admitted by the memory), which two windows of history still hold.

`SessionLifeProofs` proves the three properties of the run for any number of requests, objects,
failures and restarts. `UnownedIsGone` is not inductive: `Erasure` says what each category of a purge
has left behind when the next one starts, provided no writer was under way. For the handlers of the
loop, `Loop` says that every request holds the object in memory, that one saves at a time, and that
what was answered is in both places; `Uploads`, that a mark of "processing" is some upload's.

`ChangeRequestsProofs` proves the four properties of the run for any requests, runs and breaks.
`HandHoldsState` ties where the handler stands to the state its request's file is in, which every
other part needs; `PassedDid` says that a file that names a passed gate names a run that passed;
`ApprovedByOwner` adds the approved requests, from which alone the workbench starts; `OnlyTheHandIsMidway` that,
without a break, a file between two steps is the handler's own.

`BackupsProofs` proves `GoodOutlivesTorn` and `ParkedIsReclaimed` for any accounts, jobs, archives kept and
restarts. The first is nearly inductive; the work is that pruning by name, of which the model says
that it keeps the newest, cannot drop the last readable archive while fewer torn ones than are
kept lie there, a count of finite sets. The second needs `OneOwner`: at most one account has the address, in the
live rows, in every archive and in every copy a job is making.

Only model-checked: liveness (`RunEnds`, `WaitersServed`, `HandoffIsAnswered`,
`EventuallyBacked`), which is out of the prover's reach under fairness.

## Abstractions a reader should know

* Failure names stand for findings; a test-defect verdict carries none.
* Ledger appends are atomic here (the lock and the number taken before it are low in the plan).
* In `RoleRunner` a start is one step and the Store gate's answer arrives in one step, to
  one waiter; `StoreGate` takes both apart.
* The WRITER's inside is one step with any outcome, and its commit two.
* Operators called "Mutant of" are plausible mistakes in the code; swapped in for
  the definition they follow, each breaks the property it is listed with in `PROJECT.json`.
