------------------------------- MODULE Backups --------------------------------
(***************************************************************************)
(* The archives of the durable state: the nightly scheduler and the        *)
(* operator's extra runs, which write, prune and report side by side in    *)
(* one directory; restarts in the middle of a run; the move of the         *)
(* accounts from SQLite to Postgres; and the merge of an archive's         *)
(* accounts back into the live ones.  Of the accounts the model keeps who  *)
(* may sign in under one address.                                          *)
(***************************************************************************)
EXTENDS Naturals, FiniteSets

CONSTANTS
  Ids,          \* account ids
  Jobs,         \* those that run a backup
  Nightly,      \* the job of scheduler_loop; the others are the operator's
  Keep,         \* BACKUP_KEEP
  MaxStarts,    \* bound on the runs begun once an archive is complete
  MaxExtra,     \* bound on the operator's runs
  MaxFailures,  \* bound on the steps that fail
  MaxCrashes    \* bound on the restarts

ASSUME KeepAssumption == Keep \in Nat \ {0}
ASSUME NightlyIsAJob == Nightly \in Jobs
ASSUME BackupBounds ==
  MaxStarts \in Nat /\ MaxExtra \in Nat /\ MaxFailures \in Nat /\ MaxCrashes \in Nat

VARIABLES
  engine,    \* where the accounts live
  owner,     \* id -> absent, or the address it signs in with: the one, or a parked one
  born,      \* ids given so far; a new account's is always fresh
  archives,  \* the archives on disk: their stamp, whether they can be read, their accounts
  status,    \* last_backup.json: nothing legible, or its verdict, stamp and engine
  job,       \* job -> where it is, its run's stamp, the accounts it read, its verdict
  started,   \* runs begun, the stamp of the latest
  backed,    \* history: an archive was once complete
  extra, failures, crashes

accounts == <<engine, owner, born>>
bounds == <<extra, failures, crashes>>
vars == <<accounts, archives, status, job, started, backed, bounds>>

Addresses == {"absent", "mail", "parked"}
Nobody == [i \in Ids |-> "absent"]
NoStatus == [ok |-> FALSE, at |-> 0, engine |-> "none"]
Asleep == [pc |-> "idle", at |-> 0, rows |-> Nobody, ok |-> FALSE]

Init ==
  /\ engine \in {"sqlite", "postgres"} /\ owner = Nobody /\ born = {}
  /\ archives = {} /\ status = NoStatus
  /\ job = [j \in Jobs |-> IF j = Nightly THEN [Asleep EXCEPT !.pc = "boot"] ELSE Asleep]
  /\ started = 0 /\ backed = FALSE
  /\ extra = 0 /\ failures = 0 /\ crashes = 0

At(j, pc) == job[j].pc = pc
Goes(j, pc) == job' = [job EXCEPT ![j].pc = pc]
Ends(j, ok) == job' = [job EXCEPT ![j].pc = "report", ![j].ok = ok]

Torn == {a \in archives : ~a.whole}
Whole == archives \ Torn

-----------------------------------------------------------------------------
(* When a run begins.                                                       *)

\* A status that cannot be read names no engine; SQLite has no host to compare.
EngineChanged == engine = "postgres" /\ status.engine # "postgres"
LastRunFailed == status.engine # "none" /\ ~status.ok

\* scheduler_loop asks once, at boot; a torn archive counts as one.
RunsAtBoot == archives = {} \/ EngineChanged \/ LastRunFailed

Begins(j) ==
  /\ backed => started < MaxStarts
  /\ started' = started + 1
  /\ job' = [job EXCEPT ![j] = [pc |-> "copy", at |-> started + 1, rows |-> owner, ok |-> FALSE]]

Boot ==
  /\ At(Nightly, "boot")
  /\ IF RunsAtBoot THEN Begins(Nightly) ELSE Goes(Nightly, "idle") /\ UNCHANGED started
  /\ UNCHANGED <<accounts, archives, status, backed, bounds>>

Night ==
  /\ At(Nightly, "idle") /\ Begins(Nightly)
  /\ UNCHANGED <<accounts, archives, status, backed, bounds>>

\* POST /v1/ops/backup
Extra(j) ==
  /\ j # Nightly /\ At(j, "idle") /\ extra < MaxExtra /\ extra' = extra + 1
  /\ Begins(j)
  /\ UNCHANGED <<accounts, archives, status, backed, failures, crashes>>

-----------------------------------------------------------------------------
(* A run: accounts, content, archive, prune, report.                        *)

\* An accounts snapshot or a copy of the content that fails ends the run without an
\* archive; otherwise the archive appears under its name, and grows.
Open(j) ==
  /\ At(j, "copy") /\ Goes(j, "tar")
  /\ archives' = archives \cup {[at |-> job[j].at, whole |-> FALSE, rows |-> job[j].rows]}
  /\ UNCHANGED <<accounts, status, started, backed, bounds>>

Mine(j) == {a \in archives : a.at = job[j].at}

Complete(j) ==
  /\ At(j, "tar") /\ Goes(j, "prune")
  /\ archives' = (archives \ Mine(j)) \cup {[a EXCEPT !.whole = TRUE] : a \in Mine(j)}
  /\ backed' = (backed \/ Mine(j) # {})
  /\ UNCHANGED <<accounts, status, started, bounds>>

\* Mutant of Kept: the run makes room for its next archive as well.
KeptOneLess == {a \in archives : Cardinality({b \in archives : b.at > a.at}) < Keep - 1}

\* prune_backups: by name, whatever they hold and whoever writes them.
Kept == {a \in archives : Cardinality({b \in archives : b.at > a.at}) < Keep}

Prune(j) ==
  /\ At(j, "prune") /\ Ends(j, TRUE) /\ archives' = Kept
  /\ UNCHANGED <<accounts, status, started, backed, bounds>>

\* The disk is full, a file vanished under the copy, an archive another run pruned: the
\* run is reported as failed, and what it wrote stays.
Fail(j) ==
  /\ failures < MaxFailures /\ failures' = failures + 1
  /\ job[j].pc \in {"copy", "tar", "prune"} /\ Ends(j, FALSE)
  /\ UNCHANGED <<accounts, archives, status, started, backed, extra, crashes>>

\* Mutant of AfterReport: a failed run ends the loop.
AfterReportLoopDies(j) == IF j = Nightly /\ ~job[j].ok THEN "dead" ELSE "idle"

\* The loop survives anything.
AfterReport(j) == "idle"

Report(j) ==
  /\ At(j, "report")
  /\ status' = [ok |-> job[j].ok, at |-> job[j].at, engine |-> engine]
  /\ job' = [job EXCEPT ![j] = [Asleep EXCEPT !.pc = AfterReport(j)]]
  /\ UNCHANGED <<accounts, archives, started, backed, bounds>>

\* The status file cannot be written: logged, and the old one stays.
ReportLost(j) ==
  /\ At(j, "report") /\ failures < MaxFailures /\ failures' = failures + 1
  /\ job' = [job EXCEPT ![j] = [Asleep EXCEPT !.pc = AfterReport(j)]]
  /\ UNCHANGED <<accounts, archives, status, started, backed, extra, crashes>>

\* A restart, with the same engine or moved to an empty Postgres; one that meets the
\* writing of the status leaves it illegible.
Restart ==
  /\ crashes < MaxCrashes /\ crashes' = crashes + 1
  /\ job' = [j \in Jobs |-> IF j = Nightly THEN [Asleep EXCEPT !.pc = "boot"] ELSE Asleep]
  /\ \/ UNCHANGED <<engine, owner>>
     \/ engine = "sqlite" /\ engine' = "postgres" /\ owner' = Nobody
  /\ status' \in {status} \cup {NoStatus : j \in {j \in Jobs : At(j, "report")}}
  /\ UNCHANGED <<born, archives, started, backed, extra, failures>>

\* last_status_for_ready: a newer archive beats a recorded failure.
Ready ==
  /\ status.engine # "none"
  /\ status.ok \/ \E a \in archives : a.at > status.at

-----------------------------------------------------------------------------
(* The accounts, and the merge of an archive into them.                     *)

Register(i) ==
  /\ i \notin born /\ \A k \in Ids : owner[k] # "mail"
  /\ born' = born \cup {i} /\ owner' = [owner EXCEPT ![i] = "mail"]
  /\ UNCHANGED <<engine, archives, status, job, started, backed, bounds>>

Delete(i) ==
  /\ owner[i] # "absent" /\ owner' = [owner EXCEPT ![i] = "absent"]
  /\ UNCHANGED <<engine, born, archives, status, job, started, backed, bounds>>

\* Mutant of Displaced: the id that returns is not asked for, an address in the archive is.
DisplacedAll(rows) ==
  [i \in Ids |-> IF owner[i] = "mail" /\ (\E k \in Ids : rows[k] = "mail") THEN "parked" ELSE owner[i]]

\* _displace_conflicting_emails: a live owner of an address that another id has in the
\* archive is moved off it, whether or not that id is going to be inserted.
Displaced(rows) ==
  [i \in Ids |-> IF owner[i] = "mail" /\ (\E k \in Ids \ {i} : rows[k] = "mail")
                 THEN "parked" ELSE owner[i]]

\* _plan_table: rows whose id and whose address are free; what is live is left alone.
Merged(live, rows) ==
  [i \in Ids |-> IF live[i] = "absent" /\ (rows[i] = "mail" => \A k \in Ids : live[k] # "mail")
                 THEN rows[i] ELSE live[i]]

\* run_restore_from_backup: one transaction, with prefer_source or without, from an
\* archive that can be read and holds accounts.
Restore(a, preferSource) ==
  /\ engine = "postgres" /\ a \in Whole /\ a.rows # Nobody
  /\ owner' = Merged(IF preferSource THEN Displaced(a.rows) ELSE owner, a.rows)
  /\ UNCHANGED <<engine, born, archives, status, job, started, backed, bounds>>

Scheduler == Boot \/ Night \/ \E j \in Jobs : Open(j) \/ Complete(j) \/ Prune(j) \/ Report(j)

Next ==
  \/ Boot \/ Night
  \/ \E j \in Jobs :
       \/ Extra(j) \/ Open(j) \/ Complete(j) \/ Prune(j) \/ Fail(j)
       \/ Report(j) \/ ReportLost(j)
  \/ Restart
  \/ \E i \in Ids : Register(i) \/ Delete(i)
  \/ \E a \in archives, preferSource \in BOOLEAN : Restore(a, preferSource)

\* The loop is a task of the server, and a run goes on until it is done or fails.
Spec == Init /\ [][Next]_vars /\ WF_vars(Scheduler)

-----------------------------------------------------------------------------

TypeOK ==
  /\ engine \in {"sqlite", "postgres"} /\ owner \in [Ids -> Addresses] /\ born \in SUBSET Ids
  /\ archives \subseteq [at : 1..started, whole : BOOLEAN, rows : [Ids -> Addresses]]
  /\ status \in [ok : BOOLEAN, at : 0..started, engine : {"none", "sqlite", "postgres"}]
  /\ job \in [Jobs -> [pc : {"boot", "idle", "copy", "tar", "prune", "report"},
                       at : 0..started, rows : [Ids -> Addresses], ok : BOOLEAN]]
  /\ started \in Nat /\ backed \in BOOLEAN
  /\ extra \in 0..MaxExtra /\ failures \in 0..MaxFailures /\ crashes \in 0..MaxCrashes

\* Once an archive was complete there is one to restore from, however the runs overlap,
\* fail and prune -- unless as many torn ones as the directory keeps lie there.
GoodOutlivesTorn ==
  backed /\ Cardinality(Torn) < Keep => Whole # {}

\* A server that keeps running gets its first archive, whatever failed before, however
\* often it was restarted, and whatever the restarts left behind.
EventuallyBacked == <>backed

\* An address taken from a live account goes to an account of the archive, as long as
\* nobody is parked already; no two accounts ever share it.
ParkedIsReclaimed ==
  [][/\ \A i, k \in Ids : owner'[i] = "mail" /\ owner'[k] = "mail" => i = k
     /\ (\E i \in Ids : owner[i] = "mail" /\ owner'[i] = "parked")
          /\ (\A i \in Ids : owner[i] # "parked")
        => \E k \in Ids : owner'[k] = "mail"]_vars

\* A live address is parked so that the archive's id can have it, says the runbook; after
\* an earlier merge that id may be live already, and is left as it is.
ParkedIsAlwaysReclaimed ==
  [][(\E i \in Ids : owner[i] = "mail" /\ owner'[i] = "parked") =>
       \E k \in Ids : owner'[k] = "mail"]_vars

(* What the repository says and the code does not keep.                      *)

\* /ready shall "never invent ok: true"; a torn archive newer than a recorded failure
\* is read as a success.
ReadyNeverInvents == Ready => Whole # {}
=============================================================================
