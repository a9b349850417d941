---------------------------- MODULE BackupsProofs ------------------------------
(***************************************************************************)
(* What holds of the archives and of the merged accounts for every set of  *)
(* ids and jobs, every BACKUP_KEEP, and every number of runs, failures and *)
(* restarts.                                                               *)
(***************************************************************************)
EXTENDS Backups, FiniteSetTheorems, WellFoundedInduction, TLAPS

(* What the properties rest on.                                             *)

Archive(n) == [at : 1..n, whole : BOOLEAN, rows : [Ids -> Addresses]]
Run(n) == [pc : {"boot", "idle", "copy", "tar", "prune", "report"},
           at : 0..n, rows : [Ids -> Addresses], ok : BOOLEAN]

\* A run under way has its stamp; the directory holds finitely many archives.
Stamped ==
  /\ \A j \in Jobs : ~At(j, "boot") /\ ~At(j, "idle") => job[j].at # 0
  /\ IsFiniteSet(archives)

\* At most one id signs in with the address, in the live accounts and in every copy that
\* was taken of them.
OneAddress(rows) == \A i, k \in Ids : rows[i] = "mail" /\ rows[k] = "mail" => i = k

OneOwner ==
  /\ OneAddress(owner)
  /\ \A a \in archives : OneAddress(a.rows)
  /\ \A j \in Jobs : OneAddress(job[j].rows)

IInv == TypeOK /\ Stamped /\ OneOwner /\ GoodOutlivesTorn

-----------------------------------------------------------------------------
(* Pruning.                                                                 *)

Newer(a) == {b \in archives : b.at > a.at}

\* Of archives that are not all kept there is one all of whose newer ones are: a minimal
\* one among the sets of those that are newer.
LEMMA NewestDropped ==
  ASSUME IsFiniteSet(archives), \A a \in archives : a.at \in Nat, archives \ Kept # {}
  PROVE  \E a \in archives \ Kept : Newer(a) \subseteq Kept
<1> DEFINE T == {Newer(a) : a \in archives \ Kept}
<1>1. IsWellFoundedOn(StrictSubsetOrdering(archives), FiniteSubsetsOf(archives))
  BY FS_StrictSubsetOrderingWellFounded
<1>2. T \subseteq FiniteSubsetsOf(archives) /\ T # {}
  <2>1. FiniteSubsetsOf(archives) = SUBSET archives
    BY FS_FiniteSubsetsOfFinite
  <2>2. \A a \in archives : Newer(a) \in SUBSET archives
    BY DEF Newer
  <2>3. PICK a \in archives : a \notin Kept
    OBVIOUS
  <2>4. Newer(a) \in T
    BY <2>3
  <2> QED  BY <2>1, <2>2, <2>4
<1>3. PICK N \in T : \A M \in T : <<M, N>> \notin StrictSubsetOrdering(archives)
  BY <1>1, <1>2, WFMin
<1>4. PICK a \in archives \ Kept : N = Newer(a)
  BY <1>3
<1>5. ASSUME NEW b \in Newer(a), b \notin Kept
      PROVE  FALSE
  <2>1. b \in archives \ Kept /\ b.at > a.at
    BY <1>5 DEF Newer
  <2>2. Newer(b) \subseteq Newer(a) /\ b \notin Newer(b)
    BY <2>1 DEF Newer
  <2>3. Newer(b) # Newer(a)
    BY <1>5, <2>2
  <2>4. Newer(b) \in T /\ Newer(b) \in SUBSET archives /\ Newer(a) \in SUBSET archives
    BY <2>1 DEF Newer
  <2>5. <<Newer(b), Newer(a)>> \in StrictSubsetOrdering(archives)
    BY <2>2, <2>3, <2>4 DEF StrictSubsetOrdering
  <2> QED  BY <1>3, <1>4, <2>4, <2>5
<1> QED  BY <1>4, <1>5

\* Pruning keeps as many archives as it is told to, whenever it drops one.
LEMMA KeptEnough ==
  ASSUME IsFiniteSet(archives), \A a \in archives : a.at \in Nat, archives \ Kept # {}
  PROVE  /\ IsFiniteSet(Kept) /\ Cardinality(Kept) \in Nat
         /\ Cardinality(Kept) >= Keep
<1>1. IsFiniteSet(Kept) /\ Cardinality(Kept) \in Nat
  BY FS_Subset, FS_CardinalityType DEF Kept
<1>2. PICK a \in archives \ Kept : Newer(a) \subseteq Kept
  BY NewestDropped
<1>3. Cardinality(Newer(a)) <= Cardinality(Kept)
  BY <1>1, <1>2, FS_Subset
<1>4. Cardinality(Newer(a)) \in Nat
  BY <1>1, <1>2, FS_Subset, FS_CardinalityType
<1>5. ~(Cardinality(Newer(a)) < Keep)
  BY <1>2 DEF Kept, Newer
<1> QED  BY <1>1, <1>3, <1>4, <1>5, KeepAssumption

\* While fewer torn archives lie there than are kept, a good one does: pruning drops
\* something only when it keeps Keep archives, and they are not all torn.
LEMMA PruneKeepsGood ==
  ASSUME TypeOK, Stamped, GoodOutlivesTorn, archives' = Kept, UNCHANGED backed
  PROVE  GoodOutlivesTorn'
<1>1. IsFiniteSet(archives) /\ \A a \in archives : a.at \in Nat
  BY DEF Stamped, TypeOK
<1>2. CASE archives \ Kept = {}
  <2>1. archives' = archives
    BY <1>2 DEF Kept
  <2> QED  BY <2>1 DEF GoodOutlivesTorn, Torn, Whole
<1>3. CASE archives \ Kept # {}
  <2>1. Cardinality(Kept) \in Nat /\ Cardinality(Kept) >= Keep
    BY <1>1, <1>3, KeptEnough
  <2>2. Whole' = {} => Torn' = Kept
    BY DEF Torn, Whole
  <2>3. Whole' = {} => ~(Cardinality(Torn') < Keep)
    BY <2>1, <2>2, KeepAssumption
  <2> QED  BY <2>3 DEF GoodOutlivesTorn
<1> QED  BY <1>2, <1>3

\* A torn archive more leaves the good ones.
LEMMA OpenKeepsGood ==
  ASSUME Stamped, GoodOutlivesTorn, UNCHANGED backed,
         NEW new, ~new.whole, archives' = archives \cup {new}
  PROVE  GoodOutlivesTorn' /\ IsFiniteSet(archives')
<1>1. IsFiniteSet(archives')
  BY FS_AddElement DEF Stamped
<1>2. Torn \in SUBSET Torn' /\ Whole' = Whole /\ Torn' \in SUBSET archives'
  BY DEF Torn, Whole
<1>3. IsFiniteSet(Torn') /\ Cardinality(Torn') \in Nat
  BY <1>1, <1>2, FS_Subset, FS_CardinalityType
<1>4. Cardinality(Torn) \in Nat /\ Cardinality(Torn) <= Cardinality(Torn')
  BY <1>2, <1>3, FS_Subset, FS_CardinalityType
<1>5. Cardinality(Torn') < Keep => Cardinality(Torn) < Keep
  BY <1>3, <1>4, KeepAssumption
<1> QED  BY <1>1, <1>2, <1>5 DEF GoodOutlivesTorn

\* An archive that is complete is a good one.
LEMMA CompleteKeepsGood ==
  ASSUME TypeOK, Stamped, GoodOutlivesTorn, NEW j \in Jobs,
         archives' = (archives \ Mine(j)) \cup {[a EXCEPT !.whole = TRUE] : a \in Mine(j)},
         backed' = (backed \/ Mine(j) # {})
  PROVE  GoodOutlivesTorn' /\ IsFiniteSet(archives')
<1> DEFINE done == {[a EXCEPT !.whole = TRUE] : a \in Mine(j)}
<1>1. IsFiniteSet(archives \ Mine(j)) /\ IsFiniteSet(Mine(j))
  BY FS_Subset DEF Stamped, Mine
<1>2. IsFiniteSet(done)
  <2> DEFINE f == [a \in Mine(j) |-> [a EXCEPT !.whole = TRUE]]
  <2>1. f \in Surjection(Mine(j), done)
    BY DEF Surjection
  <2> QED  BY <1>1, <2>1, FS_Surjection
<1>3. IsFiniteSet(archives')
  BY <1>1, <1>2, FS_Union
<1>4. CASE Mine(j) = {}
  <2>1. done = {} /\ (backed' => backed)
    BY <1>4
  <2>2. archives' = archives
    BY <1>4, <2>1
  <2> QED  BY <1>3, <2>1, <2>2 DEF GoodOutlivesTorn, Torn, Whole
<1>5. CASE Mine(j) # {}
  <2>1. PICK a \in Mine(j) : TRUE
    BY <1>5
  <2>2. [a EXCEPT !.whole = TRUE].whole
    BY <2>1 DEF Mine, TypeOK
  <2>3. [a EXCEPT !.whole = TRUE] \in archives'
    BY <2>1
  <2>4. Whole' # {}
    BY <2>2, <2>3 DEF Whole, Torn
  <2> QED  BY <1>3, <2>4 DEF GoodOutlivesTorn
<1> QED  BY <1>4, <1>5

-----------------------------------------------------------------------------
(* The merge.                                                               *)

\* An address is moved, never doubled: live first, and of the archive's ids at most one.
LEMMA MergeKeepsOne ==
  ASSUME NEW live \in [Ids -> Addresses], NEW rows \in [Ids -> Addresses],
         OneAddress(live), OneAddress(rows)
  PROVE  /\ Merged(live, rows) \in [Ids -> Addresses]
         /\ OneAddress(Merged(live, rows))
<1>1. Merged(live, rows) \in [Ids -> Addresses]
  BY DEF Merged
<1>2. ASSUME NEW i \in Ids, NEW k \in Ids,
             Merged(live, rows)[i] = "mail", Merged(live, rows)[k] = "mail"
      PROVE  i = k
  BY <1>2 DEF Merged, OneAddress
<1> QED  BY <1>1, <1>2 DEF OneAddress

LEMMA DisplaceKeepsOne ==
  ASSUME TypeOK, NEW rows \in [Ids -> Addresses], OneAddress(owner)
  PROVE  Displaced(rows) \in [Ids -> Addresses] /\ OneAddress(Displaced(rows))
BY DEF TypeOK, Displaced, OneAddress, Addresses

\* A merge that moves a live account off the address gives it to one of the archive, when
\* nobody is parked.
LEMMA MergeReclaims ==
  ASSUME TypeOK, OneOwner, NEW a \in archives, NEW preferSource \in BOOLEAN,
         Restore(a, preferSource),
         NEW i \in Ids, owner[i] = "mail", owner'[i] = "parked",
         \A k \in Ids : owner[k] # "parked"
  PROVE  \E k \in Ids : owner'[k] = "mail"
<1>1. owner \in [Ids -> Addresses] /\ a.rows \in [Ids -> Addresses]
  BY DEF TypeOK
<1>2. preferSource /\ owner' = Merged(Displaced(a.rows), a.rows)
  <2>1. CASE ~preferSource
    <3>1. owner'[i] = owner[i]
      BY <1>1, <2>1 DEF Restore, Merged
    <3> QED  BY <3>1
  <2> QED  BY <2>1 DEF Restore
<1>3. \E k \in Ids \ {i} : a.rows[k] = "mail"
  <2>1. CASE ~(\E k \in Ids \ {i} : a.rows[k] = "mail")
    <3>1. Displaced(a.rows)[i] = "mail"
      BY <2>1 DEF Displaced
    <3>2. owner'[i] = "mail"
      BY <1>2, <3>1 DEF Merged
    <3> QED  BY <3>2
  <2> QED  BY <2>1
<1>4. PICK k \in Ids \ {i} : a.rows[k] = "mail"
  BY <1>3
<1>5. \A m \in Ids : Displaced(a.rows)[m] # "mail"
  BY <1>1, <1>4 DEF OneOwner, OneAddress, Displaced
<1>6. Displaced(a.rows)[k] = "absent"
  BY <1>1, <1>4 DEF OneOwner, OneAddress, Displaced, Addresses
<1>7. owner'[k] = "mail"
  BY <1>2, <1>4, <1>5, <1>6 DEF Merged
<1> QED  BY <1>7

-----------------------------------------------------------------------------
(* What a step writes of the jobs.                                          *)

\* Job j is at pc, with this stamp and these accounts; the others are as they were.
JobIs(j, pc, at, rows) ==
  /\ job'[j].pc = pc /\ job'[j].at = at /\ job'[j].rows = rows
  /\ \A k \in Jobs \ {j} : job'[k] = job[k]
  /\ job' \in [Jobs -> Run(started')]

LEMMA JobWritten ==
  ASSUME TypeOK, NEW j \in Jobs, started' \in Nat, started <= started',
         NEW new \in Run(started'), job' = [job EXCEPT ![j] = new]
  PROVE  JobIs(j, new.pc, new.at, new.rows)
<1>1. job \in [Jobs -> Run(started)] /\ started \in Nat
  BY DEF TypeOK, Run
<1>2. Run(started) \subseteq Run(started')
  BY <1>1 DEF Run
<1>3. job' \in [Jobs -> Run(started')]
  BY <1>1, <1>2
<1> QED  BY <1>1, <1>3 DEF JobIs

\* A run goes on to its next step.
LEMMA JobGoes ==
  ASSUME TypeOK, NEW j \in Jobs, UNCHANGED started,
         NEW pc \in {"boot", "idle", "copy", "tar", "prune", "report"}, Goes(j, pc)
  PROVE  JobIs(j, pc, job[j].at, job[j].rows)
<1> DEFINE new == [job[j] EXCEPT !.pc = pc]
<1>1. job[j] \in Run(started) /\ started' \in Nat /\ started <= started' /\ started' = started
  BY DEF TypeOK, Run
<1>2. new \in Run(started')
  BY <1>1 DEF Run
<1>3. new.pc = pc /\ new.at = job[j].at /\ new.rows = job[j].rows
  BY <1>1 DEF Run
<1>4. job' = [job EXCEPT ![j] = new]
  BY DEF Goes
<1> HIDE DEF new
<1>5. JobIs(j, new.pc, new.at, new.rows)
  BY <1>1, <1>2, <1>4, JobWritten
<1> QED  BY <1>3, <1>5

\* A run ends, well or not.
LEMMA JobEnds ==
  ASSUME TypeOK, NEW j \in Jobs, UNCHANGED started, NEW ok \in BOOLEAN, Ends(j, ok)
  PROVE  JobIs(j, "report", job[j].at, job[j].rows)
<1> DEFINE new == [job[j] EXCEPT !.pc = "report", !.ok = ok]
<1>1. /\ job[j] \in Run(started) /\ j \in DOMAIN job
      /\ started' \in Nat /\ started <= started' /\ started' = started
  BY DEF TypeOK, Run
<1>2. new \in Run(started')
  BY <1>1 DEF Run
<1>3. new.pc = "report" /\ new.at = job[j].at /\ new.rows = job[j].rows
  BY <1>1 DEF Run
<1>4. job' = [job EXCEPT ![j] = new]
  BY <1>1 DEF Ends
<1> HIDE DEF new
<1>5. JobIs(j, new.pc, new.at, new.rows)
  BY <1>1, <1>2, <1>4, JobWritten
<1> QED  BY <1>3, <1>5

LEMMA NobodyType == Nobody \in [Ids -> Addresses] /\ OneAddress(Nobody)
BY DEF Nobody, Addresses, OneAddress

\* A job that does nothing holds nothing.
LEMMA SleepersHoldNothing ==
  ASSUME NEW pc \in {"boot", "idle"}, NEW n \in Nat
  PROVE  /\ [Asleep EXCEPT !.pc = pc] \in Run(n)
         /\ [Asleep EXCEPT !.pc = pc].pc = pc
         /\ [Asleep EXCEPT !.pc = pc].at = 0
         /\ [Asleep EXCEPT !.pc = pc].rows = Nobody
<1>1. Asleep \in [pc : {"idle"}, at : {0}, rows : {Nobody}, ok : {FALSE}]
  BY DEF Asleep
<1> DEFINE sleeper == [Asleep EXCEPT !.pc = pc]
<1>2. sleeper \in [pc : {pc}, at : {0}, rows : {Nobody}, ok : {FALSE}]
  BY <1>1
<1> HIDE DEF sleeper
<1>3. sleeper.pc = pc /\ sleeper.at = 0 /\ sleeper.rows = Nobody
  BY <1>2
<1>4. sleeper \in Run(n)
  <2>1. {pc} \subseteq {"boot", "idle", "copy", "tar", "prune", "report"} /\ {0} \subseteq 0..n
    OBVIOUS
  <2>2. {Nobody} \subseteq [Ids -> Addresses] /\ {FALSE} \subseteq BOOLEAN
    BY NobodyType
  <2> QED  BY <1>2, <2>1, <2>2 DEF Run
<1> QED  BY <1>3, <1>4 DEF sleeper

\* A reported run leaves its job asleep.
LEMMA JobSleeps ==
  ASSUME TypeOK, NEW j \in Jobs, UNCHANGED started,
         job' = [job EXCEPT ![j] = [Asleep EXCEPT !.pc = AfterReport(j)]]
  PROVE  JobIs(j, "idle", 0, Nobody)
<1> DEFINE new == [Asleep EXCEPT !.pc = "idle"]
<1>1. started' \in Nat /\ started <= started'
  BY DEF TypeOK
<1>2. job' = [job EXCEPT ![j] = new]
  BY DEF AfterReport
<1>3. new \in Run(started') /\ new.pc = "idle" /\ new.at = 0 /\ new.rows = Nobody
  BY <1>1, SleepersHoldNothing
<1> HIDE DEF new
<1>4. JobIs(j, new.pc, new.at, new.rows)
  BY <1>1, <1>2, <1>3, JobWritten
<1> QED  BY <1>3, <1>4

\* A run begins with a stamp of its own and the accounts as they are.
LEMMA JobBegins ==
  ASSUME TypeOK, NEW j \in Jobs, Begins(j)
  PROVE  /\ JobIs(j, "copy", started + 1, owner)
         /\ started' = started + 1 /\ started' \in Nat
<1> DEFINE new == [pc |-> "copy", at |-> started + 1, rows |-> owner, ok |-> FALSE]
<1>1. /\ job' = [job EXCEPT ![j] = new] /\ started \in Nat
      /\ started' = started + 1 /\ started' \in Nat /\ started <= started'
  BY DEF Begins, TypeOK
<1>2. new \in Run(started')
  BY <1>1 DEF Run, TypeOK
<1>3. JobIs(j, new.pc, new.at, new.rows)
  BY <1>1, <1>2, JobWritten
<1> QED  BY <1>1, <1>3

-----------------------------------------------------------------------------
(* Each step keeps the invariant.                                           *)

\* Enough for a step that writes neither archives nor accounts, and lets job j go on.
LEMMA JobStepKeeps ==
  ASSUME IInv, NEW j \in Jobs, NEW pc, NEW at, NEW rows, JobIs(j, pc, at, rows),
         pc \in {"boot", "idle"} \/ at # 0, rows \in [Ids -> Addresses], OneAddress(rows),
         started' \in Nat, started <= started', UNCHANGED <<accounts, archives, backed>>,
         status' \in [ok : BOOLEAN, at : 0..started', engine : {"none", "sqlite", "postgres"}],
         extra' \in 0..MaxExtra, failures' \in 0..MaxFailures, crashes' \in 0..MaxCrashes
  PROVE  IInv'
<1> USE DEF IInv, accounts
<1>1. archives' \subseteq Archive(started')
  BY DEF TypeOK, Archive
<1>2. TypeOK'
  BY <1>1 DEF TypeOK, JobIs, Run, Archive
<1>3. Stamped'
  BY DEF Stamped, JobIs, At
<1>4. OneOwner'
  BY DEF OneOwner, JobIs
<1>5. GoodOutlivesTorn'
  BY DEF GoodOutlivesTorn, Torn, Whole
<1> QED  BY <1>2, <1>3, <1>4, <1>5

LEMMA BeginsKeeps ==
  ASSUME IInv, NEW j \in Jobs, Begins(j), UNCHANGED <<accounts, archives, status, backed>>,
         extra' \in 0..MaxExtra, UNCHANGED <<failures, crashes>>
  PROVE  IInv'
<1>1. /\ JobIs(j, "copy", started + 1, owner) /\ started' = started + 1 /\ started' \in Nat
      /\ started <= started' /\ started + 1 # 0
  BY JobBegins DEF IInv, TypeOK
<1>2. /\ owner \in [Ids -> Addresses] /\ OneAddress(owner)
      /\ failures' \in 0..MaxFailures /\ crashes' \in 0..MaxCrashes
  BY DEF IInv, TypeOK, OneOwner
<1>3. status' \in [ok : BOOLEAN, at : 0..started', engine : {"none", "sqlite", "postgres"}]
  BY <1>1 DEF IInv, TypeOK
<1> QED  BY <1>1, <1>2, <1>3, JobStepKeeps

\* The server boots, and runs a backup or waits.
LEMMA BootKeeps ==
  ASSUME IInv, Boot
  PROVE  IInv'
<1>1. CASE RunsAtBoot
  BY <1>1, NightlyIsAJob, BeginsKeeps DEF Boot, bounds, IInv, TypeOK
<1>2. CASE ~RunsAtBoot
  <2>1. JobIs(Nightly, "idle", job[Nightly].at, job[Nightly].rows)
    BY <1>2, NightlyIsAJob, JobGoes DEF Boot, IInv
  <2>2. /\ job[Nightly].rows \in [Ids -> Addresses] /\ OneAddress(job[Nightly].rows)
        /\ started' \in Nat /\ started <= started'
        /\ status' \in [ok : BOOLEAN, at : 0..started', engine : {"none", "sqlite", "postgres"}]
        /\ UNCHANGED <<accounts, archives, backed>>
        /\ extra' \in 0..MaxExtra /\ failures' \in 0..MaxFailures /\ crashes' \in 0..MaxCrashes
    BY <1>2, NightlyIsAJob DEF Boot, bounds, IInv, TypeOK, OneOwner
  <2> QED  BY <2>1, <2>2, NightlyIsAJob, JobStepKeeps
<1> QED  BY <1>1, <1>2

LEMMA NightKeeps ==
  ASSUME IInv, Night
  PROVE  IInv'
BY NightlyIsAJob, BeginsKeeps DEF Night, bounds, IInv, TypeOK

LEMMA ExtraKeeps ==
  ASSUME IInv, NEW j \in Jobs, Extra(j)
  PROVE  IInv'
<1>1. extra' \in 0..MaxExtra
  BY BackupBounds DEF Extra, IInv, TypeOK
<1> QED  BY <1>1, BeginsKeeps DEF Extra

\* The archive appears, torn.
LEMMA OpenKeeps ==
  ASSUME IInv, NEW j \in Jobs, Open(j)
  PROVE  IInv'
<1> USE DEF IInv
<1> DEFINE new == [at |-> job[j].at, whole |-> FALSE, rows |-> job[j].rows]
<1>1. JobIs(j, "tar", job[j].at, job[j].rows) /\ started' = started /\ job[j].at # 0
  BY JobGoes DEF Open, Stamped, At
<1>2. new \in Archive(started) /\ OneAddress(new.rows) /\ ~new.whole
  BY <1>1 DEF Archive, TypeOK, OneOwner
<1>3. archives' = archives \cup {new}
  BY DEF Open
<1> HIDE DEF new
<1>4. GoodOutlivesTorn' /\ IsFiniteSet(archives')
  BY <1>2, <1>3, OpenKeepsGood DEF Open
<1>5. TypeOK'
  BY <1>1, <1>2, <1>3 DEF Open, accounts, bounds, TypeOK, JobIs, Run, Archive
<1>6. Stamped'
  BY <1>1, <1>4 DEF Stamped, JobIs, At
<1>7. OneOwner'
  BY <1>1, <1>2, <1>3 DEF Open, accounts, OneOwner, JobIs
<1> QED  BY <1>4, <1>5, <1>6, <1>7

\* The archive is complete.
LEMMA CompleteKeeps ==
  ASSUME IInv, NEW j \in Jobs, Complete(j)
  PROVE  IInv'
<1> USE DEF IInv
<1>1. JobIs(j, "prune", job[j].at, job[j].rows) /\ started' = started /\ job[j].at # 0
  BY JobGoes DEF Complete, Stamped, At
<1>2. GoodOutlivesTorn' /\ IsFiniteSet(archives')
  BY CompleteKeepsGood DEF Complete
<1>3. \A a \in archives' : a \in Archive(started) /\ OneAddress(a.rows)
  <2> SUFFICES ASSUME NEW a \in archives' PROVE a \in Archive(started) /\ OneAddress(a.rows)
    OBVIOUS
  <2>1. CASE a \in archives
    BY <2>1 DEF TypeOK, Archive, OneOwner
  <2>2. CASE a \notin archives
    <3>1. PICK b \in Mine(j) : a = [b EXCEPT !.whole = TRUE]
      BY <2>2 DEF Complete
    <3>2. b \in Archive(started) /\ OneAddress(b.rows)
      BY <3>1 DEF Mine, TypeOK, Archive, OneOwner
    <3> QED  BY <3>1, <3>2 DEF Archive
  <2> QED  BY <2>1, <2>2
<1>4. TypeOK'
  <2>1. backed' \in BOOLEAN
    BY DEF Complete
  <2> QED  BY <1>1, <1>3, <2>1 DEF Complete, accounts, bounds, TypeOK, JobIs, Run, Archive
<1>5. Stamped'
  BY <1>1, <1>2 DEF Stamped, JobIs, At
<1>6. OneOwner'
  BY <1>1, <1>3 DEF Complete, accounts, OneOwner, JobIs
<1> QED  BY <1>2, <1>4, <1>5, <1>6

\* The directory is pruned.
LEMMA PruneKeeps ==
  ASSUME IInv, NEW j \in Jobs, Prune(j)
  PROVE  IInv'
<1> USE DEF IInv
<1>1. JobIs(j, "report", job[j].at, job[j].rows) /\ started' = started /\ job[j].at # 0
  BY JobEnds DEF Prune, Stamped, At
<1>2. GoodOutlivesTorn'
  BY PruneKeepsGood DEF Prune
<1>3. archives' \in SUBSET archives
  BY DEF Prune, Kept
<1>4. TypeOK'
  BY <1>1, <1>3 DEF Prune, accounts, bounds, TypeOK, JobIs, Run
<1>5. Stamped'
  BY <1>1, <1>3, FS_Subset DEF Stamped, JobIs, At
<1>6. OneOwner'
  BY <1>1, <1>3 DEF Prune, accounts, OneOwner, JobIs
<1> QED  BY <1>2, <1>4, <1>5, <1>6

\* A run fails, and reports; what it wrote stays.
LEMMA FailKeeps ==
  ASSUME IInv, NEW j \in Jobs, Fail(j)
  PROVE  IInv'
<1> USE BackupBounds DEF IInv, Fail, accounts
<1>1. JobIs(j, "report", job[j].at, job[j].rows)
  BY JobEnds
<1>2. /\ job[j].at # 0 /\ job[j].rows \in [Ids -> Addresses] /\ OneAddress(job[j].rows)
      /\ started' \in Nat /\ started <= started' /\ failures' \in 0..MaxFailures
  BY DEF Stamped, At, TypeOK, OneOwner
<1>3. status' \in [ok : BOOLEAN, at : 0..started', engine : {"none", "sqlite", "postgres"}]
  BY DEF TypeOK
<1>4. extra' \in 0..MaxExtra /\ crashes' \in 0..MaxCrashes
  BY DEF TypeOK
<1> QED  BY <1>1, <1>2, <1>3, <1>4, JobStepKeeps

\* The run is reported.
LEMMA ReportKeeps ==
  ASSUME IInv, NEW j \in Jobs, Report(j)
  PROVE  IInv'
<1> USE DEF IInv, Report, accounts, bounds
<1>1. JobIs(j, "idle", 0, Nobody)
  BY JobSleeps
<1>2. started' \in Nat /\ started <= started'
  BY DEF TypeOK
<1>3. status' \in [ok : BOOLEAN, at : 0..started', engine : {"none", "sqlite", "postgres"}]
  BY DEF TypeOK
<1>4. extra' \in 0..MaxExtra /\ failures' \in 0..MaxFailures /\ crashes' \in 0..MaxCrashes
  BY DEF TypeOK
<1> QED  BY <1>1, <1>2, <1>3, <1>4, NobodyType, JobStepKeeps

\* The report is lost.
LEMMA ReportLostKeeps ==
  ASSUME IInv, NEW j \in Jobs, ReportLost(j)
  PROVE  IInv'
<1> USE BackupBounds DEF IInv, ReportLost, accounts
<1>1. JobIs(j, "idle", 0, Nobody)
  BY JobSleeps
<1>2. started' \in Nat /\ started <= started' /\ failures' \in 0..MaxFailures
  BY DEF TypeOK
<1>3. status' \in [ok : BOOLEAN, at : 0..started', engine : {"none", "sqlite", "postgres"}]
  BY DEF TypeOK
<1>4. extra' \in 0..MaxExtra /\ crashes' \in 0..MaxCrashes
  BY DEF TypeOK
<1> QED  BY <1>1, <1>2, <1>3, <1>4, NobodyType, JobStepKeeps

\* A restart: the jobs begin anew, the archives and the accounts stay, or are empty.
LEMMA RestartKeeps ==
  ASSUME IInv, Restart
  PROVE  IInv'
<1> USE BackupBounds DEF IInv, Restart
<1>0. /\ started' \in Nat /\ started' = started
      /\ Asleep \in Run(started') /\ Asleep.pc = "idle" /\ Asleep.rows = Nobody
  BY NobodyType DEF Asleep, Run, TypeOK
<1>1. \A j \in Jobs : /\ job'[j].pc \in {"boot", "idle"} /\ job'[j].rows = Nobody
                      /\ job'[j] \in Run(started')
  BY <1>0, SleepersHoldNothing
<1>2. job' \in [Jobs -> Run(started')]
  BY <1>1
<1>3. status' \in [ok : BOOLEAN, at : 0..started', engine : {"none", "sqlite", "postgres"}]
  <2>1. NoStatus \in [ok : BOOLEAN, at : 0..started', engine : {"none", "sqlite", "postgres"}]
    BY <1>0 DEF NoStatus
  <2>2. status' \in {status, NoStatus}
    OBVIOUS
  <2> QED  BY <1>0, <2>1, <2>2 DEF TypeOK
<1>4. owner' \in {owner, Nobody} /\ engine' \in {"sqlite", "postgres"}
  BY DEF TypeOK
<1>5. TypeOK'
  BY <1>2, <1>3, <1>4, NobodyType DEF TypeOK, Run
<1>6. Stamped'
  BY <1>1 DEF Stamped, At
<1>7. OneOwner'
  BY <1>1, <1>4, NobodyType DEF OneOwner
<1>8. GoodOutlivesTorn'
  BY DEF GoodOutlivesTorn, Torn, Whole
<1> QED  BY <1>5, <1>6, <1>7, <1>8

\* Enough for a step that writes the accounts alone.
LEMMA OwnersKeep ==
  ASSUME IInv, owner' \in [Ids -> Addresses], OneAddress(owner'), born' \in SUBSET Ids,
         UNCHANGED <<engine, archives, status, job, started, backed, bounds>>
  PROVE  IInv'
<1> USE DEF IInv, bounds
<1>1. TypeOK'
  BY DEF TypeOK
<1>2. Stamped' /\ OneOwner'
  BY DEF Stamped, At, OneOwner
<1>3. GoodOutlivesTorn'
  BY DEF GoodOutlivesTorn, Torn, Whole
<1> QED  BY <1>1, <1>2, <1>3

\* A new account signs in with an address nobody has.
LEMMA RegisterKeeps ==
  ASSUME IInv, NEW i \in Ids, Register(i)
  PROVE  IInv'
<1>1. owner' \in [Ids -> Addresses] /\ OneAddress(owner') /\ born' \in SUBSET Ids
  BY DEF IInv, TypeOK, OneAddress, Register, Addresses
<1> QED  BY <1>1, OwnersKeep DEF Register

LEMMA DeleteKeeps ==
  ASSUME IInv, NEW i \in Ids, Delete(i)
  PROVE  IInv'
<1>1. owner' \in [Ids -> Addresses] /\ OneAddress(owner') /\ born' \in SUBSET Ids
  BY DEF IInv, TypeOK, OneOwner, OneAddress, Delete, Addresses
<1> QED  BY <1>1, OwnersKeep DEF Delete

\* A merge gives the address to one account at most.
LEMMA RestoreKeeps ==
  ASSUME IInv, NEW a \in archives, NEW preferSource \in BOOLEAN, Restore(a, preferSource)
  PROVE  IInv'
<1> DEFINE live == IF preferSource THEN Displaced(a.rows) ELSE owner
<1>1. /\ owner \in [Ids -> Addresses] /\ OneAddress(owner)
      /\ a.rows \in [Ids -> Addresses] /\ OneAddress(a.rows)
  BY DEF IInv, TypeOK, OneOwner
<1>2. live \in [Ids -> Addresses] /\ OneAddress(live)
  BY <1>1, DisplaceKeepsOne DEF IInv
<1>3. owner' = Merged(live, a.rows)
  BY DEF Restore
<1> HIDE DEF live
<1>4. owner' \in [Ids -> Addresses] /\ OneAddress(owner') /\ born' \in SUBSET Ids
  BY <1>1, <1>2, <1>3, MergeKeepsOne DEF Restore, IInv, TypeOK
<1> QED  BY <1>4, OwnersKeep DEF Restore

-----------------------------------------------------------------------------
(* The invariant.                                                           *)

LEMMA IInvInit == Init => IInv
<1> SUFFICES ASSUME Init PROVE IInv  OBVIOUS
<1> USE NobodyType, BackupBounds DEF Init
<1>0. Asleep \in Run(started) /\ Asleep.pc = "idle" /\ Asleep.rows = Nobody /\ started \in Nat
  BY DEF Asleep, Run
<1>1. \A j \in Jobs : /\ job[j].pc \in {"boot", "idle"} /\ job[j].rows = Nobody
                      /\ job[j] \in Run(started)
  BY <1>0, SleepersHoldNothing
<1>2. job \in [Jobs -> Run(started)]
  BY <1>1
<1>3. status \in [ok : BOOLEAN, at : 0..started, engine : {"none", "sqlite", "postgres"}]
  BY DEF NoStatus
<1>4. TypeOK
  <2>1. job \in [Jobs -> [pc : {"boot", "idle", "copy", "tar", "prune", "report"},
                          at : 0..started, rows : [Ids -> Addresses], ok : BOOLEAN]]
    BY <1>2 DEF Run
  <2>2. extra \in 0..MaxExtra /\ failures \in 0..MaxFailures /\ crashes \in 0..MaxCrashes
    OBVIOUS
  <2> QED  BY <1>3, <2>1, <2>2 DEF TypeOK
<1>5. Stamped
  BY <1>1, FS_EmptySet DEF Stamped, At
<1>6. OneOwner
  BY <1>1 DEF OneOwner
<1>7. GoodOutlivesTorn
  BY DEF GoodOutlivesTorn
<1> QED  BY <1>4, <1>5, <1>6, <1>7 DEF IInv

LEMMA IInvStep == IInv /\ [Next]_vars => IInv'
<1> SUFFICES ASSUME IInv, [Next]_vars PROVE IInv'  OBVIOUS
<1>1. CASE Boot
  BY <1>1, BootKeeps
<1>2. CASE Night
  BY <1>2, NightKeeps
<1>3. ASSUME NEW j \in Jobs, Extra(j) PROVE IInv'
  BY <1>3, ExtraKeeps
<1>4. ASSUME NEW j \in Jobs, Open(j) PROVE IInv'
  BY <1>4, OpenKeeps
<1>5. ASSUME NEW j \in Jobs, Complete(j) PROVE IInv'
  BY <1>5, CompleteKeeps
<1>6. ASSUME NEW j \in Jobs, Prune(j) PROVE IInv'
  BY <1>6, PruneKeeps
<1>7. ASSUME NEW j \in Jobs, Fail(j) PROVE IInv'
  BY <1>7, FailKeeps
<1>8. ASSUME NEW j \in Jobs, Report(j) PROVE IInv'
  BY <1>8, ReportKeeps
<1>9. ASSUME NEW j \in Jobs, ReportLost(j) PROVE IInv'
  BY <1>9, ReportLostKeeps
<1>10. CASE Restart
  BY <1>10, RestartKeeps
<1>11. ASSUME NEW i \in Ids, Register(i) PROVE IInv'
  BY <1>11, RegisterKeeps
<1>12. ASSUME NEW i \in Ids, Delete(i) PROVE IInv'
  BY <1>12, DeleteKeeps
<1>13. ASSUME NEW a \in archives, NEW preferSource \in BOOLEAN, Restore(a, preferSource)
       PROVE  IInv'
  BY <1>13, RestoreKeeps
<1>14. CASE UNCHANGED vars
  <2>1. owner' = owner /\ OneAddress(owner) /\ owner \in [Ids -> Addresses] /\ born' \in SUBSET Ids
    BY <1>14 DEF vars, accounts, IInv, TypeOK, OneOwner
  <2> QED  BY <1>14, <2>1, OwnersKeep DEF vars, accounts
<1> QED
  BY <1>1, <1>2, <1>3, <1>4, <1>5, <1>6, <1>7, <1>8, <1>9, <1>10, <1>11, <1>12, <1>13, <1>14
  DEF Next

\* The directory, the accounts and the jobs keep their types, at most one id signs in with
\* the address, and a good archive outlives the torn ones.
THEOREM BackupInvariant == Spec => []IInv
<1>1. Init => IInv
  BY IInvInit
<1>2. IInv /\ [Next]_vars => IInv'
  BY IInvStep
<1> QED  BY <1>1, <1>2, PTL DEF Spec

\* Once there was a complete archive there is one, while fewer torn ones lie there than
\* prune_backups keeps: for every BACKUP_KEEP and every number of jobs that overlap.
THEOREM GoodArchiveStays == Spec => []GoodOutlivesTorn
<1>1. IInv => GoodOutlivesTorn
  BY DEF IInv
<1> QED  BY <1>1, BackupInvariant, PTL

\* No merge lets two accounts share the address, and one that takes it from a live
\* account gives it to one of the archive, when nobody is parked.
THEOREM MergeNeverStrands == Spec => ParkedIsReclaimed
<1> DEFINE A == /\ \A i, k \in Ids : owner'[i] = "mail" /\ owner'[k] = "mail" => i = k
                /\ (\E i \in Ids : owner[i] = "mail" /\ owner'[i] = "parked")
                     /\ (\A i \in Ids : owner[i] # "parked")
                   => \E k \in Ids : owner'[k] = "mail"
<1>1. ASSUME IInv, [Next]_vars, NEW i \in Ids, owner[i] = "mail", owner'[i] = "parked",
             \A k \in Ids : owner[k] # "parked"
      PROVE  \E k \in Ids : owner'[k] = "mail"
  <2>1. CASE \E a \in archives, preferSource \in BOOLEAN : Restore(a, preferSource)
    BY <1>1, <2>1, MergeReclaims DEF IInv
  <2>2. CASE \E k \in Ids : Register(k) \/ Delete(k)
    <3>1. PICK k \in Ids : Register(k) \/ Delete(k)
      BY <2>2
    <3>2. owner \in [Ids -> Addresses]
      BY <1>1 DEF IInv, TypeOK
    <3>3. owner'[i] \in {owner[i], "mail", "absent"}
      BY <3>1, <3>2 DEF Register, Delete
    <3> QED  BY <1>1, <3>3
  <2>3. CASE Restart
    BY <1>1, <2>3 DEF Restart, Nobody
  <2>4. CASE UNCHANGED owner
    BY <1>1, <2>4
  <2> QED
    BY <1>1, <2>1, <2>2, <2>3, <2>4
    DEF Next, vars, accounts, Boot, Night, Extra, Open, Complete, Prune, Fail, Report, ReportLost
<1>2. IInv /\ [Next]_vars => [A]_vars
  BY <1>1, IInvStep DEF IInv, OneOwner, OneAddress
<1> QED  BY <1>2, BackupInvariant, PTL DEF Spec, ParkedIsReclaimed
=============================================================================
