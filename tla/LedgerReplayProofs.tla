-------------------------- MODULE LedgerReplayProofs --------------------------
(* The folds of BuildLedger are the readings of the whole log, for every log. *)
EXTENDS LedgerReplay, FiniteSetTheorems, SequenceTheorems, WellFoundedInduction, TLAPS

-----------------------------------------------------------------------------
(* The latest of a set of positions.                                         *)

LEMMA MaxIsIn ==
  ASSUME NEW n \in Nat, NEW S \in SUBSET (1..n), S # {}
  PROVE  Max(S) \in S /\ \A y \in S : y <= Max(S)
<1> DEFINE Above(x) == {y \in 1..n : y > x}
           T == {Above(x) : x \in S}
<1>1. IsFiniteSet(1..n) BY FS_Interval
<1>2. IsWellFoundedOn(StrictSubsetOrdering(1..n), SUBSET (1..n))
  BY <1>1, FS_FiniteSubsetsOfFinite, FS_StrictSubsetOrderingWellFounded
<1>3. T \subseteq SUBSET (1..n) /\ T # {} OBVIOUS
<1>4. PICK N \in T : \A M \in T : <<M, N>> \notin StrictSubsetOrdering(1..n)
  BY <1>2, <1>3, WFMin
<1>5. PICK x \in S : N = Above(x) BY <1>4
<1>6. \A y \in S : x >= y
  <2> SUFFICES ASSUME NEW y \in S, y > x PROVE FALSE OBVIOUS
  <2>1. Above(y) \subseteq Above(x) /\ y \in Above(x) /\ y \notin Above(y) OBVIOUS
  <2>2. Above(y) \in T /\ Above(y) \in SUBSET (1..n) /\ Above(x) \in SUBSET (1..n) OBVIOUS
  <2> QED BY <1>4, <1>5, <2>1, <2>2 DEF StrictSubsetOrdering
<1> QED BY <1>6 DEF Max

\* A position after all of them is the latest; the latest of none is before all.
LEMMA LatestIs ==
  ASSUME NEW n \in Nat, NEW S \in SUBSET (1..n)
  PROVE  /\ Latest(S) \in 0..n
         /\ S # {} => Latest(S) \in S /\ Latest(S) = Max(S)
         /\ S = {} <=> Latest(S) = 0
         /\ \A y \in S : y <= Latest(S)
<1>1. CASE S = {} BY <1>1 DEF Latest
<1>2. CASE S # {}
  <2>1. Max(S) \in S /\ \A y \in S : y <= Max(S) BY <1>2, MaxIsIn
  <2>2. Latest(S) = Max(S) BY <1>2 DEF Latest
  <2>3. Max(S) \in 1..n BY <2>1
  <2> QED BY <1>2, <2>1, <2>2, <2>3
<1> QED BY <1>1, <1>2

LEMMA LatestOfMore ==
  ASSUME NEW n \in Nat, NEW S \in SUBSET (1..n)
  PROVE  Latest(S \cup {n + 1}) = n + 1 /\ Max(S \cup {n + 1}) = n + 1
<1> DEFINE U == S \cup {n + 1}
<1>1. U \in SUBSET (1..(n + 1)) /\ U # {} OBVIOUS
<1>2. Max(U) \in U /\ \A y \in U : y <= Max(U) BY <1>1, MaxIsIn, n + 1 \in Nat
<1>3. n + 1 \in U /\ \A y \in U : y <= n + 1 OBVIOUS
<1>4. Max(U) \in 1..(n + 1) BY <1>1, <1>2
<1>5. Max(U) = n + 1 BY <1>2, <1>3, <1>4
<1> QED BY <1>5 DEF Latest

-----------------------------------------------------------------------------
(* What is written, and one more of it.                                      *)

Kinds == PhaseKinds \cup {"RUN_STARTED", "NOTE", "PILOT_OPENED", "REWORK", "RUN_SUCCEEDED", "RUN_FAILED"}

\* What the readers may take for granted of an event.
WellFormed(e) ==
  /\ e.kind \in Kinds
  /\ e.kind \in PhaseKinds <=> (e.role \in BuildRole /\ e.kind \notin {"REWORK", "RUN_SUCCEEDED", "RUN_FAILED"})
  /\ e.reopen # {} => e.kind \in {"PILOT_OPENED", "REWORK"}
  /\ e.kind = "REWORK" => e.source \in ReworkGates
  /\ e.kind \notin {"NOTE"} => e.key \notin {"inputs_rebased", "rework_budget_reset"}
  /\ e.outcome = "HANDOFF_TO_N3" => e.kind = "RUN_FAILED" /\ e.key = "none"
  /\ e.kind = "RUN_STARTED" \/ e.key = "inputs_rebased" => e.inputs \in Inputs

LEMMA WrittenIsWellFormed ==
  ASSUME NEW e \in Written
  PROVE  WellFormed(e)
<1>1. CASE \E r \in Roles : e \in {PhaseStarted(r), GatePassed(r), GateFailed(r), PhaseAborted(r)}
  BY <1>1, ReplayAssumption, ZenonT(30)
     DEF WellFormed, Kinds, PhaseKinds, PhaseStarted, GatePassed, GateFailed, PhaseAborted, Note, BuildRole
<1>2. CASE \E b \in BOOLEAN : e = PilotOpened(b)
  BY <1>2 DEF WellFormed, Kinds, PhaseKinds, PilotOpened, Note, BuildRole
<1>3. CASE \E h \in Inputs : e \in {InputsRebased(h), RunStarted(h)}
  BY <1>3 DEF WellFormed, Kinds, PhaseKinds, InputsRebased, RunStarted, Note, BuildRole
<1>4. CASE \E g \in ReworkGates : \E F, R : e = Rework(g, F, R)
  BY <1>4 DEF WellFormed, Kinds, PhaseKinds, Rework, Note, BuildRole
<1>5. CASE \E c : e = RunSucceeded("SUCCESS", c)
  BY <1>5 DEF WellFormed, Kinds, PhaseKinds, RunSucceeded, Note, BuildRole
<1>6. CASE \E F : e = RunFailed("TESTER", "FAILED_GATE", F)
  BY <1>6 DEF WellFormed, Kinds, PhaseKinds, RunFailed, Note, BuildRole
<1>7. CASE e \in {RunFailed("STORE_MANAGER", "HANDOFF_TO_N3", {}), N3Failed({}),
                  N3Passed("STORE_MANAGER"), BudgetReset, Note}
  <2>1. CASE e = RunFailed("STORE_MANAGER", "HANDOFF_TO_N3", {})
    BY <2>1 DEF WellFormed, Kinds, PhaseKinds, RunFailed, Note, BuildRole
  <2>2. CASE e = N3Failed({})
    <3>1. /\ e.kind = "RUN_FAILED" /\ e.role = "STORE_MANAGER" /\ e.key = "n3"
          /\ e.outcome = "FAILED_GATE" /\ e.reopen = {}
      BY <2>2 DEF N3Failed, RunFailed, Note
    <3> QED BY <3>1 DEF WellFormed, Kinds, PhaseKinds, BuildRole
  <2>3. CASE e = N3Passed("STORE_MANAGER")
    BY <2>3 DEF WellFormed, Kinds, PhaseKinds, N3Passed, GatePassed, Note, BuildRole
  <2>4. CASE e \in {BudgetReset, Note}
    BY <2>4 DEF WellFormed, Kinds, PhaseKinds, BudgetReset, Note, BuildRole
  <2> QED BY <1>7, <2>1, <2>2, <2>3, <2>4
<1>8. \A R : e \in Reworks(R) => \E g \in ReworkGates : \E F : e = Rework(g, F, R) BY DEF Reworks
<1>9. \/ e \in UNION {{PhaseStarted(r), GatePassed(r), GateFailed(r), PhaseAborted(r)} : r \in Roles}
      \/ e \in {PilotOpened(b) : b \in BOOLEAN}
      \/ e \in {InputsRebased(h) : h \in Inputs} \/ e \in {RunStarted(h) : h \in Inputs}
      \/ \E R : e \in Reworks(R)
      \/ e \in {RunSucceeded("SUCCESS", c) : c \in {"code", "pilot"}}
      \/ e \in {RunFailed("TESTER", "FAILED_GATE", {f}) : f \in Failures}
      \/ e \in {RunFailed("STORE_MANAGER", "HANDOFF_TO_N3", {}), N3Failed({}),
                N3Passed("STORE_MANAGER"), BudgetReset, Note}
  BY Zenon DEF Written
<1> QED BY <1>1, <1>2, <1>3, <1>4, <1>5, <1>6, <1>7, <1>8, <1>9

Shape == log \in Seq(Written) /\ Len(log) \in Nat \ {0}

\* log' is log and then e.
Grows(e) ==
  /\ e \in Written /\ Shape'
  /\ Len(log)' = Len(log) + 1
  /\ \A i \in Positions : log'[i] = log[i]
  /\ log'[Len(log) + 1] = e
  /\ led' = Appended(led, e)

LEMMA WriteGrows ==
  ASSUME Shape, Write
  PROVE  \E e \in Written : Grows(e)
<1>1. PICK e \in Written : log' = log \o <<e>> /\ led' = Appended(led, e) BY DEF Write
<1>2. <<e>> \in Seq(Written) /\ Len(<<e>>) = 1 /\ <<e>>[1] = e OBVIOUS
<1>3. log \in Seq(Written) BY DEF Shape
<1>4. /\ log' \in Seq(Written) /\ Len(log') = Len(log) + 1
      /\ \A i \in 1 .. Len(log) + 1 : log'[i] = IF i <= Len(log) THEN log[i] ELSE <<e>>[i - Len(log)]
  BY <1>1, <1>2, <1>3, ConcatProperties
<1>5. Len(log) \in Nat BY DEF Shape
<1>6. log'[Len(log) + 1] = e BY <1>2, <1>4, <1>5
<1>7. \A i \in Positions : log'[i] = log[i] BY <1>4, <1>5 DEF Positions
<1>8. Shape' BY <1>4, <1>5 DEF Shape
<1> QED BY <1>1, <1>4, <1>6, <1>7, <1>8 DEF Grows

-----------------------------------------------------------------------------
LEMMA Longer ==
  ASSUME Shape, NEW e, Grows(e)
  PROVE  /\ Len(log) \in Nat /\ Positions = 1 .. Len(log)
         /\ Positions' = Positions \cup {Len(log) + 1} /\ Len(log) + 1 \notin Positions
         /\ \A i \in Positions : i < Len(log) + 1 /\ i \in Nat
         /\ WellFormed(e) /\ led' = Appended(led, e)
BY WrittenIsWellFormed DEF Shape, Grows, Positions

-----------------------------------------------------------------------------
(* completed_roles                                                           *)

Passes(x, r) == x.kind = "GATE_PASSED" /\ x.role = r
Spares(x, r) ==
  /\ x.role = r => x.kind \notin PhaseKinds
  /\ r \notin x.reopen /\ x.key # "inputs_rebased"
  /\ x.kind = "PILOT_OPENED" => r \notin {"TESTER", "STORE_MANAGER"}

LEMMA CompletedEffect ==
  ASSUME NEW e, WellFormed(e), NEW l, NEW r \in BuildRole
  PROVE  r \in Completed(Appended(l, e)) <=> Passes(e, r) \/ (r \in Completed(l) /\ Spares(e, r))
<1>1. Appended(l, e).verdicts[r] =
        IF r \in Withdraws(e) THEN "none" ELSE IF SetsVerdict(e) /\ r = e.role THEN e.kind
        ELSE l.verdicts[r]
  BY DEF Appended, VerdictsAfter
<1>2. r \in Withdraws(e) <=> r \in e.reopen \/ e.key = "inputs_rebased"
                             \/ (e.kind = "PILOT_OPENED" /\ r \in {"TESTER", "STORE_MANAGER"})
  BY DEF Withdraws, WellFormed
<1>3. r = e.role => (SetsVerdict(e) <=> e.kind \in PhaseKinds) BY DEF SetsVerdict
<1>4. Passes(e, r) => r \notin Withdraws(e) BY <1>2 DEF Passes, WellFormed
<1> QED BY <1>1, <1>2, <1>3, <1>4 DEF Completed, Passes, Spares, SetsVerdict, PhaseKinds

LEMMA CompletedReading ==
  CompletedIsTheLastAttempt <=>
    \A r \in BuildRole : r \in Completed(led) <=>
      \E i \in Positions : Passes(log[i], r) /\ \A j \in Positions : j > i => Spares(log[j], r)
BY DEF CompletedIsTheLastAttempt, Completed, Passes, Spares, After

LEMMA CompletedStep ==
  ASSUME Shape, CompletedIsTheLastAttempt, NEW e, Grows(e)
  PROVE  CompletedIsTheLastAttempt'
<1> DEFINE n == Len(log)
<1>1. CompletedIsTheLastAttempt' <=>
        \A r \in BuildRole : r \in Completed(led') <=>
          \E i \in Positions' : Passes(log'[i], r) /\ \A j \in Positions' : j > i => Spares(log'[j], r)
  BY DEF CompletedIsTheLastAttempt, Completed, Passes, Spares, After
<1> SUFFICES ASSUME NEW r \in BuildRole
    PROVE r \in Completed(led') <=>
          \E i \in Positions' : Passes(log'[i], r) /\ \A j \in Positions' : j > i => Spares(log'[j], r)
  BY <1>1
<1>2. /\ n \in Nat /\ Positions' = Positions \cup {n + 1} /\ n + 1 \notin Positions
      /\ \A i \in Positions : i < n + 1 /\ i \in Nat
      /\ log'[n + 1] = e /\ \A i \in Positions : log'[i] = log[i]
  BY Longer DEF Grows
<1>3. r \in Completed(led') <=> Passes(e, r) \/ (r \in Completed(led) /\ Spares(e, r))
  BY Longer, CompletedEffect
<1>4. r \in Completed(led) <=>
        \E i \in Positions : Passes(log[i], r) /\ \A j \in Positions : j > i => Spares(log[j], r)
  BY CompletedReading
<1> HIDE DEF n
<1>5. ~(n + 1 > n + 1) /\ \A i \in Positions : ~(i > n + 1) /\ n + 1 > i BY <1>2
<1> QED BY <1>2, <1>3, <1>4, <1>5

-----------------------------------------------------------------------------
(* terminal_event and reopening_rework                                       *)

LEMMA WordsGrow ==
  ASSUME Shape, NEW e, Grows(e)
  PROVE  /\ Words \subseteq Positions
         /\ Words' = IF Gives(e) \/ Takes(e) THEN Words \cup {Len(log) + 1} ELSE Words
<1> DEFINE n == Len(log)
<1>1. /\ n \in Nat /\ Positions' = Positions \cup {n + 1} /\ n + 1 \notin Positions
      /\ log'[n + 1] = e /\ \A i \in Positions : log'[i] = log[i]
  BY Longer DEF Grows
<1> HIDE DEF n
<1>2. Words' = {i \in Positions' : Gives(log'[i]) \/ Takes(log'[i])} BY DEF Words
<1>3. Words' = IF Gives(e) \/ Takes(e) THEN Words \cup {n + 1} ELSE Words
  BY <1>1, <1>2 DEF Words
<1> QED BY <1>3 DEF n, Words

LEMMA VerdictStep ==
  ASSUME Shape, VerdictIsTheLastWord, NEW e, Grows(e)
  PROVE  VerdictIsTheLastWord'
<1> DEFINE n == Len(log)
<1>1. /\ n \in Nat /\ Positions = 1..n /\ Len(log') = n + 1 /\ WellFormed(e)
      /\ log'[n + 1] = e /\ \A i \in Positions : log'[i] = log[i]
      /\ led'.terminal = TerminalAfter(led, e) /\ led'.reopening = ReopeningAfter(e)
  BY Longer DEF Grows, Appended
<1>2. /\ Words \subseteq Positions
      /\ Words' = IF Gives(e) \/ Takes(e) THEN Words \cup {n + 1} ELSE Words
  BY WordsGrow
<1> HIDE DEF n
<1>3. Max(Words \cup {n + 1}) = n + 1 /\ (Words # {} => Max(Words) \in Positions)
  BY <1>1, <1>2, LatestOfMore, MaxIsIn
<1>4. (Takes(e) <=> Reopens(e)) /\ (Takes(e) => ~Gives(e))
  BY <1>1 DEF Takes, Reopens, Gives, WellFormed
<1>5. led'.reopening # {} => Takes(e) /\ led'.reopening = e.names
  BY <1>1 DEF ReopeningAfter, Takes
<1>6. led'.terminal = IF Gives(e) THEN [kind |-> e.kind, role |-> e.role, outcome |-> e.outcome,
                                        cycle |-> e.cycle, names |-> e.names]
                      ELSE IF Takes(e) THEN NoVerdict ELSE led.terminal
  BY <1>1, <1>4 DEF TerminalAfter, Gives
<1>7. /\ led'.terminal.kind # "none" <=> Words' # {} /\ Gives(log'[Max(Words')])
      /\ led'.terminal.kind # "none" =>
           /\ led'.terminal.kind = log'[Max(Words')].kind
           /\ led'.terminal.names = log'[Max(Words')].names
  <2>1. CASE Gives(e)
    <3>1. log'[Max(Words')] = e /\ Words' # {} BY <1>1, <1>2, <1>3, <2>1
    <3>2. led'.terminal.kind = e.kind /\ led'.terminal.names = e.names BY <1>6, <2>1
    <3>3. e.kind # "none" BY <2>1 DEF Gives
    <3> QED BY <2>1, <3>1, <3>2, <3>3
  <2>2. CASE Takes(e)
    <3>1. log'[Max(Words')] = e BY <1>1, <1>2, <1>3, <2>2
    <3>2. led'.terminal.kind = "none" BY <1>4, <1>6, <2>2 DEF NoVerdict
    <3> QED BY <1>4, <2>2, <3>1, <3>2
  <2>3. CASE ~Gives(e) /\ ~Takes(e)
    <3>1. Words' = Words /\ led'.terminal = led.terminal BY <1>2, <1>6, <2>3
    <3>2. Words # {} => log'[Max(Words')] = log[Max(Words)] BY <1>1, <1>3, <3>1
    <3> QED BY <3>1, <3>2 DEF VerdictIsTheLastWord
  <2> QED BY <2>1, <2>2, <2>3
<1>8. led'.reopening # {} => led'.terminal.kind = "none"
  BY <1>4, <1>5, <1>6 DEF NoVerdict
<1> QED BY <1>1, <1>5, <1>7, <1>8 DEF VerdictIsTheLastWord

-----------------------------------------------------------------------------
(* _reworks                                                                  *)

LEMMA RoundsGrow ==
  ASSUME Shape, NEW e, Grows(e)
  PROVE  /\ Rounds \subseteq Positions
         /\ Rounds' = IF e.key = "rework_budget_reset" THEN {}
                      ELSE IF e.kind = "REWORK" THEN Rounds \cup {Len(log) + 1} ELSE Rounds
<1> DEFINE n == Len(log)
<1>1. /\ n \in Nat /\ Positions' = Positions \cup {n + 1} /\ n + 1 \notin Positions
      /\ \A i \in Positions : i < n + 1 /\ i \in Nat
      /\ log'[n + 1] = e /\ \A i \in Positions : log'[i] = log[i]
  BY Longer DEF Grows
<1>2. WellFormed(e) BY Longer
<1> HIDE DEF n
<1>3. Resets' = IF e.key = "rework_budget_reset" THEN Resets \cup {n + 1} ELSE Resets
  <2>1. Resets' = {i \in Positions' : log'[i].key = "rework_budget_reset"} BY DEF Resets
  <2> QED BY <1>1, <2>1 DEF Resets
<1>4. Rounds' = {i \in Positions' : log'[i].kind = "REWORK" /\ \A j \in Resets' : i > j} BY DEF Rounds
<1>5. Resets \subseteq Positions BY DEF Resets
<1>6. \A j \in Positions : n + 1 > j BY <1>1
<1>7. CASE e.key = "rework_budget_reset"
  <2>1. \A i \in Positions' : ~(i > n + 1) BY <1>1
  <2> QED BY <1>3, <1>4, <1>7, <2>1 DEF Rounds
<1>8. CASE e.key # "rework_budget_reset"
  <2>1. Resets' = Resets BY <1>3, <1>8
  <2>2. \A j \in Resets : n + 1 > j BY <1>5, <1>6
  <2>3. \A i \in Positions : i \in Rounds' <=> i \in Rounds BY <1>1, <1>4, <2>1 DEF Rounds
  <2>4. n + 1 \in Rounds' <=> e.kind = "REWORK" BY <1>1, <1>4, <2>1, <2>2
  <2>5. Rounds \subseteq Positions /\ Rounds' \subseteq Positions \cup {n + 1} BY <1>1, <1>4 DEF Rounds
  <2>6. CASE e.kind = "REWORK"
    <3>1. Rounds' = Rounds \cup {n + 1} BY <2>3, <2>4, <2>5, <2>6
    <3> QED BY <1>8, <2>5, <2>6, <3>1 DEF n
  <2>7. CASE e.kind # "REWORK"
    <3>1. Rounds' = Rounds BY <2>3, <2>4, <2>5, <2>7
    <3> QED BY <1>8, <2>5, <2>7, <3>1
  <2> QED BY <2>6, <2>7
<1> QED BY <1>7, <1>8 DEF n, Rounds

LEMMA BudgetStep ==
  ASSUME Shape, BudgetIsCountedSinceReset, NEW e, Grows(e)
  PROVE  BudgetIsCountedSinceReset'
<1> DEFINE n == Len(log)
           Of(g) == {i \in Rounds : log[i].source = g}
<1>1. /\ n \in Nat /\ Positions = 1..n /\ n + 1 \notin Positions /\ WellFormed(e)
      /\ log'[n + 1] = e /\ \A i \in Positions : log'[i] = log[i]
      /\ led'.spent = SpentAfter(led, e) /\ led'.names = NamesAfter(led, e)
  BY Longer DEF Grows, Appended
<1>2. /\ Rounds \subseteq Positions
      /\ Rounds' = IF e.key = "rework_budget_reset" THEN {}
                   ELSE IF e.kind = "REWORK" THEN Rounds \cup {n + 1} ELSE Rounds
  BY RoundsGrow
<1> HIDE DEF n
<1>3. IsFiniteSet(Rounds) /\ Cardinality(Rounds) \in Nat
  <2>1. IsFiniteSet(1..n) BY <1>1, FS_Interval
  <2> QED BY <1>1, <1>2, <2>1, FS_Subset, FS_CardinalityType
<1>4. \A g : IsFiniteSet(Of(g)) /\ Cardinality(Of(g)) \in Nat
  BY <1>3, FS_Subset, FS_CardinalityType
<1>5. /\ \A g \in ReworkGates : led.spent[g] = Cardinality(Of(g))
      /\ led.names = UNION {log[i].names : i \in Rounds}
      /\ SpentInBuild(led) = Cardinality(Rounds)
  BY DEF BudgetIsCountedSinceReset
<1>6. \A g : Of(g)' = {i \in Rounds' : log'[i].source = g} OBVIOUS
<1>7. CASE e.key = "rework_budget_reset"
  <2>1. Rounds' = {} /\ \A g : Of(g)' = {} BY <1>2, <1>6, <1>7
  <2>2. \A g \in ReworkGates : led'.spent[g] = 0 BY <1>1, <1>7 DEF SpentAfter
  <2>3. led'.names = {} BY <1>1, <1>7 DEF NamesAfter
  <2>4. SpentInBuild(led') = 0 BY <2>2 DEF SpentInBuild, ReworkGates
  <2> QED BY <2>1, <2>2, <2>3, <2>4, FS_EmptySet DEF BudgetIsCountedSinceReset
<1>8. CASE e.key # "rework_budget_reset" /\ e.kind # "REWORK"
  <2>1. Rounds' = Rounds BY <1>2, <1>8
  <2>2. \A i \in Rounds : log'[i] = log[i] BY <1>1, <1>2
  <2>3. \A g : Of(g)' = Of(g) BY <1>6, <2>1, <2>2
  <2>4. UNION {log[i].names : i \in Rounds}' = UNION {log[i].names : i \in Rounds} BY <2>1, <2>2
  <2>5. led'.names = led.names BY <1>1, <1>8 DEF NamesAfter
  <2>6. \A g \in ReworkGates : led'.spent[g] = led.spent[g] BY <1>1, <1>8 DEF SpentAfter
  <2>7. SpentInBuild(led') = SpentInBuild(led) BY <2>6 DEF SpentInBuild, ReworkGates
  <2> QED BY <1>5, <2>1, <2>3, <2>4, <2>5, <2>6, <2>7 DEF BudgetIsCountedSinceReset
<1>9. CASE e.key # "rework_budget_reset" /\ e.kind = "REWORK"
  <2>1. Rounds' = Rounds \cup {n + 1} /\ n + 1 \notin Rounds BY <1>1, <1>2, <1>9
  <2>2. \A i \in Rounds : log'[i] = log[i] BY <1>1, <1>2
  <2>3. \A g : Of(g)' = IF e.source = g THEN Of(g) \cup {n + 1} ELSE Of(g)
    BY <1>1, <1>6, <2>1, <2>2
  <2>4. \A g : n + 1 \notin Of(g) BY <2>1
  <2>5. \A g : Cardinality(Of(g))' = IF e.source = g THEN Cardinality(Of(g)) + 1 ELSE Cardinality(Of(g))
    <3> SUFFICES ASSUME NEW g
                 PROVE Cardinality(Of(g)') = IF e.source = g THEN Cardinality(Of(g)) + 1
                                             ELSE Cardinality(Of(g))
      OBVIOUS
    <3> HIDE DEF Of
    <3>1. IsFiniteSet(Of(g)) /\ n + 1 \notin Of(g) BY <1>4, <2>4
    <3>2. Cardinality(Of(g) \cup {n + 1}) = Cardinality(Of(g)) + 1 BY <3>1, FS_AddElement
    <3> QED BY <2>3, <3>2
  <2>6. Cardinality(Rounds') = Cardinality(Rounds) + 1 BY <1>3, <2>1, FS_AddElement
  <2>7. \A g \in ReworkGates : led'.spent[g] = IF e.source = g THEN led.spent[g] + 1 ELSE led.spent[g]
    BY <1>1, <1>9 DEF SpentAfter
  <2>8. \A g \in ReworkGates : led'.spent[g] = Cardinality(Of(g))' BY <1>5, <2>5, <2>7, ZenonT(30)
  <2>9. led'.names = UNION {log'[i].names : i \in Rounds'}
    <3>1. led'.names = led.names \cup e.names BY <1>1, <1>9 DEF NamesAfter
    <3> QED BY <1>1, <1>5, <2>1, <2>2, <3>1
  <2>10. SpentInBuild(led') = SpentInBuild(led) + 1
    <3>1. e.source \in ReworkGates BY <1>1, <1>9 DEF WellFormed
    <3>2. \A g \in ReworkGates : led.spent[g] \in Nat BY <1>4, <1>5
    <3> QED BY <2>7, <3>1, <3>2 DEF SpentInBuild, ReworkGates
  <2> QED BY <1>5, <2>6, <2>8, <2>9, <2>10 DEF BudgetIsCountedSinceReset
<1> QED BY <1>7, <1>8, <1>9

-----------------------------------------------------------------------------
(* pilot_cycle_open, code_phase_succeeded, handoff_awaiting_n3, inputs_hash  *)

LEMMA MarksGrow ==
  ASSUME Shape, NEW e, Grows(e)
  PROVE  LET n == Len(log) IN
         /\ {Pilots, Greens, Handoffs, Answers, Rebases} \subseteq SUBSET (1..n)
         /\ Pilots' = IF e.kind = "PILOT_OPENED" THEN Pilots \cup {n + 1} ELSE Pilots
         /\ Greens' = IF e.kind = "RUN_SUCCEEDED" THEN Greens \cup {n + 1} ELSE Greens
         /\ Handoffs' = IF e.outcome = "HANDOFF_TO_N3" THEN Handoffs \cup {n + 1} ELSE Handoffs
         /\ Answers' = IF e.key = "n3" \/ e.kind = "RUN_SUCCEEDED" THEN Answers \cup {n + 1} ELSE Answers
         /\ Rebases' = IF e.key = "inputs_rebased" THEN Rebases \cup {n + 1} ELSE Rebases
<1> DEFINE n == Len(log)
<1>1. /\ n \in Nat /\ Positions = 1..n /\ Positions' = Positions \cup {n + 1} /\ n + 1 \notin Positions
      /\ log'[n + 1] = e /\ \A i \in Positions : log'[i] = log[i]
  BY Longer DEF Grows
<1> HIDE DEF n
<1>2. Pilots' = IF e.kind = "PILOT_OPENED" THEN Pilots \cup {n + 1} ELSE Pilots
  <2>1. Pilots' = {i \in Positions' : log'[i].kind = "PILOT_OPENED"} BY DEF Pilots
  <2> QED BY <1>1, <2>1 DEF Pilots
<1>3. Greens' = IF e.kind = "RUN_SUCCEEDED" THEN Greens \cup {n + 1} ELSE Greens
  <2>1. Greens' = {i \in Positions' : log'[i].kind = "RUN_SUCCEEDED"} BY DEF Greens
  <2> QED BY <1>1, <2>1 DEF Greens
<1>4. Handoffs' = IF e.outcome = "HANDOFF_TO_N3" THEN Handoffs \cup {n + 1} ELSE Handoffs
  <2>1. Handoffs' = {i \in Positions' : log'[i].outcome = "HANDOFF_TO_N3"} BY DEF Handoffs
  <2> QED BY <1>1, <2>1 DEF Handoffs
<1>5. Answers' = IF e.key = "n3" \/ e.kind = "RUN_SUCCEEDED" THEN Answers \cup {n + 1} ELSE Answers
  <2>1. Answers' = {i \in Positions' : log'[i].key = "n3" \/ log'[i].kind = "RUN_SUCCEEDED"} BY DEF Answers
  <2> QED BY <1>1, <2>1 DEF Answers
<1>6. Rebases' = IF e.key = "inputs_rebased" THEN Rebases \cup {n + 1} ELSE Rebases
  <2>1. Rebases' = {i \in Positions' : log'[i].key = "inputs_rebased"} BY DEF Rebases
  <2> QED BY <1>1, <2>1 DEF Rebases
<1>7. {Pilots, Greens, Handoffs, Answers, Rebases} \subseteq SUBSET (1..n)
  BY <1>1 DEF Pilots, Greens, Handoffs, Answers, Rebases
<1> QED BY <1>2, <1>3, <1>4, <1>5, <1>6, <1>7 DEF n

\* A run's inputs are pinned by its first event.
Pinned == led.inputs \in Inputs

LEMMA StatusStep ==
  ASSUME Shape, Pinned, RunStatusIsTheLastMarker, NEW e, Grows(e)
  PROVE  Pinned' /\ RunStatusIsTheLastMarker'
<1> DEFINE n == Len(log)
<1>1. /\ n \in Nat /\ n > 0 /\ Positions = 1..n /\ WellFormed(e)
      /\ log'[n + 1] = e /\ \A i \in Positions : log'[i] = log[i]
      /\ led'.pilot = PilotAfter(led, e) /\ led'.green = GreenAfter(led, e)
      /\ led'.handoff = HandoffAfter(led, e) /\ led'.inputs = InputsAfter(led, e)
  BY Longer DEF Grows, Appended, Shape
<1>2. /\ {Pilots, Greens, Handoffs, Answers, Rebases} \subseteq SUBSET (1..n)
      /\ Pilots' = IF e.kind = "PILOT_OPENED" THEN Pilots \cup {n + 1} ELSE Pilots
      /\ Greens' = IF e.kind = "RUN_SUCCEEDED" THEN Greens \cup {n + 1} ELSE Greens
      /\ Handoffs' = IF e.outcome = "HANDOFF_TO_N3" THEN Handoffs \cup {n + 1} ELSE Handoffs
      /\ Answers' = IF e.key = "n3" \/ e.kind = "RUN_SUCCEEDED" THEN Answers \cup {n + 1} ELSE Answers
      /\ Rebases' = IF e.key = "inputs_rebased" THEN Rebases \cup {n + 1} ELSE Rebases
  BY MarksGrow
<1> HIDE DEF n
<1>3. \A S \in SUBSET (1..n) :
        Latest(S) \in 0..n /\ Latest(S \cup {n + 1}) = n + 1 /\ (S # {} => Latest(S) \in S)
  BY <1>1, LatestIs, LatestOfMore
<1>4. /\ Latest(Pilots) \in 0..n /\ Latest(Greens) \in 0..n /\ Latest(Handoffs) \in 0..n
      /\ Latest(Pilots \cup {n + 1}) = n + 1 /\ Latest(Greens \cup {n + 1}) = n + 1
      /\ Latest(Handoffs \cup {n + 1}) = n + 1 /\ Latest(Rebases \cup {n + 1}) = n + 1
      /\ Rebases # {} => Latest(Rebases) \in 1..n
  BY <1>2, <1>3
<1>5. led'.pilot <=> Latest(Pilots') > Latest(Greens')
  <2>1. led.pilot <=> Latest(Pilots) > Latest(Greens) BY DEF RunStatusIsTheLastMarker
  <2>2. CASE e.kind = "PILOT_OPENED"
    <3>1. Latest(Pilots') = n + 1 /\ Latest(Greens') = Latest(Greens) BY <1>2, <1>4, <2>2
    <3>2. led'.pilot BY <1>1, <2>2 DEF PilotAfter
    <3> QED BY <1>1, <1>4, <3>1, <3>2
  <2>3. CASE e.kind = "RUN_SUCCEEDED"
    <3>1. Latest(Pilots') = Latest(Pilots) /\ Latest(Greens') = n + 1 BY <1>2, <1>4, <2>3
    <3>2. ~led'.pilot BY <1>1, <2>3 DEF PilotAfter
    <3> QED BY <1>1, <1>4, <3>1, <3>2
  <2>4. CASE e.kind \notin {"PILOT_OPENED", "RUN_SUCCEEDED"}
    <3>1. Pilots' = Pilots /\ Greens' = Greens BY <1>2, <2>4
    <3>2. led'.pilot <=> led.pilot BY <1>1, <2>4 DEF PilotAfter
    <3> QED BY <2>1, <3>1, <3>2
  <2> QED BY <2>2, <2>3, <2>4
<1>6. led'.green <=> Greens' # {}
  <2>1. led.green <=> Greens # {} BY DEF RunStatusIsTheLastMarker
  <2> QED BY <1>1, <1>2, <2>1 DEF GreenAfter
<1>7. led'.handoff <=> Handoffs' # {} /\ \A i \in Answers' : i < Latest(Handoffs')
  <2>1. led.handoff <=> Handoffs # {} /\ \A i \in Answers : i < Latest(Handoffs)
    BY DEF RunStatusIsTheLastMarker
  <2>2. CASE e.outcome = "HANDOFF_TO_N3"
    <3>1. e.key # "n3" /\ e.kind # "RUN_SUCCEEDED" BY <1>1, <2>2 DEF WellFormed
    <3>2. Latest(Handoffs') = n + 1 /\ Handoffs' # {} /\ Answers' = Answers BY <1>2, <1>4, <2>2, <3>1
    <3>3. \A i \in Answers : i < n + 1 BY <1>1, <1>2
    <3>4. led'.handoff BY <1>1, <2>2 DEF HandoffAfter
    <3> QED BY <3>2, <3>3, <3>4
  <2>3. CASE e.key = "n3" \/ e.kind = "RUN_SUCCEEDED"
    <3>1. e.outcome # "HANDOFF_TO_N3" BY <1>1, <2>3 DEF WellFormed
    <3>2. Handoffs' = Handoffs /\ n + 1 \in Answers' BY <1>2, <2>3, <3>1
    <3>3. ~(n + 1 < Latest(Handoffs)) BY <1>1, <1>4
    <3>4. ~led'.handoff BY <1>1, <2>3, <3>1 DEF HandoffAfter
    <3> QED BY <3>2, <3>3, <3>4
  <2>4. CASE e.outcome # "HANDOFF_TO_N3" /\ ~(e.key = "n3" \/ e.kind = "RUN_SUCCEEDED")
    <3>1. Handoffs' = Handoffs /\ Answers' = Answers BY <1>2, <2>4
    <3>2. led'.handoff <=> led.handoff BY <1>1, <2>4 DEF HandoffAfter
    <3> QED BY <2>1, <3>1, <3>2
  <2> QED BY <2>2, <2>3, <2>4
<1>8. Pinned' /\ led'.inputs = log'[IF Rebases' = {} THEN 1 ELSE Latest(Rebases')].inputs
  <2>1. led.inputs = log[IF Rebases = {} THEN 1 ELSE Latest(Rebases)].inputs
    BY DEF RunStatusIsTheLastMarker
  <2>2. led.inputs \in Inputs /\ led.inputs # "none" BY InputsAreHashes DEF Pinned
  <2>3. CASE e.key = "inputs_rebased"
    <3>1. Rebases' # {} /\ log'[Latest(Rebases')] = e BY <1>1, <1>2, <1>4, <2>3
    <3>2. led'.inputs = e.inputs BY <1>1, <2>3 DEF InputsAfter
    <3>3. e.inputs \in Inputs BY <1>1, <2>3 DEF WellFormed
    <3> QED BY <3>1, <3>2, <3>3 DEF Pinned
  <2>4. CASE e.key # "inputs_rebased"
    <3>1. Rebases' = Rebases /\ led'.inputs = led.inputs BY <1>1, <1>2, <2>2, <2>4 DEF InputsAfter
    <3>2. (IF Rebases = {} THEN 1 ELSE Latest(Rebases)) \in Positions BY <1>1, <1>4
    <3> QED BY <1>1, <2>1, <2>2, <3>1, <3>2 DEF Pinned
  <2> QED BY <2>3, <2>4
<1> QED BY <1>5, <1>6, <1>7, <1>8 DEF RunStatusIsTheLastMarker

-----------------------------------------------------------------------------
IInv ==
  /\ Shape /\ Pinned
  /\ CompletedIsTheLastAttempt /\ VerdictIsTheLastWord
  /\ BudgetIsCountedSinceReset /\ RunStatusIsTheLastMarker

LEMMA InitReads == Init => IInv
<1> SUFFICES ASSUME Init PROVE IInv OBVIOUS
<1>1. PICK h \in Inputs : log = <<RunStarted(h)>> /\ led = Appended(EmptyLedger, log[1]) BY DEF Init
<1> DEFINE e == RunStarted(h)
<1>2. /\ e.kind = "RUN_STARTED" /\ e.key = "none" /\ e.outcome = "none" /\ e.inputs = h
      /\ e.reopen = {} /\ e.role = "none"
  BY DEF RunStarted, Note
<1>3. e \in Written
  <2>1. e \in {RunStarted(k) : k \in Inputs} OBVIOUS
  <2> HIDE DEF e
  <2> QED BY <2>1, Zenon DEF Written
<1>4. log = <<e>> /\ led = Appended(EmptyLedger, e) BY <1>1
<1> HIDE DEF e
<1>5. Len(log) = 1 /\ log[1] = e /\ Positions = {1} BY <1>4 DEF Positions
<1>6. Shape BY <1>3, <1>4 DEF Shape
<1>7. /\ Completed(led) = {}
      /\ led.terminal.kind = "none" /\ led.reopening = {} /\ led.names = {}
      /\ \A g \in ReworkGates : led.spent[g] = 0
      /\ ~led.pilot /\ ~led.green /\ ~led.handoff /\ led.inputs = h
  BY <1>2, <1>4
     DEF Completed, Appended, EmptyLedger, VerdictsAfter, TerminalAfter, ReopeningAfter, SpentAfter,
         NamesAfter, PilotAfter, GreenAfter, HandoffAfter, InputsAfter, Withdraws, SetsVerdict,
         Reopens, NoVerdict, PhaseKinds
<1>8. Pinned BY <1>7 DEF Pinned
<1>9. CompletedIsTheLastAttempt
  BY <1>2, <1>5, <1>7 DEF CompletedIsTheLastAttempt
<1>10. VerdictIsTheLastWord
  <2>1. Words = {} BY <1>2, <1>5 DEF Words, Gives, Takes
  <2> QED BY <1>7, <2>1 DEF VerdictIsTheLastWord
<1>11. BudgetIsCountedSinceReset
  <2>1. Rounds = {} BY <1>2, <1>5 DEF Rounds
  <2>2. SpentInBuild(led) = 0 BY <1>7 DEF SpentInBuild, ReworkGates
  <2> QED BY <1>7, <2>1, <2>2, FS_EmptySet DEF BudgetIsCountedSinceReset
<1>12. RunStatusIsTheLastMarker
  <2>1. Pilots = {} /\ Greens = {} /\ Handoffs = {} /\ Rebases = {}
    BY <1>2, <1>5 DEF Pilots, Greens, Handoffs, Rebases
  <2>2. Latest({}) = 0 BY DEF Latest
  <2> QED BY <1>2, <1>5, <1>7, <2>1, <2>2 DEF RunStatusIsTheLastMarker
<1> QED BY <1>6, <1>8, <1>9, <1>10, <1>11, <1>12 DEF IInv

LEMMA NextReads ==
  ASSUME IInv, [Write]_<<log, led>>
  PROVE  IInv'
<1>1. CASE Write
  <2>1. PICK e \in Written : Grows(e) BY <1>1, WriteGrows DEF IInv
  <2> QED BY <2>1, CompletedStep, VerdictStep, BudgetStep, StatusStep DEF IInv, Grows
<1>2. CASE UNCHANGED <<log, led>>
  <2> USE <1>2 DEF IInv, Positions, After
  <2>1. Shape' /\ Pinned' BY DEF Shape, Pinned
  <2>2. CompletedIsTheLastAttempt' BY DEF CompletedIsTheLastAttempt
  <2>3. VerdictIsTheLastWord' BY DEF VerdictIsTheLastWord, Words, Gives, Takes
  <2>4. BudgetIsCountedSinceReset' BY DEF BudgetIsCountedSinceReset, Resets, Rounds
  <2>5. RunStatusIsTheLastMarker'
    BY DEF RunStatusIsTheLastMarker, Pilots, Greens, Handoffs, Answers, Rebases
  <2> QED BY <2>1, <2>2, <2>3, <2>4, <2>5
<1> QED BY <1>1, <1>2

LEMMA Reads == Spec => []IInv
<1>1. IInv /\ [Write]_<<log, led>> => IInv' BY NextReads
<1> QED BY <1>1, InitReads, PTL DEF Spec

\* completed_roles: however long the log, and whatever starts, re-opens and answers are
\* mixed in it, the phases that stand are those whose last attempt passed and that
\* nothing withdrew since.
THEOREM CompletedReads == Spec => []CompletedIsTheLastAttempt
<1>1. IInv => CompletedIsTheLastAttempt BY DEF IInv
<1> QED BY <1>1, Reads, PTL

\* terminal_event and reopening_rework: the verdict is the last word on the run, and only
\* the event nothing follows seeds a run.
THEOREM VerdictReads == Spec => []VerdictIsTheLastWord
<1>1. IInv => VerdictIsTheLastWord BY DEF IInv
<1> QED BY <1>1, Reads, PTL

\* _reworks: the rounds of each gate, of the build, and the failures they were opened for
\* are those after the last reset, every one of them once.
THEOREM BudgetReads == Spec => []BudgetIsCountedSinceReset
<1>1. IInv => BudgetIsCountedSinceReset BY DEF IInv
<1> QED BY <1>1, Reads, PTL

\* The pilot cycle, the first success, the awaited answer and the pinned inputs are each
\* decided by the last marker of their kind.
THEOREM StatusReads == Spec => []RunStatusIsTheLastMarker
<1>1. IInv => RunStatusIsTheLastMarker BY DEF IInv
<1> QED BY <1>1, Reads, PTL
===============================================================================
