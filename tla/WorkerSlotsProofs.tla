-------------------------- MODULE WorkerSlotsProofs ---------------------------
(* The worker's slots: caps, wake-ups and order, for any box and any jobs.   *)
EXTENDS WorkerSlots, FiniteSetTheorems, SequenceTheorems, TLAPS

-----------------------------------------------------------------------------
(* What a step does to the jobs that hold a slot.                            *)

\* A thread's own place and ticket, the rest of TypeOK being the counters'.
PlacesOK == pc \in [Jobs -> Places] /\ ticket \in [Jobs -> Nat] /\ seq \in Nat

Gains(j) ==
  /\ j \in Jobs \ Holding /\ Holding' = Holding \cup {j}
  /\ active < ProcessCap /\ held[TenantOf[j]] < TenantCap
  /\ \/ Admissible(j) /\ Take(j, IsReserved(j))
     \/ j \in Impatient /\ Take(j, FALSE)

Loses(j) ==
  /\ j \in Holding /\ Holding' = Holding \ {j}
  /\ Release(j)

Keeps == Holding' = Holding /\ UNCHANGED counters

LEMMA WakeEffect ==
  ASSUME PlacesOK, NEW j \in Jobs, NEW p \in Places, Wake(j, p)
  PROVE  /\ pc' \in [Jobs -> Places]
         /\ Holding' = IF p = "holding" THEN Holding \cup {j} ELSE Holding \ {j}
BY DEF Wake, PlacesOK, Places, Holding

LEMMA PlaceEffect ==
  ASSUME PlacesOK, NEW j \in Jobs, NEW p \in Places, pc' = [pc EXCEPT ![j] = p]
  PROVE  /\ pc' \in [Jobs -> Places]
         /\ Holding' = IF p = "holding" THEN Holding \cup {j} ELSE Holding \ {j}
BY DEF PlacesOK, Places, Holding

LEMMA ProceedKind ==
  ASSUME PlacesOK, NEW j \in Jobs, pc[j] # "holding", NEW place, Proceed(j, place)
  PROVE  pc' \in [Jobs -> Places] /\ (Gains(j) \/ Keeps)
<1>0. {"holding", "telling"} \subseteq Places /\ j \notin Holding
  BY DEF Places, Holding
<1>1. CASE HasTurn(j, place)
  <2>1. Admissible(j) /\ Take(j, IsReserved(j)) /\ Wake(j, "holding")
    BY <1>1 DEF Proceed, HasTurn
  <2> QED BY <1>0, <2>1, WakeEffect DEF Gains, Admissible
<1>2. CASE ~HasTurn(j, place)
  <2>1. pc' = [pc EXCEPT ![j] = "telling"] /\ UNCHANGED counters
    BY <1>2 DEF Proceed
  <2>2. pc' \in [Jobs -> Places] /\ Holding' = Holding \ {j}
    BY <1>0, <2>1, PlaceEffect
  <2> QED BY <1>0, <2>1, <2>2 DEF Keeps
<1> QED BY <1>1, <1>2

LEMMA LeaveKind ==
  ASSUME PlacesOK, NEW j \in Jobs, pc[j] # "holding", Wake(j, "gone"), UNCHANGED counters
  PROVE  pc' \in [Jobs -> Places] /\ Keeps
BY WakeEffect DEF Places, Keeps, Holding

LEMMA StepKinds ==
  ASSUME PlacesOK, [Next]_vars
  PROVE  PlacesOK' /\ (Keeps \/ \E j \in Jobs : Gains(j) \/ Loses(j))
<1>1. CASE UNCHANGED vars
  BY <1>1 DEF vars, queue, counters, PlacesOK, Keeps, Holding
<1>2. CASE Next
  <2>1. PICK j \in Jobs : Arrive(j) \/ Step(j) \/ Leave(j) \/ Poll(j)
    BY <1>2 DEF Next
  <2>2. CASE Join(j)
    <3>1. pc[j] # "holding" /\ ticket' \in [Jobs -> Nat] /\ seq' \in Nat
      BY <2>2 DEF Join, PlacesOK
    <3>2. PICK place : Proceed(j, place) \/ Exhaust(j, place)
      BY <2>2 DEF Join
    <3> QED BY <3>1, <3>2, ProceedKind, LeaveKind DEF Exhaust, PlacesOK
  <2>3. CASE Grab(j)
    <3>1. pc[j] # "holding" /\ j \in Impatient /\ UNCHANGED queue
      BY <2>3 DEF Grab
    <3>2. CASE active < ProcessCap /\ held[TenantOf[j]] < TenantCap
      <4>1. Take(j, FALSE) /\ pc' = [pc EXCEPT ![j] = "holding"]
        BY <2>3, <3>2 DEF Grab
      <4> QED BY <3>1, <3>2, <4>1, PlaceEffect DEF Gains, Places, PlacesOK, Holding, queue
    <3>3. CASE ~(active < ProcessCap /\ held[TenantOf[j]] < TenantCap)
      <4>1. UNCHANGED counters /\ pc' = [pc EXCEPT ![j] = "gone"]
        BY <2>3, <3>3 DEF Grab
      <4> QED BY <3>1, <4>1, PlaceEffect DEF Keeps, Places, PlacesOK, Holding, queue
    <3> QED BY <3>2, <3>3
  <2>4. CASE Check(j)
    BY <2>4, ProceedKind DEF Check, PlacesOK, queue
  <2>5. CASE Told(j)
    <3>1. pc[j] # "holding" /\ UNCHANGED queue BY <2>5 DEF Told
    <3>2. CASE HasTurn(j, ticket)
      <4>1. Proceed(j, ticket) BY <2>5, <3>2 DEF Told, Proceed
      <4> QED BY <3>1, <4>1, ProceedKind DEF PlacesOK, queue
    <3>3. CASE ~HasTurn(j, ticket)
      <4>1. UNCHANGED counters /\ pc' = [pc EXCEPT ![j] = "asleep"]
        BY <2>5, <3>3 DEF Told
      <4> QED BY <3>1, <4>1, PlaceEffect DEF Keeps, Places, PlacesOK, Holding, queue
    <3> QED BY <3>2, <3>3
  <2>6. CASE Release(j)
    <3>1. Wake(j, "gone") /\ UNCHANGED queue /\ j \in Holding
      BY <2>6 DEF Release, Holding
    <3> QED BY <2>6, <3>1, WakeEffect DEF Loses, Places, PlacesOK, queue
  <2>7. CASE Leave(j)
    <3>1. /\ pc[j] # "holding" /\ Wake(j, "gone")
          /\ UNCHANGED counters /\ UNCHANGED queue
      BY <2>7 DEF Leave, GiveUp, FailTelling, Exhaust, queue, counters
    <3> QED BY <3>1, LeaveKind DEF PlacesOK, queue
  <2>8. CASE Poll(j)
    <3>1. /\ pc[j] # "holding" /\ pc' = [pc EXCEPT ![j] = "checking"]
          /\ UNCHANGED counters /\ UNCHANGED queue
      BY <2>8 DEF Poll, queue, counters
    <3> QED BY <3>1, PlaceEffect DEF Keeps, Places, PlacesOK, Holding, queue
  <2> QED BY <2>1, <2>2, <2>3, <2>4, <2>5, <2>6, <2>7, <2>8 DEF Arrive, Step
<1> QED BY <1>1, <1>2

-----------------------------------------------------------------------------
(* The counters count the jobs that run.                                     *)

\* A set of running jobs gains or loses j with Holding, or not at all.
LEMMA Counting ==
  ASSUME NEW S \in SUBSET Jobs, NEW j
  PROVE  /\ Cardinality(S) \in Nat
         /\ j \notin S => Cardinality(S \cup {j}) = Cardinality(S) + 1
         /\ j \in S => Cardinality(S \ {j}) = Cardinality(S) - 1 /\ Cardinality(S) > 0
<1>1. IsFiniteSet(S) /\ Cardinality(S) \in Nat
  BY JobsAssumption, FS_Subset, FS_CardinalityType
<1>2. j \in S => Cardinality(S) # 0
  BY <1>1, FS_EmptySet
<1>3. Cardinality(S \cup {j}) = IF j \in S THEN Cardinality(S) ELSE Cardinality(S) + 1
  BY <1>1, FS_AddElement
<1>4. Cardinality(S \ {j}) = IF j \in S THEN Cardinality(S) - 1 ELSE Cardinality(S)
  BY <1>1, FS_RemoveElement
<1> QED BY <1>1, <1>2, <1>3, <1>4

Users   == {j \in Holding : ~IsReserved(j)}
Smokers == {j \in Holding : IsReserved(j)}

TenantsCounted ==
  /\ active = Cardinality(Holding)
  /\ \A t \in Tenants : held[t] = Cardinality(HoldingFor(t)) /\ Len(holders[t]) = held[t]

LEMMA GainsSets ==
  ASSUME NEW j, Gains(j)
  PROVE  /\ j \in Jobs /\ j \notin Holding /\ Holding' = Holding \cup {j}
         /\ \A t \in Tenants : HoldingFor(t)' =
              IF t = TenantOf[j] THEN HoldingFor(t) \cup {j} ELSE HoldingFor(t)
         /\ IsReserved(j) => Smokers' = Smokers \cup {j} /\ Users' = Users
         /\ ~IsReserved(j) => Users' = Users \cup {j} /\ Smokers' = Smokers
BY DEF Gains, HoldingFor, Users, Smokers, IsReserved

LEMMA LosesSets ==
  ASSUME NEW j, Loses(j)
  PROVE  /\ j \in Jobs /\ j \in Holding /\ Holding' = Holding \ {j}
         /\ \A t \in Tenants : HoldingFor(t)' =
              IF t = TenantOf[j] THEN HoldingFor(t) \ {j} ELSE HoldingFor(t)
         /\ IsReserved(j) => Smokers' = Smokers \ {j} /\ Users' = Users /\ j \in Smokers
         /\ ~IsReserved(j) => Users' = Users \ {j} /\ Smokers' = Smokers /\ j \in Users
BY DEF Loses, Holding, HoldingFor, Users, Smokers, IsReserved

LEMMA TakeEffect ==
  ASSUME TypeOK, NEW j \in Jobs, NEW b \in BOOLEAN, Take(j, b)
  PROVE  /\ active' = active + 1 /\ active' \in Nat
         /\ smoke' = (IF b THEN smoke + 1 ELSE smoke) /\ smoke' \in Nat
         /\ held' \in [Tenants -> Nat] /\ holders' \in [Tenants -> Seq(Entries)]
         /\ \A t \in Tenants \ {TenantOf[j]} : held'[t] = held[t] /\ holders'[t] = holders[t]
         /\ held'[TenantOf[j]] = held[TenantOf[j]] + 1
         /\ holders'[TenantOf[j]] = Append(holders[TenantOf[j]], [job |-> j, reserved |-> b])
<1>1. TenantOf[j] \in Tenants /\ [job |-> j, reserved |-> b] \in Entries
  BY JobsAssumption DEF Entries
<1> QED BY <1>1 DEF Take, TypeOK

LEMMA ReleaseEffect ==
  ASSUME TypeOK, TenantsCounted, NEW j, Loses(j)
  PROVE  /\ active' = active - 1 /\ active' \in Nat /\ smoke' \in Nat
         /\ smoke' = IF holders[TenantOf[j]][Len(holders[TenantOf[j]])].reserved /\ smoke > 0
                     THEN smoke - 1 ELSE smoke
         /\ held' \in [Tenants -> Nat] /\ holders' \in [Tenants -> Seq(Entries)]
         /\ \A t \in Tenants \ {TenantOf[j]} : held'[t] = held[t] /\ holders'[t] = holders[t]
         /\ held'[TenantOf[j]] = held[TenantOf[j]] - 1 /\ held[TenantOf[j]] > 0
         /\ Len(holders'[TenantOf[j]]) = held'[TenantOf[j]]
         /\ \A n \in 1 .. Len(holders'[TenantOf[j]]) :
              holders'[TenantOf[j]][n] = holders[TenantOf[j]][n]
<1> DEFINE t == TenantOf[j]
           h == holders[t]
<1>1. t \in Tenants /\ j \in HoldingFor(t) /\ HoldingFor(t) \in SUBSET Jobs
      /\ Holding \in SUBSET Jobs /\ j \in Holding
  BY JobsAssumption DEF Loses, HoldingFor, Holding
<1>2. active > 0 /\ held[t] > 0 /\ Len(h) = held[t] /\ h \in Seq(Entries)
  BY <1>1, Counting DEF TenantsCounted, TypeOK
<1>3. Front(h) \in Seq(Entries) /\ Len(Front(h)) = Len(h) - 1
      /\ \A n \in 1 .. Len(h) - 1 : Front(h)[n] = h[n]
  BY <1>2, SubSeqProperties DEF Front
<1>4. /\ active' = active - 1 /\ smoke' = IF Last(h).reserved /\ smoke > 0 THEN smoke - 1 ELSE smoke
      /\ held' = [held EXCEPT ![t] = @ - 1]
      /\ holders' = [holders EXCEPT ![t] = IF held[t] > 1 THEN Front(@) ELSE <<>>]
  BY DEF Loses, Release
<1>5. /\ held' \in [Tenants -> Nat] /\ held'[t] = held[t] - 1
      /\ \A u \in Tenants \ {t} : held'[u] = held[u]
  BY <1>1, <1>2, <1>4 DEF TypeOK
<1>6. /\ holders' \in [Tenants -> Seq(Entries)]
      /\ holders'[t] = IF held[t] > 1 THEN Front(h) ELSE <<>>
      /\ \A u \in Tenants \ {t} : holders'[u] = holders[u]
  BY <1>1, <1>3, <1>4 DEF TypeOK
<1>7. Len(holders'[t]) = held'[t] /\ \A n \in 1 .. Len(holders'[t]) : holders'[t][n] = h[n]
  <2>1. CASE held[t] > 1 BY <2>1, <1>2, <1>3, <1>5, <1>6
  <2>2. CASE held[t] = 1 BY <2>2, <1>5, <1>6
  <2> QED BY <1>2, <1>1, <2>1, <2>2 DEF TypeOK
<1> QED BY <1>1, <1>2, <1>4, <1>5, <1>6, <1>7 DEF TypeOK, Last

LEMMA CountedStep ==
  ASSUME TypeOK, TenantsCounted, [Next]_vars
  PROVE  TypeOK' /\ TenantsCounted'
<1>1. PlacesOK' /\ (Keeps \/ \E j \in Jobs : Gains(j) \/ Loses(j))
  BY StepKinds DEF TypeOK, PlacesOK
<1>2. CASE Keeps
  BY <1>1, <1>2 DEF Keeps, TypeOK, PlacesOK, TenantsCounted, HoldingFor, counters
<1>3. ASSUME NEW j \in Jobs, Gains(j) PROVE TypeOK' /\ TenantsCounted'
  <2>0. IsReserved(j) \in BOOLEAN BY DEF IsReserved
  <2>1. PICK b \in BOOLEAN : Take(j, b) BY <1>3, <2>0 DEF Gains
  <2>2. TenantOf[j] \in Tenants BY JobsAssumption
  <2>3. Cardinality(Holding') = Cardinality(Holding) + 1
    BY <1>3, GainsSets, Counting DEF Holding
  <2>4. \A t \in Tenants : Cardinality(HoldingFor(t)') =
          IF t = TenantOf[j] THEN Cardinality(HoldingFor(t)) + 1 ELSE Cardinality(HoldingFor(t))
    <3>1. ASSUME NEW t \in Tenants
          PROVE  HoldingFor(t) \in SUBSET Jobs /\ j \notin HoldingFor(t)
      BY <1>3, GainsSets DEF Holding, HoldingFor
    <3>2. ASSUME NEW t \in Tenants
          PROVE  Cardinality(HoldingFor(t) \cup {j}) = Cardinality(HoldingFor(t)) + 1
      BY <3>1, Counting
    <3> QED BY <1>3, <3>2, GainsSets
  <2>5. \A t \in Tenants : Len(holders'[t]) =
          IF t = TenantOf[j] THEN Len(holders[t]) + 1 ELSE Len(holders[t])
    <3>1. [job |-> j, reserved |-> b] \in Entries BY DEF Entries
    <3>2. holders'[TenantOf[j]] = Append(holders[TenantOf[j]], [job |-> j, reserved |-> b])
          /\ \A t \in Tenants \ {TenantOf[j]} : holders'[t] = holders[t]
      BY <2>1, TakeEffect
    <3>3. Len(holders'[TenantOf[j]]) = Len(holders[TenantOf[j]]) + 1
      BY <2>2, <3>1, <3>2, AppendProperties DEF TypeOK
    <3> QED BY <3>2, <3>3
  <2>6. TypeOK' BY <1>1, <2>1, TakeEffect DEF TypeOK, PlacesOK
  <2>7. /\ active' = active + 1 /\ held'[TenantOf[j]] = held[TenantOf[j]] + 1
        /\ \A t \in Tenants \ {TenantOf[j]} : held'[t] = held[t]
    BY <2>1, TakeEffect
  <2> QED BY <2>3, <2>4, <2>5, <2>6, <2>7 DEF TenantsCounted
<1>4. ASSUME NEW j \in Jobs, Loses(j) PROVE TypeOK' /\ TenantsCounted'
  <2>1. Cardinality(Holding') = Cardinality(Holding) - 1
    BY <1>4, LosesSets, Counting DEF Holding
  <2>2. \A t \in Tenants : Cardinality(HoldingFor(t)') =
          IF t = TenantOf[j] THEN Cardinality(HoldingFor(t)) - 1 ELSE Cardinality(HoldingFor(t))
    <3>1. HoldingFor(TenantOf[j]) \in SUBSET Jobs /\ j \in HoldingFor(TenantOf[j])
      BY <1>4, LosesSets DEF Holding, HoldingFor
    <3>2. Cardinality(HoldingFor(TenantOf[j]) \ {j}) = Cardinality(HoldingFor(TenantOf[j])) - 1
      BY <3>1, Counting
    <3> QED BY <1>4, <3>2, LosesSets
  <2>3. TypeOK' BY <1>1, <1>4, ReleaseEffect DEF TypeOK, PlacesOK
  <2> QED BY <1>4, <2>1, <2>2, <2>3, ReleaseEffect DEF TenantsCounted
<1> QED BY <1>1, <1>2, <1>3, <1>4

LEMMA CountedInit ==
  ASSUME Init
  PROVE  TypeOK /\ TenantsCounted /\ Users = {} /\ Smokers = {} /\ Holding = {}
<1>1. Holding = {} BY DEF Init, Holding
<1>2. <<>> \in Seq(Entries) /\ Len(<<>>) = 0 BY EmptySeq
<1>3. TypeOK BY <1>2 DEF Init, TypeOK, Places
<1> QED BY <1>1, <1>2, <1>3, FS_EmptySet DEF Init, TenantsCounted, HoldingFor, Users, Smokers

\* Every variable keeps its shape: no release takes a counter below zero.
THEOREM SlotsTyped == Spec => []TypeOK
<1>1. Init => TypeOK /\ TenantsCounted BY CountedInit
<1>2. TypeOK /\ TenantsCounted /\ [Next]_vars => TypeOK' /\ TenantsCounted'
  BY CountedStep
<1> QED BY <1>1, <1>2, PTL DEF Spec

-----------------------------------------------------------------------------
(* The caps, when no impatient job is a smoke job: then the reserved flags a *)
(* release pops are all alike.                                               *)

UsersProbe == \A j \in Impatient : ~IsReserved(j)

SmokeCounted ==
  /\ smoke = Cardinality(Smokers) /\ active - smoke = Cardinality(Users)
  /\ \A t \in Tenants : \A n \in 1 .. Len(holders[t]) :
       holders[t][n].reserved = (t \in Reserved)

Queued == Users \ Impatient

CapsKept ==
  /\ active <= ProcessCap
  /\ \A t \in Tenants : held[t] <= TenantCap
  /\ Cardinality(Queued) <= ProcessCap - KeptSlots

CountInv == TypeOK /\ TenantsCounted /\ SmokeCounted /\ CapsKept

LEMMA Sets ==
  Holding \in SUBSET Jobs /\ Users \in SUBSET Jobs /\ Smokers \in SUBSET Jobs
  /\ Queued \in SUBSET Jobs
BY DEF Holding, Users, Smokers, Queued

LEMMA CountType == ASSUME NEW S \in SUBSET Jobs PROVE Cardinality(S) \in Nat
BY JobsAssumption, FS_Subset, FS_CardinalityType

LEMMA KeptType == KeptSlots \in {0, 1} /\ ProcessCap - KeptSlots \in Nat
BY CapsAssumption DEF KeptSlots

LEMMA GainsFlags ==
  ASSUME TypeOK, SmokeCounted, UsersProbe, NEW j \in Jobs, Gains(j)
  PROVE  SmokeCounted'
<1>1. Take(j, IsReserved(j)) /\ IsReserved(j) \in BOOLEAN
  <2>1. IsReserved(j) \in BOOLEAN BY DEF IsReserved
  <2>2. CASE j \in Impatient
    <3>1. IsReserved(j) = FALSE BY <2>2 DEF UsersProbe, IsReserved
    <3> QED BY <2>1, <3>1 DEF Gains
  <2> QED BY <2>1, <2>2 DEF Gains
<1>2. /\ active' = active + 1
      /\ smoke' = IF IsReserved(j) THEN smoke + 1 ELSE smoke
      /\ \A t \in Tenants \ {TenantOf[j]} : holders'[t] = holders[t]
      /\ holders'[TenantOf[j]] = Append(holders[TenantOf[j]], [job |-> j, reserved |-> IsReserved(j)])
  BY <1>1, TakeEffect
<1>3. /\ IsReserved(j) => Cardinality(Smokers') = Cardinality(Smokers) + 1 /\ Users' = Users
      /\ ~IsReserved(j) => Cardinality(Users') = Cardinality(Users) + 1 /\ Smokers' = Smokers
  <2>1. j \notin Users /\ j \notin Smokers BY GainsSets DEF Users, Smokers
  <2> QED BY <2>1, Sets, GainsSets, Counting
<1>4. \A t \in Tenants : \A n \in 1 .. Len(holders'[t]) :
        holders'[t][n].reserved = (t \in Reserved)
  <2>1. ASSUME NEW n \in 1 .. Len(holders'[TenantOf[j]])
        PROVE  holders'[TenantOf[j]][n].reserved = (TenantOf[j] \in Reserved)
    <3> DEFINE h == holders[TenantOf[j]]
               e == [job |-> j, reserved |-> IsReserved(j)]
    <3>1. TenantOf[j] \in Tenants /\ h \in Seq(Entries) /\ e \in Entries
      BY <1>1, JobsAssumption DEF TypeOK, Entries
    <3>2. e.reserved = (TenantOf[j] \in Reserved) BY DEF IsReserved
    <3>3. /\ Len(Append(h, e)) = Len(h) + 1 /\ Append(h, e)[Len(h) + 1] = e
          /\ \A i \in 1 .. Len(h) : Append(h, e)[i] = h[i]
      BY <3>1, AppendProperties
    <3>4. CASE n \in 1 .. Len(h)
      BY <1>2, <3>1, <3>3, <3>4 DEF SmokeCounted
    <3>5. CASE n \notin 1 .. Len(h)
      <4>1. n = Len(h) + 1 BY <1>2, <3>1, <3>3, <3>5, LenProperties
      <4> QED BY <1>2, <3>2, <3>3, <4>1
    <3> QED BY <3>4, <3>5
  <2>2. ASSUME NEW t \in Tenants \ {TenantOf[j]}, NEW n \in 1 .. Len(holders'[t])
        PROVE  holders'[t][n].reserved = (t \in Reserved)
    <3>1. holders'[t] = holders[t] BY <1>2
    <3> QED BY <2>2, <3>1 DEF SmokeCounted
  <2> QED BY <2>1, <2>2
<1>5. active \in Nat /\ smoke \in Nat BY DEF TypeOK
<1>6. smoke' = Cardinality(Smokers') /\ active' - smoke' = Cardinality(Users')
  BY <1>2, <1>3, <1>5 DEF SmokeCounted
<1> QED BY <1>4, <1>6 DEF SmokeCounted

LEMMA LosesFlags ==
  ASSUME TypeOK, TenantsCounted, SmokeCounted, NEW j \in Jobs, Loses(j)
  PROVE  SmokeCounted'
<1> DEFINE t == TenantOf[j]
           last == holders[t][Len(holders[t])]
<1>1. t \in Tenants BY JobsAssumption
<1>2. /\ active' = active - 1
      /\ smoke' = IF last.reserved /\ smoke > 0 THEN smoke - 1 ELSE smoke
      /\ \A u \in Tenants \ {t} : holders'[u] = holders[u]
      /\ held[t] > 0 /\ held'[t] = held[t] - 1 /\ Len(holders'[t]) = held'[t]
      /\ \A n \in 1 .. Len(holders'[t]) : holders'[t][n] = holders[t][n]
  BY ReleaseEffect
<1>3. last.reserved = IsReserved(j)
  <2>1. Len(holders[t]) \in 1 .. Len(holders[t])
    BY <1>1, <1>2 DEF TenantsCounted, TypeOK
  <2> QED BY <1>1, <2>1 DEF SmokeCounted, IsReserved
<1>4. /\ IsReserved(j) => /\ Cardinality(Smokers') = Cardinality(Smokers) - 1
                          /\ Cardinality(Smokers) > 0 /\ Users' = Users
      /\ ~IsReserved(j) => Cardinality(Users') = Cardinality(Users) - 1 /\ Smokers' = Smokers
  BY Sets, LosesSets, Counting
<1>5. \A u \in Tenants : \A n \in 1 .. Len(holders'[u]) :
        holders'[u][n].reserved = (u \in Reserved)
  <2>1. ASSUME NEW n \in 1 .. Len(holders'[t])
        PROVE  holders'[t][n].reserved = (t \in Reserved)
    <3>1. n \in 1 .. Len(holders[t])
      BY <1>1, <1>2 DEF TenantsCounted, TypeOK
    <3> QED BY <1>1, <1>2, <3>1 DEF SmokeCounted
  <2> QED BY <1>2, <2>1 DEF SmokeCounted
<1>6. smoke' = Cardinality(Smokers') /\ active' - smoke' = Cardinality(Users')
  <2>1. active \in Nat /\ smoke \in Nat BY DEF TypeOK
  <2> QED BY <1>2, <1>3, <1>4, <2>1 DEF SmokeCounted
<1> QED BY <1>5, <1>6 DEF SmokeCounted

LEMMA GainsCaps ==
  ASSUME TypeOK, SmokeCounted, CapsKept, NEW j \in Jobs, Gains(j)
  PROVE  CapsKept'
<1>1. PICK b \in BOOLEAN : Take(j, b)
  <2>1. IsReserved(j) \in BOOLEAN BY DEF IsReserved
  <2> QED BY <2>1 DEF Gains
<1>2. active' <= ProcessCap /\ \A t \in Tenants : held'[t] <= TenantCap
  <2>1. /\ active' = active + 1 /\ held'[TenantOf[j]] = held[TenantOf[j]] + 1
        /\ \A t \in Tenants \ {TenantOf[j]} : held'[t] = held[t]
    BY <1>1, TakeEffect
  <2>2. active \in Nat /\ \A t \in Tenants : held[t] \in Nat BY DEF TypeOK
  <2>3. active < ProcessCap /\ held[TenantOf[j]] < TenantCap BY DEF Gains
  <2> QED BY <2>1, <2>2, <2>3, CapsAssumption DEF CapsKept
<1>3. Cardinality(Queued') <= ProcessCap - KeptSlots
  <2>1. CASE IsReserved(j) \/ j \in Impatient
    <3>1. Queued' = Queued BY <2>1, GainsSets DEF Queued
    <3> QED BY <3>1 DEF CapsKept, KeptSlots
  <2>2. CASE ~IsReserved(j) /\ j \notin Impatient
    <3>1. Queued' = Queued \cup {j} /\ j \notin Queued
      BY <2>2, GainsSets DEF Queued, Users
    <3>2. Cardinality(Queued') = Cardinality(Queued) + 1 /\ Cardinality(Queued) \in Nat
      BY <3>1, Sets, Counting
    <3>3. Cardinality(Queued) <= Cardinality(Users)
      <4>1. IsFiniteSet(Users) BY Sets, JobsAssumption, FS_Subset
      <4>2. Queued \in SUBSET Users BY DEF Queued
      <4> QED BY <4>1, <4>2, FS_Subset
    <3>4. Cardinality(Users) < ProcessCap - KeptSlots
      BY <2>2 DEF Gains, Admissible, SmokeCounted
    <3>5. Cardinality(Users) \in Nat /\ ProcessCap - KeptSlots \in Int
      BY Sets, CountType, KeptType
    <3> QED BY <3>2, <3>3, <3>4, <3>5 DEF KeptSlots
  <2> QED BY <2>1, <2>2
<1> QED BY <1>2, <1>3 DEF CapsKept, KeptSlots

LEMMA LosesCaps ==
  ASSUME TypeOK, TenantsCounted, CapsKept, NEW j \in Jobs, Loses(j)
  PROVE  CapsKept'
<1>1. active' <= ProcessCap /\ \A t \in Tenants : held'[t] <= TenantCap
  <2>1. /\ active' = active - 1 /\ held'[TenantOf[j]] = held[TenantOf[j]] - 1
        /\ \A t \in Tenants \ {TenantOf[j]} : held'[t] = held[t]
    BY ReleaseEffect
  <2>2. active \in Nat /\ \A t \in Tenants : held[t] \in Nat BY DEF TypeOK
  <2> QED BY <2>1, <2>2, CapsAssumption DEF CapsKept
<1>2. Cardinality(Queued') <= Cardinality(Queued)
  <2>1. Queued' \in SUBSET Queued BY LosesSets DEF Queued
  <2>2. IsFiniteSet(Queued) BY Sets, JobsAssumption, FS_Subset
  <2> QED BY <2>1, <2>2, FS_Subset
<1>3. /\ Cardinality(Queued) \in Nat /\ Cardinality(Queued') \in Nat
      /\ ProcessCap - KeptSlots \in Int
  <2>1. Queued' \in SUBSET Jobs BY Sets, LosesSets DEF Queued
  <2>2. Queued \in SUBSET Jobs BY Sets
  <2> QED BY <2>1, <2>2, CountType, KeptType
<1> QED BY <1>1, <1>2, <1>3 DEF CapsKept, KeptSlots

LEMMA CountInit ==
  ASSUME Init
  PROVE  CountInv
<1>1. Users = {} /\ Smokers = {} /\ Queued = {} BY CountedInit DEF Queued
<1>2. \A t \in Tenants : Len(holders[t]) = 0 BY DEF Init
<1>3. SmokeCounted /\ CapsKept
  BY <1>1, <1>2, FS_EmptySet, CapsAssumption
     DEF Init, SmokeCounted, CapsKept, KeptSlots
<1> QED BY <1>3, CountedInit DEF CountInv

LEMMA CountStep ==
  ASSUME UsersProbe, CountInv, [Next]_vars
  PROVE  CountInv'
<1>1. TypeOK' /\ TenantsCounted' BY CountedStep DEF CountInv
<1>2. Keeps \/ \E j \in Jobs : Gains(j) \/ Loses(j)
  BY StepKinds DEF CountInv, TypeOK, PlacesOK
<1>3. CASE Keeps
  BY <1>1, <1>3 DEF CountInv, Keeps, counters, SmokeCounted, CapsKept, KeptSlots, Queued,
     Users, Smokers, IsReserved
<1>4. ASSUME NEW j \in Jobs, Gains(j) PROVE CountInv'
  BY <1>1, <1>4, GainsFlags, GainsCaps DEF CountInv
<1>5. ASSUME NEW j \in Jobs, Loses(j) PROVE CountInv'
  BY <1>1, <1>5, LosesFlags, LosesCaps DEF CountInv
<1> QED BY <1>2, <1>3, <1>4, <1>5

\* The caps hold on every box: of the process, of each tenant, and of the users
\* who queue, who leave the smoke its slot.
THEOREM CapsHold == UsersProbe => (Spec => []SlotsKept)
<1> SUFFICES ASSUME UsersProbe PROVE Spec => []SlotsKept
  OBVIOUS
<1>1. Init => CountInv BY CountInit
<1>2. CountInv /\ [Next]_vars => CountInv' BY CountStep
<1>3. CountInv => SlotsKept
  <2>1. {j \in Holding \ Impatient : ~IsReserved(j)} = Queued BY DEF Queued, Users
  <2> QED BY <2>1 DEF CountInv, TenantsCounted, CapsKept, SlotsKept
<1> QED BY <1>1, <1>2, <1>3, PTL DEF Spec

\* No slot is leaked: the counters are the counts of the jobs that run.
THEOREM NothingLeaks == UsersProbe => (Spec => []CountersCountTheRunning)
<1> SUFFICES ASSUME UsersProbe PROVE Spec => []CountersCountTheRunning
  OBVIOUS
<1>1. Init => CountInv BY CountInit
<1>2. CountInv /\ [Next]_vars => CountInv' BY CountStep
<1>3. CountInv => CountersCountTheRunning
  BY DEF CountInv, TenantsCounted, SmokeCounted, CountersCountTheRunning, Smokers
<1> QED BY <1>1, <1>2, <1>3, PTL DEF Spec

-----------------------------------------------------------------------------
(* The queue.                                                                *)

QueueInv == PlacesOK /\ SleepersHaveNoTurn

\* Whoever notifies leaves nobody asleep.
LEMMA WakeLeavesNone ==
  ASSUME NEW j \in Jobs, NEW p \in {"holding", "gone"}, Wake(j, p), PlacesOK
  PROVE  SleepersHaveNoTurn'
BY DEF Wake, PlacesOK, SleepersHaveNoTurn, Waiters

\* A sleeper's turn does not come by others joining, or by counters left alone.
LEMMA TurnStays ==
  ASSUME PlacesOK, UNCHANGED counters, Waiters \subseteq Waiters',
         NEW j \in Waiters, \A i \in Waiters : ticket'[i] = ticket[i],
         HasTurn(j, ticket)'
  PROVE  HasTurn(j, ticket)
BY DEF HasTurn, Admissible, Ahead, IsReserved, KeptSlots, counters

\* A step that moves one thread to a place of its own and takes no slot.
LEMMA MoveStays ==
  ASSUME QueueInv, NEW j \in Jobs, NEW p \in Places,
         pc' = [pc EXCEPT ![j] = p], UNCHANGED counters,
         \A i \in Waiters : ticket'[i] = ticket[i],
         Waiters \subseteq Waiters', pc[j] # "holding",
         p = "asleep" => j \in Waiters /\ ~HasTurn(j, ticket)
  PROVE  SleepersHaveNoTurn'
<1> SUFFICES ASSUME NEW i \in Waiters', pc'[i] = "asleep", HasTurn(i, ticket)'
             PROVE  \E k \in Impatient : pc'[k] = "holding"
  BY DEF SleepersHaveNoTurn
<1>1. i \in Waiters /\ (i # j => pc[i] = "asleep")
  BY DEF QueueInv, PlacesOK, Waiters, Waiting
<1>2. HasTurn(i, ticket) BY <1>1, TurnStays DEF QueueInv
<1>3. pc[i] = "asleep" BY <1>1, <1>2 DEF QueueInv, PlacesOK
<1>4. PICK k \in Impatient : pc[k] = "holding"
  BY <1>1, <1>2, <1>3 DEF QueueInv, SleepersHaveNoTurn
<1>5. k # j /\ k \in Jobs BY <1>4, JobsAssumption
<1> QED BY <1>4, <1>5 DEF QueueInv, PlacesOK

LEMMA ProceedStays ==
  ASSUME QueueInv, NEW j \in Jobs, NEW place, Proceed(j, place),
         pc[j] \in {"new", "checking", "telling"},
         \A i \in Waiters : ticket'[i] = ticket[i]
  PROVE  SleepersHaveNoTurn'
<1>1. CASE HasTurn(j, place)
  BY <1>1, WakeLeavesNone DEF Proceed, QueueInv
<1>2. CASE ~HasTurn(j, place)
  <2>1. pc' = [pc EXCEPT ![j] = "telling"] /\ UNCHANGED counters
    BY <1>2 DEF Proceed
  <2>2. Waiters \subseteq Waiters' BY <2>1 DEF Waiters, Waiting, QueueInv, PlacesOK
  <2> QED BY <2>1, <2>2, MoveStays DEF Places
<1> QED BY <1>1, <1>2

LEMMA QueueStep ==
  ASSUME QueueInv, [Next]_vars
  PROVE  QueueInv'
<1>1. PlacesOK' BY StepKinds DEF QueueInv
<1>2. CASE UNCHANGED vars
  BY <1>1, <1>2 DEF vars, queue, counters, QueueInv, SleepersHaveNoTurn, Waiters, HasTurn,
     Admissible, Ahead, IsReserved, KeptSlots
<1>3. CASE Next
  <2>1. PICK j \in Jobs : Arrive(j) \/ Step(j) \/ Leave(j) \/ Poll(j)
    BY <1>3 DEF Next
  <2>2. CASE Join(j)
    <3>1. pc[j] = "new" /\ \A i \in Waiters : ticket'[i] = ticket[i]
      BY <2>2 DEF Join, Waiters, Waiting, QueueInv, PlacesOK
    <3>2. PICK place : Proceed(j, place) \/ Exhaust(j, place)
      BY <2>2 DEF Join
    <3> QED BY <1>1, <3>1, <3>2, ProceedStays, WakeLeavesNone DEF Exhaust, QueueInv
  <2>3. CASE Grab(j)
    <3>1. pc[j] = "new" /\ j \in Impatient /\ UNCHANGED queue
      BY <2>3 DEF Grab
    <3>2. CASE pc' = [pc EXCEPT ![j] = "holding"]
      BY <1>1, <3>1, <3>2 DEF QueueInv, SleepersHaveNoTurn, PlacesOK
    <3>3. CASE pc' = [pc EXCEPT ![j] = "gone"] /\ UNCHANGED counters
      <4>1. Waiters \subseteq Waiters' /\ "gone" \in Places
        BY <3>1, <3>3 DEF Waiters, Waiting, QueueInv, PlacesOK, Places
      <4> QED BY <1>1, <3>1, <3>3, <4>1, MoveStays DEF queue, QueueInv
    <3> QED BY <2>3, <3>2, <3>3 DEF Grab
  <2>4. CASE Check(j)
    BY <1>1, <2>4, ProceedStays DEF Check, queue, QueueInv
  <2>5. CASE Told(j)
    <3>1. pc[j] = "telling" /\ UNCHANGED queue BY <2>5 DEF Told
    <3>2. CASE HasTurn(j, ticket)
      BY <1>1, <2>5, <3>2, WakeLeavesNone DEF Told, QueueInv
    <3>3. CASE ~HasTurn(j, ticket)
      <4>1. pc' = [pc EXCEPT ![j] = "asleep"] /\ UNCHANGED counters
        BY <2>5, <3>3 DEF Told
      <4>2. Waiters \subseteq Waiters' /\ j \in Waiters /\ "asleep" \in Places
        BY <3>1, <4>1 DEF Waiters, Waiting, QueueInv, PlacesOK, Places
      <4> QED BY <1>1, <3>1, <3>3, <4>1, <4>2, MoveStays DEF queue, QueueInv
    <3> QED BY <3>2, <3>3
  <2>6. CASE Release(j)
    BY <1>1, <2>6, WakeLeavesNone DEF Release, QueueInv
  <2>7. CASE Leave(j)
    BY <1>1, <2>7, WakeLeavesNone DEF Leave, GiveUp, FailTelling, Exhaust, QueueInv
  <2>8. CASE Poll(j)
    <3>1. /\ pc[j] = "asleep" /\ pc' = [pc EXCEPT ![j] = "checking"]
          /\ UNCHANGED counters /\ UNCHANGED queue
      BY <2>8 DEF Poll, queue, counters
    <3>2. Waiters \subseteq Waiters' /\ "checking" \in Places
      BY <3>1 DEF Waiters, Waiting, QueueInv, PlacesOK, Places
    <3> QED BY <1>1, <3>1, <3>2, MoveStays DEF queue, QueueInv
  <2> QED BY <2>1, <2>2, <2>3, <2>4, <2>5, <2>6, <2>7, <2>8 DEF Arrive, Step
<1> QED BY <1>2, <1>3

LEMMA QueueInit ==
  ASSUME Init
  PROVE  QueueInv
BY DEF Init, QueueInv, PlacesOK, Places, SleepersHaveNoTurn, Waiters, Waiting

\* No wake-up is missed, for any jobs and caps.
THEOREM NoMissedWakeup == Spec => []SleepersHaveNoTurn
<1>1. Init => QueueInv BY QueueInit
<1>2. QueueInv /\ [Next]_vars => QueueInv' BY QueueStep
<1>3. QueueInv => SleepersHaveNoTurn BY DEF QueueInv
<1> QED BY <1>1, <1>2, <1>3, PTL DEF Spec

\* Among some waiters, one has the least ticket.
LEMMA LeastTicket ==
  ASSUME PlacesOK, NEW S \in SUBSET Jobs, S # {}
  PROVE  \E j \in S : \A i \in S : ~(ticket[i] < ticket[j])
<1> DEFINE T == {ticket[j] : j \in S}
<1>1. T \subseteq Nat /\ T # {} BY DEF PlacesOK
<1>2. PICK x \in T : \A y \in T : ~(<<y, x>> \in OpToRel(<, Nat))
  BY <1>1, NatLessThanWellFounded, WFMin
<1>3. \A y \in T : ~(y < x) BY <1>1, <1>2 DEF OpToRel
<1> QED BY <1>3

\* No slot idles: the first in serving order of those who could run has its turn.
LEMMA SomeoneHasTurn ==
  ASSUME PlacesOK
  PROVE  NoIdleSlot
<1> DEFINE able  == {j \in Waiters : Admissible(j)}
           first == IF \E j \in able : IsReserved(j) THEN {j \in able : IsReserved(j)} ELSE able
<1> SUFFICES ASSUME able # {} PROVE \E j \in Waiters : HasTurn(j, ticket)
  BY DEF NoIdleSlot
<1>1. first # {} /\ first \subseteq able /\ able \subseteq Waiters /\ first \in SUBSET Jobs
  BY DEF Waiters
<1>2. PICK j \in first : \A i \in first : ~(ticket[i] < ticket[j])
  BY <1>1, LeastTicket
<1>3. ASSUME NEW i \in Waiters, Ahead(i, j, ticket)
      PROVE  ~Admissible(i)
  BY <1>1, <1>2, <1>3 DEF Ahead, IsReserved
<1>4. ASSUME NEW i \in Waiters, Ahead(i, j, ticket)
      PROVE  TenantOf[i] # TenantOf[j]
  <2>1. ~Admissible(i) /\ Admissible(j) BY <1>1, <1>2, <1>3, <1>4
  <2> QED BY <2>1 DEF Admissible, IsReserved
<1>5. HasTurn(j, ticket) BY <1>1, <1>2, <1>3, <1>4 DEF HasTurn
<1> QED BY <1>1, <1>2, <1>5

\* No slot idles while a waiting job could use it, for any jobs and caps.
THEOREM SlotsDoNotIdle == Spec => []NoIdleSlot
<1>1. Init => QueueInv BY QueueInit
<1>2. QueueInv /\ [Next]_vars => QueueInv' BY QueueStep
<1>3. QueueInv => NoIdleSlot BY SomeoneHasTurn DEF QueueInv
<1> QED BY <1>1, <1>2, <1>3, PTL DEF Spec

LEMMA EntersInTurn ==
  ASSUME PlacesOK, [Next]_vars, NEW i \in Waiters, pc'[i] = "holding"
  PROVE  HasTurn(i, ticket)
<1>1. pc[i] \in Waiting /\ i \in Jobs BY DEF Waiters
<1>2. CASE UNCHANGED vars
  BY <1>1, <1>2 DEF vars, Waiting
<1>3. CASE Next
  <2>1. PICK j \in Jobs : Arrive(j) \/ Step(j) \/ Leave(j) \/ Poll(j)
    BY <1>3 DEF Next
  <2>2. CASE i # j
    BY <1>1, <2>1, <2>2 DEF Arrive, Step, Leave, Poll, Join, Grab, Check, Told, Release, GiveUp,
       FailTelling, Proceed, Exhaust, Wake, Waiting, PlacesOK
  <2>3. CASE i = j
    BY <1>1, <2>1, <2>3 DEF Arrive, Step, Leave, Poll, Join, Grab, Check, Told, Release, GiveUp,
       FailTelling, Proceed, Exhaust, Wake, Waiting, PlacesOK
  <2> QED BY <2>2, <2>3
<1> QED BY <1>2, <1>3

\* A tenant's builds start in the order they asked, and the smoke before users.
THEOREM InOrder == Spec => StartInOrder
<1>1. Init => QueueInv BY QueueInit
<1>2. QueueInv /\ [Next]_vars => QueueInv' BY QueueStep
<1>3. QueueInv /\ [Next]_vars =>
        [\A i, j \in Waiters : Overtakes(i, j) => pc'[i] # "holding"]_vars
  <2> SUFFICES ASSUME QueueInv, [Next]_vars, NEW i \in Waiters, NEW j \in Waiters,
                      Overtakes(i, j), pc'[i] = "holding"
               PROVE  FALSE
    OBVIOUS
  <2>1. HasTurn(i, ticket) BY EntersInTurn DEF QueueInv
  <2>2. Ahead(j, i, ticket) BY DEF Overtakes, Ahead, IsReserved
  <2> QED BY <2>1, <2>2 DEF HasTurn, Overtakes
<1> QED BY <1>1, <1>2, <1>3, PTL DEF Spec, StartInOrder
=============================================================================
