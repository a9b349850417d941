-------------------------- MODULE SessionLifeProofs ----------------------------
(***************************************************************************)
(* What holds of a session for every set of requests, every number of      *)
(* loads, of failed removals and of restarts.                              *)
(***************************************************************************)
EXTENDS SessionLife, TLAPS

(* What the properties rest on.                                             *)

Places == {"idle", "load", "task", "put", "edit", "index", "done"} \cup Saving
Request(n) == [role : Roles \cup {"none"}, pc : Places, on : 0..n, dumped : Contents]

\* The state has its types; rq and purge are functions and records, which TypeOK need not say.
Typed ==
  /\ owner \in BOOLEAN /\ dir \in BOOLEAN /\ vectors \in BOOLEAN /\ outputs \in BOOLEAN
  /\ created \in BOOLEAN /\ purged \in BOOLEAN /\ late \in BOOLEAN /\ residual \in BOOLEAN
  /\ byLoop \in BOOLEAN
  /\ made \in 0..MaxObjects /\ cache \in 0..made
  /\ obj \in [1..MaxObjects -> Contents]
  /\ main \in SUBSET Contents /\ tmp \in SUBSET Contents
  /\ purge \in [pc : {"idle", "vectors", "tree", "outputs", "evict", "forget"},
                account : BOOLEAN, ok : BOOLEAN]
  /\ rq \in [Requests -> Request(made)]
  /\ acked \in SUBSET Requests
  /\ failures \in 0..MaxFailures /\ crashes \in 0..MaxCrashes

Holding == {"edit", "index"} \cup Saving

\* Requests come to a session that was created, hold an object that was made, and do what
\* their role does; an object nobody loaded is blank.
Orderly ==
  /\ \A r \in Requests :
       /\ rq[r].pc # "idle" => created
       /\ rq[r].pc \in Holding \cup {"put"} => rq[r].on # 0 /\ rq[r].role # "get"
       /\ At(r, "index") => rq[r].role = "upload"
       /\ At(r, "put") => rq[r].role = "pool"
       /\ r \in acked => At(r, "done")
  /\ \A o \in 1..MaxObjects : o > made => obj[o] = Blank

Gone == cache = 0 /\ main = {} /\ tmp = {} /\ ~vectors

\* An erasure nobody writes into removes one thing after the other, and what it removed
\* stays so; it forgets the owner last, and afterwards nobody holds the session either.
Erasure ==
  /\ purge.pc # "idle" => owner /\ purged
  /\ ~late /\ (purge.pc # "idle" \/ (~owner /\ ~residual)) => Writers = {}
  /\ ~late /\ purge.ok =>
       /\ purge.pc \in {"tree", "outputs", "evict", "forget"} => ~vectors
       /\ purge.pc \in {"outputs", "evict", "forget"} => main = {} /\ tmp = {}
  /\ ~late /\ purge.pc = "forget" => cache = 0
  /\ ~owner /\ ~late /\ ~residual => Gone

\* With the event loop alone everybody holds the object in the store and one at a time
\* saves it: what is written is what the object says, answered edits included.
Loop ==
  byLoop /\ ~purged =>
    /\ purge.pc = "idle"
    /\ \A r \in Requests :
         /\ rq[r].role # "pool"
         /\ rq[r].pc \in Holding => cache # 0 /\ rq[r].on = cache
         /\ rq[r].pc \in Saving /\ rq[r].role # "upload" => obj[cache][r] = 2
         /\ rq[r].pc \in {"write", "replace"} => dir /\ rq[r].dumped = obj[cache]
         /\ At(r, "replace") => tmp = {rq[r].dumped}
    /\ \A r, s \in Requests : rq[r].pc \in Saving /\ rq[s].pc \in Saving => r = s
    /\ \A r \in acked :
         /\ cache # 0 => obj[cache][r] = 2
         /\ main # {} /\ \A c \in main : c[r] = 2

\* Without a restart the session stays in memory, and an upload it calls processed is
\* under way.
Uploads ==
  byLoop /\ ~purged /\ crashes = 0 =>
    /\ created => cache # 0
    /\ cache # 0 => \A s \in Requests :
         obj[cache][s] = 1 => rq[s].role = "upload" /\ rq[s].pc \in Holding

IInv == Typed /\ Orderly /\ Erasure /\ Loop /\ Uploads

-----------------------------------------------------------------------------
(* What a step writes, field by field.                                      *)

\* The step leaves r with these four fields, and every other request as it was.
RequestIs(r, role, pc, on, dumped) ==
  /\ rq'[r].role = role /\ rq'[r].pc = pc /\ rq'[r].on = on /\ rq'[r].dumped = dumped
  /\ \A q \in Requests \ {r} : rq'[q] = rq[q]

LEMMA RequestWritten ==
  ASSUME Typed, NEW r \in Requests, made' \in Nat, made <= made',
         NEW new \in Request(made'), rq' = [rq EXCEPT ![r] = new]
  PROVE  /\ RequestIs(r, new.role, new.pc, new.on, new.dumped)
         /\ rq' \in [Requests -> Request(made')]
<1>1. rq \in [Requests -> Request(made)] /\ made \in Nat
  BY SessionBounds DEF Typed
<1>2. Request(made) \subseteq Request(made')
  BY <1>1 DEF Request
<1>3. rq' \in [Requests -> Request(made')]
  BY <1>1, <1>2
<1>4. RequestIs(r, new.role, new.pc, new.on, new.dumped)
  BY <1>1 DEF RequestIs
<1> QED  BY <1>3, <1>4

\* A request that goes on, with what it holds.
LEMMA Moved ==
  ASSUME Typed, UNCHANGED made, NEW r \in Requests, NEW pc \in Places,
         rq' = [rq EXCEPT ![r].pc = pc]
  PROVE  /\ RequestIs(r, rq[r].role, pc, rq[r].on, rq[r].dumped)
         /\ rq' \in [Requests -> Request(made')]
<1> DEFINE new == [rq[r] EXCEPT !.pc = pc]
<1>1. rq[r] \in Request(made) /\ made \in Nat /\ made' = made /\ made <= made'
  BY SessionBounds DEF Typed
<1>2. new \in Request(made')
  BY <1>1 DEF Request
<1>3. new.role = rq[r].role /\ new.pc = pc /\ new.on = rq[r].on /\ new.dumped = rq[r].dumped
  BY <1>1 DEF Request
<1>4. rq' = [rq EXCEPT ![r] = new]
  OBVIOUS
<1> HIDE DEF new
<1>5. /\ RequestIs(r, new.role, new.pc, new.on, new.dumped)
      /\ rq' \in [Requests -> Request(made')]
  BY <1>1, <1>2, <1>4, RequestWritten
<1> QED  BY <1>3, <1>5

LEMMA BlankType == Blank \in Contents /\ \A r \in Requests : Blank[r] = 0
BY DEF Blank, Contents

\* A request that is over.
LEMMA IsAnswered ==
  ASSUME Typed, NEW r \in Requests, made' \in Nat, made <= made',
         rq' = [rq EXCEPT ![r] = Answered]
  PROVE  /\ RequestIs(r, "none", "done", 0, Blank)
         /\ rq' \in [Requests -> Request(made')]
<1>1. Answered = [role |-> "none", pc |-> "done", on |-> 0, dumped |-> Blank]
  BY DEF Answered, NoRequest
<1>2. Answered \in Request(made')
  BY <1>1, BlankType DEF Request, Places
<1>3. /\ RequestIs(r, Answered.role, Answered.pc, Answered.on, Answered.dumped)
      /\ rq' \in [Requests -> Request(made')]
  BY <1>2, RequestWritten
<1> QED  BY <1>1, <1>3

\* The erasure goes on to its next category.
LEMMA PurgeGoes ==
  ASSUME Typed, NEW pc \in {"tree", "outputs", "evict", "forget"}, NEW ok \in BOOLEAN,
         Goes(pc, ok)
  PROVE  /\ purge'.pc = pc /\ purge'.account = purge.account
         /\ purge'.ok = (purge.ok /\ ok)
         /\ purge' \in [pc : {"idle", "vectors", "tree", "outputs", "evict", "forget"},
                        account : BOOLEAN, ok : BOOLEAN]
<1>1. purge \in [pc : {"idle", "vectors", "tree", "outputs", "evict", "forget"},
                 account : BOOLEAN, ok : BOOLEAN]
  BY DEF Typed
<1>2. (purge.ok /\ ok) \in BOOLEAN
  OBVIOUS
<1> QED  BY <1>1, <1>2 DEF Goes

-----------------------------------------------------------------------------
(* Each step keeps the invariant: what it writes, then the parts one by one. *)

\* The first object is blank, and nobody came before the session.
LEMMA CreateKeeps ==
  ASSUME IInv, Create
  PROVE  IInv'
<1> USE SessionBounds
    DEF IInv, Create, At, Holding, Saving, history, content, memory, LoopFree
<1>1. Blank \in Contents /\ \A r \in Requests : Blank[r] = 0
  BY BlankType
<1>2. acked = {} /\ \A r \in Requests : At(r, "idle")
  BY DEF Orderly, Typed, Request, Places
<1>3. /\ obj' = obj /\ cache' # 0 /\ obj[cache'] = Blank
      /\ \A o \in 1..MaxObjects : o > made' => obj'[o] = Blank
  BY DEF Orderly, Typed
<1>4. purge.pc = "idle" /\ main' = {Blank}
  OBVIOUS
<1>5. Typed'
  BY <1>1 DEF Typed, Request, Places
<1>6. Orderly'
  BY <1>2, <1>3 DEF Orderly
<1>7. Erasure'
  BY <1>2, <1>4 DEF Erasure, Writers, Gone
<1>8. Loop'
  BY <1>1, <1>2, <1>3, <1>4 DEF Loop, Orderly
<1>9. Uploads'
  BY <1>1, <1>2, <1>3 DEF Uploads
<1> QED  BY <1>5, <1>6, <1>7, <1>8, <1>9

\* A creation that dies leaves its row, and nothing that a row less.
LEMMA CreateDiesKeeps ==
  ASSUME IInv, CreateDies
  PROVE  IInv'
<1> USE SessionBounds
    DEF IInv, CreateDies, At, Holding, Saving, history, content, memory
<1>1. Typed'
  BY DEF Typed, Request, Places
<1>2. Orderly'
  BY DEF Orderly
<1>3. Erasure'
  BY DEF Erasure, Writers, Gone, Orderly
<1>4. Loop'
  BY SMTT(20) DEF Loop
<1>5. Uploads'
  BY DEF Typed, Uploads
<1> QED  BY <1>1, <1>2, <1>3, <1>4, <1>5

\* A request arrives, of one role or the other.
LEMMA ArriveKeeps ==
  ASSUME IInv, NEW r \in Requests, NEW role \in Roles, Arrive(r, role)
  PROVE  IInv'
<1> USE SessionBounds
    DEF IInv, Arrive, At, Holding, Saving, history, content, memory
<1>1. /\ RequestIs(r, role, "load", rq[r].on, rq[r].dumped)
      /\ rq' \in [Requests -> Request(made')]
  <2> DEFINE new == [rq[r] EXCEPT !.role = role, !.pc = "load"]
  <2>1. rq[r] \in Request(made) /\ made \in Nat /\ made' = made /\ made <= made'
    BY DEF Typed
  <2>2. new \in Request(made')
    BY <2>1 DEF Request, Places
  <2>3. /\ new.role = role /\ new.pc = "load"
        /\ new.on = rq[r].on /\ new.dumped = rq[r].dumped
    BY <2>1 DEF Request
  <2>4. rq' = [rq EXCEPT ![r] = new]
    BY DEF Typed
  <2> HIDE DEF new
  <2>5. /\ RequestIs(r, new.role, new.pc, new.on, new.dumped)
        /\ rq' \in [Requests -> Request(made')]
    BY <2>1, <2>2, <2>4, RequestWritten
  <2> QED  BY <2>3, <2>5
<1>2. Typed'
  BY <1>1 DEF Typed, Request, Places, RequestIs
<1>3. Orderly'
  BY <1>1 DEF Orderly, RequestIs
<1>4. Erasure'
  BY <1>1 DEF Erasure, Writers, Gone, Orderly, RequestIs
<1>5. Loop'
  BY <1>1 DEF Loop, Orderly, RequestIs
<1>6. Uploads'
  BY <1>1 DEF Uploads, Orderly, Loop, RequestIs
<1> QED  BY <1>2, <1>3, <1>4, <1>5, <1>6

\* The other half of a load by the pool.
LEMMA PutKeeps ==
  ASSUME IInv, NEW r \in Requests, Put(r)
  PROVE  IInv'
<1> USE SessionBounds
    DEF IInv, Put, At, Holding, Saving, history, content, memory
<1>1. /\ RequestIs(r, rq[r].role, "edit", rq[r].on, rq[r].dumped)
      /\ rq' \in [Requests -> Request(made')]
  BY Moved DEF Places
<1>2. Typed'
  BY <1>1 DEF Typed, Request, Places, RequestIs
<1>3. Orderly'
  BY <1>1 DEF Orderly, RequestIs
<1>4. Erasure'
  BY <1>1 DEF Erasure, Writers, Gone, Orderly, RequestIs
<1>5. Loop'
  BY <1>1 DEF Loop, Orderly, RequestIs
<1>6. Uploads'
  BY <1>1 DEF Uploads, Orderly, Loop, RequestIs
<1> QED  BY <1>2, <1>3, <1>4, <1>5, <1>6

\* What was dumped is in the temporary file, when there is a directory.
LEMMA WriteKeeps ==
  ASSUME IInv, NEW r \in Requests, Write(r)
  PROVE  IInv'
<1> USE SessionBounds
    DEF IInv, Write, At, Holding, Saving, history, content, memory
<1>1. /\ RequestIs(r, rq[r].role, "replace", rq[r].on, rq[r].dumped)
      /\ rq' \in [Requests -> Request(made')]
  BY Moved DEF Places
<1>2. Typed'
  BY <1>1 DEF Typed, Request, Places, RequestIs
<1>3. Orderly'
  BY <1>1 DEF Orderly, RequestIs
<1>4. Erasure'
  BY <1>1 DEF Erasure, Writers, Gone, Orderly, RequestIs
<1>5. Loop'
  BY <1>1 DEF Loop, Orderly, RequestIs
<1>6. Uploads'
  BY <1>1 DEF Uploads, Orderly, Loop, RequestIs
<1> QED  BY <1>2, <1>3, <1>4, <1>5, <1>6

\* The loop has nobody saving when an upload is indexed.
LEMMA IndexKeeps ==
  ASSUME IInv, NEW r \in Requests, Index(r)
  PROVE  IInv'
<1> USE SessionBounds
    DEF IInv, Index, At, Holding, Saving, history, content, memory, LoopFree
<1>1. /\ RequestIs(r, rq[r].role, "edit", rq[r].on, rq[r].dumped)
      /\ rq' \in [Requests -> Request(made')]
  BY Moved DEF Places
<1>2. Typed'
  BY <1>1 DEF Typed, Request, Places, RequestIs
<1>3. Orderly'
  BY <1>1 DEF Orderly, RequestIs
<1>4. Erasure'
  BY <1>1 DEF Erasure, Writers, Gone, Orderly, RequestIs
<1>5. Loop'
  BY <1>1 DEF Loop, Orderly, RequestIs
<1>6. Uploads'
  BY <1>1 DEF Uploads, Orderly, Loop, RequestIs
<1> QED  BY <1>2, <1>3, <1>4, <1>5, <1>6

\* The vectors go, or are reported.
LEMMA PurgeVectorsKeeps ==
  ASSUME IInv, PurgeVectors
  PROVE  IInv'
<1> USE SessionBounds
    DEF IInv, PurgeVectors, At, Holding, Saving, history, content, memory, PurgeAt, Fails
<1>1. PICK ok \in BOOLEAN : Goes("tree", ok) /\ (IF ok THEN ~vectors' ELSE UNCHANGED vectors)
  OBVIOUS
<1>2. /\ purge'.pc = "tree" /\ purge'.account = purge.account /\ purge'.ok = (purge.ok /\ ok)
      /\ purge' \in [pc : {"idle", "vectors", "tree", "outputs", "evict", "forget"},
                     account : BOOLEAN, ok : BOOLEAN]
  BY <1>1, PurgeGoes
<1>3. failures' \in 0..MaxFailures
  <2>1. failures \in 0..MaxFailures /\ MaxFailures \in Nat
    BY DEF Typed
  <2>2. failures' = failures \/ (failures < MaxFailures /\ failures' = failures + 1)
    OBVIOUS
  <2> QED  BY ONLY <2>1, <2>2
<1>4. main' \in SUBSET Contents /\ tmp' \in SUBSET Contents
  BY <1>1 DEF Typed
<1>5. dir' \in BOOLEAN /\ vectors' \in BOOLEAN /\ outputs' \in BOOLEAN
  BY <1>1 DEF Typed
<1>6. Typed'
  BY <1>2, <1>3, <1>4, <1>5 DEF Typed
<1>7. Orderly'
  BY <1>1, <1>2 DEF Orderly
<1>8. Erasure'
  BY <1>1, <1>2 DEF Erasure, Writers, Gone, Orderly
<1>9. Loop'
  BY <1>1, <1>2 DEF Loop, Orderly
<1>10. Uploads'
  BY <1>1, <1>2 DEF Uploads, Orderly, Loop
<1> QED  BY <1>6, <1>7, <1>8, <1>9, <1>10

\* The snapshot and the directory go, or some of it.
LEMMA PurgeTreeKeeps ==
  ASSUME IInv, PurgeTree
  PROVE  IInv'
<1> USE SessionBounds
    DEF IInv, PurgeTree, At, Holding, Saving, history, content, memory, PurgeAt, Fails
<1>1. PICK ok \in BOOLEAN : Goes("outputs", ok) /\ 
         (IF ok THEN main' = {} /\ tmp' = {}
          ELSE main' \in {main, {}} /\ UNCHANGED <<tmp, dir>>)
  OBVIOUS
<1>2. /\ purge'.pc = "outputs" /\ purge'.account = purge.account /\ purge'.ok = (purge.ok /\ ok)
      /\ purge' \in [pc : {"idle", "vectors", "tree", "outputs", "evict", "forget"},
                     account : BOOLEAN, ok : BOOLEAN]
  BY <1>1, PurgeGoes
<1>3. failures' \in 0..MaxFailures
  <2>1. failures \in 0..MaxFailures /\ MaxFailures \in Nat
    BY DEF Typed
  <2>2. failures' = failures \/ (failures < MaxFailures /\ failures' = failures + 1)
    OBVIOUS
  <2> QED  BY ONLY <2>1, <2>2
<1>4. main' \in SUBSET Contents /\ tmp' \in SUBSET Contents
  BY <1>1 DEF Typed
<1>5. dir' \in BOOLEAN /\ vectors' \in BOOLEAN /\ outputs' \in BOOLEAN
  BY <1>1 DEF Typed
<1>6. Typed'
  BY <1>2, <1>3, <1>4, <1>5 DEF Typed
<1>7. Orderly'
  BY <1>1, <1>2 DEF Orderly
<1>8. Erasure'
  BY <1>1, <1>2 DEF Erasure, Writers, Gone, Orderly
<1>9. Loop'
  BY <1>1, <1>2 DEF Loop, Orderly
<1>10. Uploads'
  BY <1>1, <1>2 DEF Uploads, Orderly, Loop
<1> QED  BY <1>6, <1>7, <1>8, <1>9, <1>10

\* The outputs go, of a session that is deleted alone.
LEMMA PurgeOutputsKeeps ==
  ASSUME IInv, PurgeOutputs
  PROVE  IInv'
<1> USE SessionBounds
    DEF IInv, PurgeOutputs, At, Holding, Saving, history, content, memory, PurgeAt, Fails
<1>1. PICK ok \in BOOLEAN : Goes("evict", ok) /\ (IF ok THEN TRUE ELSE TRUE)
  OBVIOUS
<1>2. /\ purge'.pc = "evict" /\ purge'.account = purge.account /\ purge'.ok = (purge.ok /\ ok)
      /\ purge' \in [pc : {"idle", "vectors", "tree", "outputs", "evict", "forget"},
                     account : BOOLEAN, ok : BOOLEAN]
  BY <1>1, PurgeGoes
<1>3. failures' \in 0..MaxFailures
  <2>1. failures \in 0..MaxFailures /\ MaxFailures \in Nat
    BY DEF Typed
  <2>2. failures' = failures \/ (failures < MaxFailures /\ failures' = failures + 1)
    OBVIOUS
  <2> QED  BY ONLY <2>1, <2>2
<1>4. main' \in SUBSET Contents /\ tmp' \in SUBSET Contents
  BY <1>1 DEF Typed
<1>5. dir' \in BOOLEAN /\ vectors' \in BOOLEAN /\ outputs' \in BOOLEAN
  BY <1>1 DEF Typed
<1>6. Typed'
  BY <1>2, <1>3, <1>4, <1>5 DEF Typed
<1>7. Orderly'
  BY <1>1, <1>2 DEF Orderly
<1>8. Erasure'
  BY <1>1, <1>2 DEF Erasure, Writers, Gone, Orderly
<1>9. Loop'
  BY <1>1, <1>2 DEF Loop, Orderly
<1>10. Uploads'
  BY <1>1, <1>2 DEF Uploads, Orderly, Loop
<1> QED  BY <1>6, <1>7, <1>8, <1>9, <1>10

\* The object leaves the store.
LEMMA EvictKeeps ==
  ASSUME IInv, Evict
  PROVE  IInv'
<1> USE SessionBounds
    DEF IInv, Evict, At, Holding, Saving, history, content, memory, PurgeAt, Evicted
<1>1. /\ purge'.pc = "forget" /\ purge'.account = purge.account /\ purge'.ok = (purge.ok /\ TRUE)
      /\ purge' \in [pc : {"idle", "vectors", "tree", "outputs", "evict", "forget"},
                     account : BOOLEAN, ok : BOOLEAN]
  BY PurgeGoes
<1>2. Typed'
  BY <1>1 DEF Typed, Request, Places
<1>3. Orderly'
  BY <1>1 DEF Orderly
<1>4. Erasure'
  BY <1>1 DEF Erasure, Writers, Gone, Orderly
<1>5. Loop'
  BY <1>1 DEF Loop, Orderly
<1>6. Uploads'
  BY <1>1 DEF Uploads, Orderly, Loop
<1> QED  BY <1>2, <1>3, <1>4, <1>5, <1>6

\* The row goes last.
LEMMA ForgetKeeps ==
  ASSUME IInv, Forget
  PROVE  IInv'
<1> USE SessionBounds
    DEF IInv, Forget, At, Holding, Saving, history, content, memory, PurgeAt, NoPurge, Forgets
<1>1. Typed'
  BY DEF Typed, Request, Places
<1>2. Orderly'
  BY DEF Orderly
<1>3. Erasure'
  BY DEF Erasure, Writers, Gone, Orderly
<1>4. Loop'
  BY DEF Loop, Orderly
<1>5. Uploads'
  BY DEF Uploads, Orderly, Loop
<1> QED  BY <1>1, <1>2, <1>3, <1>4, <1>5

\* The object everybody holds says more; nobody of the loop saves meanwhile.
LEMMA EditKeeps ==
  ASSUME IInv, NEW r \in Requests, Edit(r)
  PROVE  IInv'
<1> USE SessionBounds
    DEF IInv, Edit, At, Holding, Saving, history, content, memory, MayRun, LoopFree
<1> DEFINE o == rq[r].on
           v == Says(r)
<1>1. /\ RequestIs(r, rq[r].role, "dump", rq[r].on, rq[r].dumped)
      /\ rq' \in [Requests -> Request(made')]
  BY Moved DEF Places
<1>2. o \in 1..made /\ o \in 1..MaxObjects /\ rq[r].role # "get" /\ created /\ r \notin acked
  BY DEF Orderly, Typed, Request
<1>3. v \in {1, 2} /\ (v = 1 => rq[r].role = "upload")
  BY DEF Says
<1>4. obj' = [obj EXCEPT ![o] = [obj[o] EXCEPT ![r] = v]]
  OBVIOUS
<1> HIDE DEF o, v
<1>5. obj[o] \in Contents /\ [obj[o] EXCEPT ![r] = v] \in Contents
  BY <1>2, <1>3 DEF Typed, Contents
<1>6. obj' \in [1..MaxObjects -> Contents]
  BY <1>2, <1>4, <1>5 DEF Typed
<1>7. /\ \A k \in 1..MaxObjects : k # o => obj'[k] = obj[k]
      /\ obj'[o][r] = v /\ \A q \in Requests : q # r => obj'[o][q] = obj[o][q]
  BY <1>2, <1>4, <1>5 DEF Typed, Contents
<1>8. cache' = o
  BY DEF o
<1>9. Typed'
  BY <1>1, <1>2, <1>6, <1>8 DEF Typed
<1>10. Orderly'
  BY <1>1, <1>2, <1>7 DEF Orderly, RequestIs, Typed
<1>11. Erasure'
  BY <1>1, <1>2 DEF Erasure, Writers, Gone, RequestIs
<1>12. Loop'
  <2> SUFFICES ASSUME byLoop, ~purged PROVE Loop'
    BY DEF Loop
  <2>1. /\ purge.pc = "idle" /\ rq[r].role # "pool" /\ cache = o /\ cache # 0
        /\ \A q \in Requests : rq[q].role # "pool" /\ rq[q].pc \notin Saving
    BY DEF Loop, o
  <2>2. \A q \in Requests : rq'[q].pc \in Saving => q = r
    BY <1>1, <2>1 DEF RequestIs
  <2> QED  BY <1>1, <1>2, <1>3, <1>7, <1>8, <2>1, <2>2 DEF Loop, RequestIs
<1>13. Uploads'
  <2> SUFFICES ASSUME byLoop, ~purged, crashes = 0 PROVE Uploads'
    BY DEF Uploads
  <2>1. cache = o
    BY DEF Loop, o
  <2> QED  BY <1>1, <1>2, <1>3, <1>7, <1>8, <2>1 DEF Uploads, RequestIs
<1> QED  BY <1>9, <1>10, <1>11, <1>12, <1>13

\* The dump is what the object says.
LEMMA DumpKeeps ==
  ASSUME IInv, NEW r \in Requests, Dump(r)
  PROVE  IInv'
<1> USE SessionBounds
    DEF IInv, Dump, At, Holding, Saving, history, content, memory
<1>1. /\ RequestIs(r, rq[r].role, "write", rq[r].on, obj[rq[r].on])
      /\ rq' \in [Requests -> Request(made')]
  <2> DEFINE new == [rq[r] EXCEPT !.dumped = obj[rq[r].on], !.pc = "write"]
  <2>1. rq[r] \in Request(made) /\ made \in Nat /\ made' = made /\ made <= made'
    BY DEF Typed
  <2>2. rq[r].on \in 1..MaxObjects
    BY <2>1 DEF Orderly, Typed, Request
  <2>3. new \in Request(made')
    BY <2>1, <2>2 DEF Request, Places, Typed
  <2>4. /\ new.role = rq[r].role /\ new.pc = "write"
        /\ new.on = rq[r].on /\ new.dumped = obj[rq[r].on]
    BY <2>1 DEF Request
  <2>5. rq' = [rq EXCEPT ![r] = new]
    BY DEF Typed
  <2> HIDE DEF new
  <2>6. /\ RequestIs(r, new.role, new.pc, new.on, new.dumped)
        /\ rq' \in [Requests -> Request(made')]
    BY <2>1, <2>3, <2>5, RequestWritten
  <2> QED  BY <2>4, <2>6
<1>2. Typed'
  BY <1>1 DEF Typed
<1>3. Orderly'
  <2>1. created /\ rq[r].on # 0 /\ rq[r].role # "get" /\ r \notin acked
    BY DEF Orderly
  <2>2. \A q \in Requests \ {r} : rq'[q] = rq[q]
    BY <1>1 DEF RequestIs
  <2> QED  BY <1>1, <2>1, <2>2 DEF Orderly, RequestIs
<1>4. Erasure'
  BY <1>1 DEF Erasure, Writers, Gone, Orderly, RequestIs
<1>5. Loop'
  <2> SUFFICES ASSUME byLoop, ~purged PROVE Loop'
    BY DEF Loop
  <2>1. rq[r].role # "pool" /\ cache # 0 /\ rq[r].on = cache
    BY DEF Loop
  <2>2. rq[r].role # "upload" => obj[cache][r] = 2
    BY DEF Loop
  <2>3. \A q \in Requests \ {r} : rq[q].pc \notin Saving
    BY DEF Loop
  <2>4. \A q \in Requests \ {r} : rq'[q] = rq[q]
    BY <1>1 DEF RequestIs
  <2> QED  BY <1>1, <2>1, <2>2, <2>3, <2>4 DEF Loop, RequestIs
<1>6. Uploads'
  BY <1>1 DEF Uploads, RequestIs
<1> QED  BY <1>2, <1>3, <1>4, <1>5, <1>6

\* The snapshot is what was dumped; the edit is answered when it says so.
LEMMA ReplaceKeeps ==
  ASSUME IInv, NEW r \in Requests, Replace(r)
  PROVE  IInv'
<1> USE SessionBounds
    DEF IInv, Replace, At, Holding, Saving, history, content, memory
<1>1. CASE Over(r)
  <2>1. /\ RequestIs(r, "none", "done", 0, Blank)
        /\ rq' \in [Requests -> Request(made')]
    <3>1. rq' = [rq EXCEPT ![r] = Answered] /\ made' \in Nat /\ made <= made'
      BY <1>1 DEF Typed
    <3> QED  BY <3>1, IsAnswered
  <2>2. Typed'
    BY <1>1, <2>1 DEF Typed
  <2>3. Orderly'
    BY <1>1, <2>1 DEF Orderly, RequestIs
  <2>4. Erasure'
    BY <1>1, <2>1 DEF Erasure, Writers, Gone, Orderly, RequestIs
  <2>5. Loop'
    <3> SUFFICES ASSUME byLoop, ~purged PROVE Loop'
      BY DEF Loop
    <3>1. /\ cache # 0 /\ rq[r].on = cache /\ obj[cache][r] = 2
          /\ tmp = {rq[r].dumped} /\ rq[r].dumped = obj[cache]
      BY <1>1 DEF Loop, Over
    <3>2. main' = {obj[cache]} /\ acked' = acked \cup {r}
      BY <1>1, <3>1
    <3>3. \A q \in Requests : rq'[q].pc \notin Saving
      BY <2>1 DEF Loop, RequestIs
    <3>4. \A q \in acked' : obj[cache][q] = 2
      BY <3>1, <3>2 DEF Loop
    <3>5. \A q \in Requests :
            /\ rq'[q].role # "pool"
            /\ rq'[q].pc \in Holding => rq'[q].on = cache
      BY <2>1 DEF Loop, RequestIs
    <3>6. cache' = cache /\ obj' = obj /\ purge'.pc = "idle"
      BY DEF Loop
    <3>7. main' # {} /\ \A c \in main' : \A q \in acked' : c[q] = 2
      BY <3>2, <3>4
    <3> QED  BY <3>1, <3>3, <3>4, <3>5, <3>6, <3>7 DEF Loop
  <2>6. Uploads'
    <3> SUFFICES ASSUME byLoop, ~purged, crashes = 0 PROVE Uploads'
      BY DEF Uploads
    <3>1. obj[cache][r] = 2
      BY <1>1 DEF Loop, Over
    <3> QED  BY <2>1, <3>1 DEF Uploads, RequestIs
  <2> QED  BY <2>2, <2>3, <2>4, <2>5, <2>6
<1>2. CASE ~Over(r)
  <2>1. /\ RequestIs(r, rq[r].role, "index", rq[r].on, rq[r].dumped)
        /\ rq' \in [Requests -> Request(made')]
    <3>1. rq' = [rq EXCEPT ![r].pc = "index"] /\ made' = made
      BY <1>2 DEF Typed
    <3> QED  BY <3>1, Moved DEF Places
  <2>2. acked' = acked /\ rq[r].role = "upload"
    BY <1>2 DEF Over
  <2>3. Typed'
    BY <2>1, <2>2 DEF Typed
  <2>4. Orderly'
    BY <2>1, <2>2 DEF Orderly, RequestIs
  <2>5. Erasure'
    BY <2>1, <2>2 DEF Erasure, Writers, Gone, Orderly, RequestIs
  <2>6. Loop'
    <3> SUFFICES ASSUME byLoop, ~purged PROVE Loop'
      BY DEF Loop
    <3>1. /\ cache # 0 /\ rq[r].on = cache
          /\ tmp = {rq[r].dumped} /\ rq[r].dumped = obj[cache]
      BY DEF Loop
    <3>2. main' = {obj[cache]}
      BY <3>1
    <3>3. \A q \in Requests : rq'[q].pc \notin Saving
      BY <2>1 DEF Loop, RequestIs
    <3> QED  BY <2>1, <2>2, <3>1, <3>2, <3>3, ZenonT(30) DEF Loop, RequestIs
  <2>7. Uploads'
    BY <2>1, <2>2 DEF Uploads, RequestIs
  <2> QED  BY <2>3, <2>4, <2>5, <2>6, <2>7
<1> QED  BY <1>1, <1>2

\* An erasure begins: those who hold the session to write it are known.
LEMMA PurgeKeeps ==
  ASSUME IInv, NEW account \in BOOLEAN, Purge(account)
  PROVE  IInv'
<1> USE SessionBounds
    DEF IInv, Purge, At, Holding, Saving, history, content, memory
<1>1. /\ made' \in 0..MaxObjects /\ made <= made' /\ cache' \in 0..made'
      /\ main' \in SUBSET Contents /\ obj' \in [1..MaxObjects -> Contents]
      /\ \A o \in 1..MaxObjects : o > made' => obj'[o] = Blank
  <2>1. CASE account \/ cache # 0
    BY <2>1 DEF Typed, Orderly
  <2>2. CASE ~(account \/ cache # 0)
    <3> DEFINE c == IF main = {} THEN Blank ELSE CHOOSE x \in main : TRUE
    <3>1. c \in Contents
      BY BlankType DEF Typed
    <3>2. /\ made' = made + 1 /\ cache' = made + 1 /\ obj' = [obj EXCEPT ![made + 1] = c]
          /\ main' \in {main, {Blank}} /\ made + 1 \in 1..MaxObjects
      BY <2>2 DEF Typed
    <3> HIDE DEF c
    <3> QED  BY <3>1, <3>2, BlankType DEF Typed, Orderly
  <2> QED  BY <2>1, <2>2
<1>2. rq' \in [Requests -> Request(made')]
  BY <1>1 DEF Typed, Request
<1>3. purge' = [pc |-> "vectors", account |-> account, ok |-> TRUE] /\ purged'
  OBVIOUS
<1>4. late' \in BOOLEAN /\ (~late' => Writers' = {})
  BY DEF Writers
<1>5. Typed'
  BY <1>1, <1>2, <1>3, <1>4 DEF Typed
<1>6. Orderly'
  BY <1>1 DEF Orderly
<1>7. Erasure'
  BY <1>3, <1>4 DEF Erasure
<1>8. Loop' /\ Uploads'
  BY <1>3 DEF Loop, Uploads
<1> QED  BY <1>5, <1>6, <1>7, <1>8

\* A restart: nobody holds anything, and what is on disk stays.
LEMMA CrashKeeps ==
  ASSUME IInv, Crash
  PROVE  IInv'
<1> USE SessionBounds
    DEF IInv, Crash, At, Holding, Saving, history, content, memory
<1>1. Answered = [role |-> "none", pc |-> "done", on |-> 0, dumped |-> Blank]
  BY DEF Answered, NoRequest
<1>2. \A r \in Requests : \/ rq'[r] = rq[r] /\ rq[r].pc = "idle"
                          \/ rq'[r] = Answered /\ rq[r].pc # "idle"
  OBVIOUS
<1>3. rq' \in [Requests -> Request(made')]
  <2>1. Answered \in Request(made)
    BY <1>1, BlankType DEF Request, Places, Typed
  <2>2. \A r \in Requests : rq[r] \in Request(made)
    BY DEF Typed
  <2> HIDE DEF At
  <2> QED  BY <2>1, <2>2
<1>4. crashes' \in 0..MaxCrashes /\ crashes' # 0
  BY DEF Typed
<1>5. Typed'
  BY <1>3, <1>4 DEF Typed, NoPurge
<1>6. Orderly'
  BY <1>1, <1>2 DEF Orderly
<1>7. Erasure'
  BY <1>1, <1>2 DEF Erasure, Writers, Gone, NoPurge
<1>8. Loop'
  BY <1>1, <1>2 DEF Loop, NoPurge
<1>9. Uploads'
  BY <1>4 DEF Uploads
<1> QED  BY <1>5, <1>6, <1>7, <1>8, <1>9

\* Where Holds leaves a request: over, or with the object and on its way.
LEMMA HoldsLeads ==
  ASSUME Typed, NEW r \in Requests, made' \in Nat, made <= made',
         NEW o \in 0..made', NEW pc \in Places, Holds(r, o, pc)
  PROVE  /\ rq' \in [Requests -> Request(made')]
         /\ \/ RequestIs(r, "none", "done", 0, Blank)
            \/ /\ RequestIs(r, rq[r].role, pc, o, rq[r].dumped)
               /\ rq[r].role # "get" /\ pc # "done"
<1>1. CASE rq[r].role = "get" \/ pc = "done"
  <2>1. rq' = [rq EXCEPT ![r] = Answered]
    BY <1>1 DEF Holds
  <2> QED  BY <2>1, IsAnswered
<1>2. CASE ~(rq[r].role = "get" \/ pc = "done")
  <2> DEFINE new == [rq[r] EXCEPT !.on = o, !.pc = pc]
  <2>1. rq[r] \in Request(made) /\ made \in Nat
    BY SessionBounds DEF Typed
  <2>2. new \in Request(made')
    BY <2>1 DEF Request
  <2>3. new.role = rq[r].role /\ new.pc = pc /\ new.on = o /\ new.dumped = rq[r].dumped
    BY <2>1 DEF Request
  <2>4. rq' = [rq EXCEPT ![r] = new]
    BY <1>2 DEF Holds, Typed
  <2> HIDE DEF new
  <2>5. /\ RequestIs(r, new.role, new.pc, new.on, new.dumped)
        /\ rq' \in [Requests -> Request(made')]
    BY <2>2, <2>4, RequestWritten
  <2> QED  BY <1>2, <2>3, <2>5
<1> QED  BY <1>1, <1>2

\* What get_session found: the memory, the snapshot, the vectors or nothing.
FromMemory(r) ==
  /\ cache # 0 /\ UNCHANGED <<memory, main>>
  /\ \E pc \in {"edit", "task", "done"} : Holds(r, cache, pc)

FromSnapshot(r) ==
  /\ cache = 0 /\ UNCHANGED main
  /\ made < MaxObjects /\ made' = made + 1
  /\ \E c \in main : obj' = [obj EXCEPT ![made + 1] = c]
  /\ IF rq[r].role = "pool" THEN cache' = 0 /\ Holds(r, made + 1, "put")
     ELSE cache' = made + 1 /\ \E pc \in {"edit", "task", "done"} : Holds(r, made + 1, pc)

FromVectors(r) ==
  /\ cache = 0 /\ main = {} /\ vectors /\ main' = {Blank} /\ UNCHANGED obj
  /\ made < MaxObjects /\ made' = made + 1 /\ cache' = made + 1
  /\ \E pc \in {"edit", "task", "done"} : Holds(r, made + 1, pc)

NotFound(r) ==
  /\ cache = 0 /\ main = {} /\ ~vectors /\ UNCHANGED <<memory, main>>
  /\ rq' = [rq EXCEPT ![r] = Answered]

LEMMA LoadFinds ==
  ASSUME Typed, NEW r \in Requests, Load(r)
  PROVE  /\ FromMemory(r) \/ FromSnapshot(r) \/ FromVectors(r) \/ NotFound(r)
         /\ rq[r].pc \in {"load", "task"} /\ dir' /\ late' = (late \/ purge.pc # "idle")
         /\ UNCHANGED <<owner, tmp, vectors, outputs, purge, acked, created, purged, residual,
                        byLoop, failures, crashes>>
<1> USE DEF Load, memory
<1>0. \A c : From(r, c) \in {"edit", "task", "done"}
  BY DEF From
<1>1. CASE cache # 0
  BY <1>0, <1>1 DEF FromMemory
<1>2. CASE cache = 0 /\ main # {}
  BY <1>0, <1>2 DEF FromSnapshot, Keeps
<1>3. CASE cache = 0 /\ main = {} /\ vectors
  BY <1>0, <1>3 DEF FromVectors
<1>4. CASE cache = 0 /\ main = {} /\ ~vectors
  BY <1>4 DEF NotFound
<1> QED  BY <1>1, <1>2, <1>3, <1>4

\* What a load leaves: a request that is over, one on its way with the object in the
\* store, or one of the pool that is to put its object there.
LEMMA LoadLeaves ==
  ASSUME Typed, NEW r \in Requests,
         FromMemory(r) \/ FromSnapshot(r) \/ FromVectors(r) \/ NotFound(r)
  PROVE  /\ made' \in 0..MaxObjects /\ made <= made' /\ cache' \in 0..made'
         /\ obj' \in [1..MaxObjects -> Contents] /\ main' \in SUBSET Contents
         /\ \A o \in 1..MaxObjects : o # made' \/ made' = made => obj'[o] = obj[o]
         /\ rq' \in [Requests -> Request(made')]
         /\ \/ RequestIs(r, "none", "done", 0, Blank)
            \/ /\ rq[r].role # "get" /\ cache' # 0
               /\ \E pc \in {"edit", "task"} : RequestIs(r, rq[r].role, pc, cache', rq[r].dumped)
            \/ /\ rq[r].role = "pool" /\ made' # 0
               /\ RequestIs(r, rq[r].role, "put", made', rq[r].dumped)
<1> USE SessionBounds, BlankType DEF Typed, memory
<1>1. CASE FromMemory(r)
  <2>1. PICK pc \in {"edit", "task", "done"} : Holds(r, cache, pc)
    BY <1>1 DEF FromMemory
  <2>2. made' \in Nat /\ made <= made' /\ cache \in 0..made' /\ pc \in Places /\ cache' = cache
    BY <1>1 DEF FromMemory, Places
  <2>3. /\ rq' \in [Requests -> Request(made')]
        /\ \/ RequestIs(r, "none", "done", 0, Blank)
           \/ /\ RequestIs(r, rq[r].role, pc, cache, rq[r].dumped)
              /\ rq[r].role # "get" /\ pc # "done"
    BY <2>1, <2>2, HoldsLeads
  <2> QED  BY <1>1, <2>2, <2>3 DEF FromMemory
<1>2. CASE FromSnapshot(r)
  <2>1. /\ made' = made + 1 /\ made' \in 1..MaxObjects /\ main' = main
        /\ cache' \in {0, made'} /\ made <= made' /\ made' \in Nat
    BY <1>2 DEF FromSnapshot
  <2>2. /\ obj' \in [1..MaxObjects -> Contents]
        /\ \A o \in 1..MaxObjects : o # made' => obj'[o] = obj[o]
    BY <1>2, <2>1 DEF FromSnapshot
  <2>3. PICK pc \in {"put", "edit", "task", "done"} :
          /\ Holds(r, made', pc)
          /\ IF rq[r].role = "pool" THEN pc = "put" ELSE pc # "put" /\ cache' = made'
    BY <1>2, <2>1 DEF FromSnapshot
  <2>4. made' \in 0..made' /\ pc \in Places
    BY <2>1 DEF Places
  <2>5. /\ rq' \in [Requests -> Request(made')]
        /\ \/ RequestIs(r, "none", "done", 0, Blank)
           \/ /\ RequestIs(r, rq[r].role, pc, made', rq[r].dumped)
              /\ rq[r].role # "get" /\ pc # "done"
    BY <2>1, <2>3, <2>4, HoldsLeads
  <2> QED  BY <2>1, <2>2, <2>3, <2>5
<1>3. CASE FromVectors(r)
  <2>1. /\ made' = made + 1 /\ made' \in 1..MaxObjects /\ main' = {Blank} /\ obj' = obj
        /\ cache' = made' /\ made <= made' /\ made' \in Nat /\ made' \in 0..made'
    BY <1>3 DEF FromVectors
  <2>2. PICK pc \in {"edit", "task", "done"} : Holds(r, made', pc)
    BY <1>3, <2>1 DEF FromVectors
  <2>3. pc \in Places
    BY DEF Places
  <2>4. /\ rq' \in [Requests -> Request(made')]
        /\ \/ RequestIs(r, "none", "done", 0, Blank)
           \/ /\ RequestIs(r, rq[r].role, pc, made', rq[r].dumped)
              /\ rq[r].role # "get" /\ pc # "done"
    BY <2>1, <2>2, <2>3, HoldsLeads
  <2> QED  BY <2>1, <2>4
<1>4. CASE NotFound(r)
  <2>1. made' \in Nat /\ made <= made'
    BY <1>4 DEF NotFound
  <2>2. /\ RequestIs(r, "none", "done", 0, Blank)
        /\ rq' \in [Requests -> Request(made')]
    BY <1>4, <2>1, IsAnswered DEF NotFound
  <2> QED  BY <1>4, <2>2 DEF NotFound
<1> QED  BY <1>1, <1>2, <1>3, <1>4

\* A session is loaded: an erasure under way will know of it, and the loop's requests
\* all get the same object.
LEMMA LoadKeeps ==
  ASSUME IInv, NEW r \in Requests, Load(r)
  PROVE  IInv'
<1> USE SessionBounds DEF IInv, At, Holding, Saving
<1>1. /\ FromMemory(r) \/ FromSnapshot(r) \/ FromVectors(r) \/ NotFound(r)
      /\ rq[r].pc \in {"load", "task"} /\ dir' /\ late' = (late \/ purge.pc # "idle")
      /\ UNCHANGED <<owner, tmp, vectors, outputs, purge, acked, created, purged, residual,
                     byLoop, failures, crashes>>
  BY LoadFinds
<1>2. /\ made' \in 0..MaxObjects /\ made <= made' /\ cache' \in 0..made'
      /\ obj' \in [1..MaxObjects -> Contents] /\ main' \in SUBSET Contents
      /\ \A o \in 1..MaxObjects : o # made' \/ made' = made => obj'[o] = obj[o]
      /\ rq' \in [Requests -> Request(made')]
  BY <1>1, LoadLeaves
<1>3. \/ RequestIs(r, "none", "done", 0, Blank)
      \/ /\ rq[r].role # "get" /\ cache' # 0
         /\ \E pc \in {"edit", "task"} : RequestIs(r, rq[r].role, pc, cache', rq[r].dumped)
      \/ /\ rq[r].role = "pool" /\ made' # 0
         /\ RequestIs(r, rq[r].role, "put", made', rq[r].dumped)
  BY <1>1, LoadLeaves
<1>4. Typed'
  <2>1. dir' \in BOOLEAN /\ late' \in BOOLEAN
    BY <1>1 DEF Typed, Load
  <2> QED  BY <1>1, <1>2, <2>1 DEF Typed
<1>5. Orderly'
  <2>1. \A q \in Requests : q # r => rq'[q] = rq[q]
    BY <1>3 DEF RequestIs
  <2>2. /\ rq[r].pc # "done" /\ created
        /\ rq'[r].pc \in Holding \cup {"put"} => rq'[r].on # 0 /\ rq'[r].role # "get"
        /\ ~At(r, "index")'
        /\ At(r, "put")' => rq'[r].role = "pool"
    BY <1>1, <1>3 DEF RequestIs, Orderly
  <2>3. \A o \in 1..MaxObjects : o > made' => obj'[o] = Blank
    BY <1>2 DEF Orderly, Typed
  <2> QED  BY <1>1, <2>1, <2>2, <2>3 DEF Orderly
<1>6. Erasure'
  <2>1. CASE late'
    BY <1>1, <2>1 DEF Erasure
  <2>2. CASE ~late' /\ (owner \/ residual)
    BY <1>1, <2>2 DEF Erasure
  <2>3. CASE ~late' /\ ~owner /\ ~residual
    <3>1. Gone /\ Writers = {} /\ purge.pc = "idle"
      BY <1>1, <2>3 DEF Erasure
    <3>2. NotFound(r)
      BY <1>1, <3>1 DEF Gone, FromMemory, FromSnapshot, FromVectors
    <3>3. made' \in Nat /\ made <= made'
      BY <1>2
    <3>4. RequestIs(r, "none", "done", 0, Blank) /\ UNCHANGED <<memory, main>>
      BY <3>2, <3>3, IsAnswered DEF NotFound
    <3>5. Gone' /\ Writers' = {}
      BY <1>1, <3>1, <3>4 DEF Gone, Writers, RequestIs, memory
    <3> QED  BY <1>1, <2>3, <3>1, <3>5 DEF Erasure
  <2> QED  BY <2>1, <2>2, <2>3
<1>7. Loop'
  <2> SUFFICES ASSUME byLoop, ~purged PROVE Loop'
    BY <1>1 DEF Loop
  <2>1. /\ purge.pc = "idle" /\ rq[r].role # "pool"
        /\ \A q \in Requests : q # r => rq'[q] = rq[q]
        /\ rq'[r].role # "pool" /\ rq'[r].pc \notin Saving
        /\ rq'[r].pc \in Holding => cache' # 0 /\ rq'[r].on = cache'
    BY <1>3 DEF Loop, RequestIs
  <2>2. /\ \A q \in Requests : rq[q].pc \in Holding => cache' = cache /\ obj'[cache] = obj[cache]
        /\ cache # 0 => obj' = obj /\ cache' = cache
    BY <1>1 DEF Loop, FromMemory, FromSnapshot, FromVectors, NotFound, memory
  <2>3. \A q \in acked : /\ cache' # 0 => obj'[cache'][q] = 2
                         /\ main' # {} /\ \A c \in main' : c[q] = 2
    <3>1. CASE FromMemory(r) \/ NotFound(r)
      BY <3>1 DEF Loop, FromMemory, NotFound, memory
    <3>2. CASE FromSnapshot(r)
      BY <2>1, <3>2 DEF Loop, FromSnapshot, Typed
    <3>3. CASE FromVectors(r)
      BY <3>3 DEF Loop, FromVectors
    <3> QED  BY <1>1, <3>1, <3>2, <3>3
  <2> QED  BY <1>1, <2>1, <2>2, <2>3 DEF Loop
<1>8. Uploads'
  <2> SUFFICES ASSUME byLoop, ~purged, crashes = 0 PROVE Uploads'
    BY <1>1 DEF Uploads
  <2>1. cache # 0 /\ obj[cache][r] # 1
    BY <1>1 DEF Uploads, Orderly
  <2>2. obj' = obj /\ cache' = cache
    BY <1>1, <2>1 DEF FromMemory, FromSnapshot, FromVectors, NotFound, memory
  <2>3. \A q \in Requests : q # r => rq'[q] = rq[q]
    BY <1>3 DEF RequestIs
  <2> QED  BY <1>1, <2>1, <2>2, <2>3 DEF Uploads
<1> QED  BY <1>4, <1>5, <1>6, <1>7, <1>8

-----------------------------------------------------------------------------
(* The invariant.                                                           *)

LEMMA IInvInit == Init => IInv
<1> SUFFICES ASSUME Init PROVE IInv  OBVIOUS
<1> USE SessionBounds DEF Init, At, Holding, Saving, NoRequest, NoPurge
<1>1. Typed
  <2>1. rq \in [Requests -> Request(made)] /\ obj \in [1..MaxObjects -> Contents]
    BY BlankType DEF Request, Places
  <2>2. /\ made \in 0..MaxObjects /\ cache \in 0..made
        /\ failures \in 0..MaxFailures /\ crashes \in 0..MaxCrashes
    OBVIOUS
  <2> QED  BY <2>1, <2>2 DEF Typed
<1>2. Orderly
  BY DEF Orderly
<1>3. Erasure
  BY DEF Erasure, Writers, Gone
<1>4. Loop
  BY DEF Loop
<1>5. Uploads
  BY DEF Uploads
<1> QED  BY <1>1, <1>2, <1>3, <1>4, <1>5 DEF IInv

LEMMA IInvStutters ==
  ASSUME IInv, UNCHANGED vars
  PROVE  IInv'
<1> USE DEF IInv, vars, content, memory, history, At
<1>1. Typed' /\ Orderly'
  BY DEF Typed, Orderly
<1>2. Erasure'
  BY DEF Erasure, Writers, Gone
<1>3. Loop' /\ Uploads'
  BY DEF Loop, Uploads
<1> QED  BY <1>1, <1>2, <1>3

LEMMA IInvStep == IInv /\ [Next]_vars => IInv'
<1> SUFFICES ASSUME IInv, [Next]_vars PROVE IInv'  OBVIOUS
<1>1. CASE Create
  BY <1>1, CreateKeeps
<1>2. CASE CreateDies
  BY <1>2, CreateDiesKeeps
<1>3. ASSUME NEW r \in Requests, NEW role \in Roles, Arrive(r, role) PROVE IInv'
  BY <1>3, ArriveKeeps
<1>4. ASSUME NEW r \in Requests, Load(r) PROVE IInv'
  BY <1>4, LoadKeeps
<1>5. ASSUME NEW r \in Requests, Put(r) PROVE IInv'
  BY <1>5, PutKeeps
<1>6. ASSUME NEW r \in Requests, Edit(r) PROVE IInv'
  BY <1>6, EditKeeps
<1>7. ASSUME NEW r \in Requests, Dump(r) PROVE IInv'
  BY <1>7, DumpKeeps
<1>8. ASSUME NEW r \in Requests, Write(r) PROVE IInv'
  BY <1>8, WriteKeeps
<1>9. ASSUME NEW r \in Requests, Replace(r) PROVE IInv'
  BY <1>9, ReplaceKeeps
<1>10. ASSUME NEW r \in Requests, Index(r) PROVE IInv'
  BY <1>10, IndexKeeps
<1>11. ASSUME NEW account \in BOOLEAN, Purge(account) PROVE IInv'
  BY <1>11, PurgeKeeps
<1>12. CASE PurgeVectors
  BY <1>12, PurgeVectorsKeeps
<1>13. CASE PurgeTree
  BY <1>13, PurgeTreeKeeps
<1>14. CASE PurgeOutputs
  BY <1>14, PurgeOutputsKeeps
<1>15. CASE Evict
  BY <1>15, EvictKeeps
<1>16. CASE Forget
  BY <1>16, ForgetKeeps
<1>17. CASE Crash
  BY <1>17, CrashKeeps
<1>18. CASE UNCHANGED vars
  BY <1>18, IInvStutters
<1> QED
  BY <1>1, <1>2, <1>3, <1>4, <1>5, <1>6, <1>7, <1>8, <1>9, <1>10,
     <1>11, <1>12, <1>13, <1>14, <1>15, <1>16, <1>17, <1>18 DEF Next

\* The row, the object, the files and the requests keep their types, and the facts above
\* hold of every reachable state.
THEOREM SessionInvariant == Spec => []IInv
<1>1. Init => IInv
  BY IInvInit
<1>2. IInv /\ [Next]_vars => IInv'
  BY IInvStep
<1> QED  BY <1>1, <1>2, PTL DEF Spec

\* A session whose row is gone is gone: whatever was erased, failed, restarted or read
\* meanwhile, unless the owner was told or a request that writes was in flight.
THEOREM NothingIsOrphaned == Spec => []UnownedIsGone
<1>1. IInv => UnownedIsGone
  BY DEF IInv, Erasure, Gone, UnownedIsGone
<1> QED  BY <1>1, SessionInvariant, PTL

\* The event loop loses no answered edit, to another request's save or to a restart.
THEOREM EditsSurvive == Spec => []AnsweredIsKept
<1>1. IInv => AnsweredIsKept
  BY DEF IInv, Loop, AnsweredIsKept
<1> QED  BY <1>1, SessionInvariant, PTL

\* A session that refuses uploads has one under way.
THEOREM RefusalHasAnUpload == Spec => []BusyIsProcessing
<1>1. ASSUME IInv, byLoop, ~purged, crashes = 0, cache # 0, NEW s \in Requests, obj[cache][s] = 1
      PROVE  rq[s].role = "upload" /\ rq[s].pc # "done"
  BY <1>1 DEF IInv, Uploads, Holding, Saving
<1>2. IInv => BusyIsProcessing
  BY <1>1 DEF BusyIsProcessing, Busy
<1> QED  BY <1>2, SessionInvariant, PTL
===============================================================================
