----------------------------- MODULE SessionLife ------------------------------
(***************************************************************************)
(* One session from its creation to its erasure: the owner's row, the      *)
(* object in memory, the snapshot on disk, the vectors of its uploads and  *)
(* the platform's tree; and the requests, the upload pipeline and the      *)
(* purge that hold one of them while another changes.  Handlers on the     *)
(* event loop interleave only where they await, those of the thread pool   *)
(* anywhere.                                                               *)
(***************************************************************************)
EXTENDS Naturals, FiniteSets

CONSTANTS
  Requests,     \* the requests made, each with its one edit
  MaxObjects,   \* bound on the loads of the session into memory
  MaxFailures,  \* bound on the trees and collections that cannot be removed
  MaxCrashes    \* bound on the restarts of the server

ASSUME SessionBounds == MaxObjects \in Nat /\ MaxFailures \in Nat /\ MaxCrashes \in Nat

VARIABLES
  owner,      \* the session's row in session_owners
  cache,      \* _session_store: the object it names, 0 for none
  obj, made,  \* what each object in memory says; how many there have been
  main, tmp,  \* state.json and state.json.tmp: nothing, or what the file says
  dir,        \* the session's directory
  vectors,    \* its collection in Chroma
  outputs,    \* the platform's workspace under factory_outputs
  purge,      \* the erasure under way: where, whose, whether all went well
  rq,         \* request -> its role, where it is, the object it holds, what it dumped
  acked,      \* history: edits whose request was answered
  created, purged, late, residual,  \* history: see Init
  byLoop, failures, crashes

content == <<main, tmp, dir, vectors, outputs>>
memory == <<cache, obj, made>>
history == <<acked, created, purged, late, residual, byLoop, failures, crashes>>
vars == <<owner, content, memory, purge, rq, history>>

\* What a session says of each request: nothing, begun (an upload being processed), all.
Contents == [Requests -> 0..2]
Blank == [r \in Requests |-> 0]

\* get: reads only.  edit: an async handler.  upload: the request, then its background
\* pipeline.  pool: a handler on a thread of the pool.
Roles == {"get", "edit", "upload", "pool"}

NoPurge == [pc |-> "idle", account |-> FALSE, ok |-> TRUE]
NoRequest == [role |-> "none", pc |-> "idle", on |-> 0, dumped |-> Blank]
Answered == [NoRequest EXCEPT !.pc = "done"]

Init ==
  /\ owner = FALSE /\ cache = 0 /\ made = 0
  /\ obj = [o \in 1..MaxObjects |-> Blank]
  /\ main = {} /\ tmp = {} /\ dir = FALSE /\ vectors = FALSE /\ outputs = FALSE
  /\ purge = NoPurge
  /\ rq = [r \in Requests |-> NoRequest]
  /\ acked = {} /\ created = FALSE
  /\ purged = FALSE    \* an erasure has begun
  /\ late = FALSE      \* a request that writes was in flight at the erasure
  /\ residual = FALSE  \* the owner was told that content is left
  /\ byLoop = TRUE     \* no handler of the pool has run
  /\ failures = 0 /\ crashes = 0

At(r, pc) == rq[r].pc = pc
Saving == {"dump", "write", "replace"}

\* A handler of the loop runs from await to await; a purge and a save have none.
LoopFree ==
  /\ purge.pc = "idle"
  /\ \A r \in Requests : rq[r].role # "pool" => rq[r].pc \notin Saving
MayRun(r) == rq[r].role = "pool" \/ LoopFree

-----------------------------------------------------------------------------
(* Creation: the owner's row, then the object, then its snapshot.           *)

Create ==
  /\ ~created /\ made < MaxObjects /\ LoopFree
  /\ created' = TRUE /\ owner' = TRUE
  /\ made' = made + 1 /\ cache' = made + 1
  /\ main' = {Blank} /\ dir' = TRUE /\ outputs' = TRUE
  /\ UNCHANGED <<tmp, vectors, obj, purge, rq, acked, purged, late, residual, byLoop,
                 failures, crashes>>

\* Mutant of CreateDies: the snapshot first, the row afterwards.
CreateDiesUnowned ==
  /\ ~created /\ crashes < MaxCrashes /\ crashes' = crashes + 1
  /\ created' = TRUE /\ main' = {Blank} /\ dir' = TRUE
  /\ UNCHANGED <<owner, memory, tmp, vectors, outputs, purge, rq, acked, purged, late,
                 residual, byLoop, failures>>

\* The process ends between the row and the snapshot.
CreateDies ==
  /\ ~created /\ crashes < MaxCrashes /\ crashes' = crashes + 1
  /\ created' = TRUE /\ owner' = TRUE
  /\ UNCHANGED <<content, memory, purge, rq, acked, purged, late, residual, byLoop, failures>>

-----------------------------------------------------------------------------
(* A request.                                                               *)

\* Mutant of Keeps: a loaded session is not put into the store.
KeepsNothing(r, o) == UNCHANGED cache

\* get_session puts what it loaded into the store; a thread does so one step later.
Keeps(r, o) == IF rq[r].role = "pool" THEN UNCHANGED cache ELSE cache' = o

Arrive(r, role) ==
  /\ created /\ At(r, "idle")
  /\ rq' = [rq EXCEPT ![r].role = role, ![r].pc = "load"]
  /\ byLoop' = (byLoop /\ role # "pool")
  /\ UNCHANGED <<owner, content, memory, purge, acked, created, purged, late, residual,
                 failures, crashes>>

\* Where a request goes with its session: a read is answered at once.
Holds(r, o, pc) ==
  rq' = [rq EXCEPT ![r] = IF rq[r].role = "get" \/ pc = "done" THEN Answered
                          ELSE [@ EXCEPT !.on = o, !.pc = pc]]

\* An upload is refused while one is processed.
Busy(c) == \E s \in Requests : c[s] = 1

\* The door of an upload leaves the session to the background task, which asks again.
From(r, c) == IF rq[r].role # "upload" \/ At(r, "task") THEN "edit"
              ELSE IF Busy(c) THEN "done" ELSE "task"

\* get_session: the memory, the snapshot, or what the vectors give.  A session rebuilt
\* from them without an owner is nobody's; it is stored all the same.
Load(r) ==
  /\ rq[r].pc \in {"load", "task"} /\ MayRun(r)
  /\ CASE cache # 0 ->
            /\ Holds(r, cache, From(r, obj[cache]))
            /\ UNCHANGED <<owner, main, tmp, vectors, outputs, memory>>
       [] cache = 0 /\ main # {} ->
            /\ made < MaxObjects /\ made' = made + 1
            /\ \E c \in main :
                 /\ obj' = [obj EXCEPT ![made + 1] = c]
                 /\ Holds(r, made + 1, IF rq[r].role = "pool" THEN "put" ELSE From(r, c))
            /\ Keeps(r, made + 1)
            /\ UNCHANGED <<owner, main, tmp, vectors, outputs>>
       [] cache = 0 /\ main = {} /\ vectors ->
            /\ made < MaxObjects /\ made' = made + 1
            /\ cache' = made + 1 /\ main' = {Blank}
            /\ Holds(r, made + 1, IF owner THEN From(r, Blank) ELSE "done")
            /\ UNCHANGED <<owner, tmp, vectors, outputs, obj>>
       [] OTHER ->
            /\ rq' = [rq EXCEPT ![r] = Answered]
            /\ UNCHANGED <<owner, main, tmp, vectors, outputs, memory>>
  /\ dir' = TRUE /\ late' = (late \/ purge.pc # "idle")
  /\ UNCHANGED <<purge, acked, created, purged, residual, byLoop, failures, crashes>>

\* The other half of a thread's load: whatever is in the store now is replaced.
Put(r) ==
  /\ At(r, "put") /\ cache' = rq[r].on
  /\ rq' = [rq EXCEPT ![r].pc = "edit"]
  /\ UNCHANGED <<owner, content, obj, made, purge, history>>

\* An upload first says it is being processed, and at its end that it is done.
Says(r) == IF rq[r].role = "upload" /\ obj[rq[r].on][r] = 0 THEN 1 ELSE 2

\* The handler changes the object it holds and calls update_session.
Edit(r) ==
  /\ At(r, "edit") /\ MayRun(r)
  /\ obj' = [obj EXCEPT ![rq[r].on][r] = Says(r)]
  /\ cache' = rq[r].on
  /\ rq' = [rq EXCEPT ![r].pc = "dump"]
  /\ UNCHANGED <<owner, content, made, purge, history>>

\* save_session_state: dump, make the directory, write the temporary file, rename it.
Dump(r) ==
  /\ At(r, "dump") /\ dir' = TRUE
  /\ rq' = [rq EXCEPT ![r].dumped = obj[rq[r].on], ![r].pc = "write"]
  /\ UNCHANGED <<owner, main, tmp, vectors, outputs, memory, purge, history>>

Write(r) ==
  /\ At(r, "write")
  /\ tmp' = IF dir THEN {rq[r].dumped} ELSE {}
  /\ rq' = [rq EXCEPT ![r].pc = "replace"]
  /\ UNCHANGED <<owner, main, dir, vectors, outputs, memory, purge, history>>

\* Mutant of Over: the pipeline is not heard of again.
OverAtOnce(r) == TRUE

\* After its first save an upload goes on to its index; everything else is over.
Over(r) == rq[r].role # "upload" \/ obj[rq[r].on][r] = 2

\* Two savers share the temporary file; one that finds it gone logs the error and goes on.
Replace(r) ==
  /\ At(r, "replace")
  /\ main' = IF tmp = {} THEN main ELSE tmp
  /\ tmp' = {}
  /\ rq' = [rq EXCEPT ![r] = IF Over(r) THEN Answered ELSE [@ EXCEPT !.pc = "index"]]
  /\ acked' = IF Over(r) THEN acked \cup {r} ELSE acked
  /\ UNCHANGED <<owner, dir, vectors, outputs, memory, purge, created, purged, late, residual,
                 byLoop, failures, crashes>>

\* store_chunks, when the embeddings are there.
Index(r) ==
  /\ At(r, "index") /\ LoopFree
  /\ vectors' = TRUE /\ rq' = [rq EXCEPT ![r].pc = "edit"]
  /\ UNCHANGED <<owner, main, tmp, dir, outputs, memory, purge, history>>

-----------------------------------------------------------------------------
(* Erasure, of the session or with its account: one handler, never awaiting *)
(* but beside the threads of the pool.                                      *)

Loadable == cache # 0 \/ main # {} \/ vectors

PurgeAt(pc) == purge.pc = pc
Goes(pc, ok) == purge' = [purge EXCEPT !.pc = pc, !.ok = @ /\ ok]

\* Those that hold the session to write it.
Writers == {r \in Requests : rq[r].role # "get" /\ rq[r].pc \notin {"idle", "load", "task", "done"}}

\* The owner's Delete needs the session, the account's erasure only its row.
Purge(account) ==
  /\ created /\ owner /\ LoopFree
  /\ account \/ Loadable
  /\ IF account \/ cache # 0 THEN UNCHANGED <<memory, main>>
     ELSE /\ made < MaxObjects /\ made' = made + 1 /\ cache' = made + 1
          /\ obj' = [obj EXCEPT ![made + 1] = IF main = {} THEN Blank ELSE CHOOSE c \in main : TRUE]
          /\ main' = IF main = {} THEN {Blank} ELSE main
  /\ purge' = [pc |-> "vectors", account |-> account, ok |-> TRUE]
  /\ purged' = TRUE /\ late' = (Writers # {})
  /\ UNCHANGED <<owner, tmp, dir, vectors, outputs, rq, acked, created, residual, byLoop,
                 failures, crashes>>

\* A category that could not be removed is reported, and the next one is tried.
Fails == failures < MaxFailures /\ failures' = failures + 1

PurgeVectors ==
  /\ PurgeAt("vectors")
  /\ \/ Goes("tree", TRUE) /\ vectors' = FALSE /\ UNCHANGED failures
     \/ Goes("tree", FALSE) /\ Fails /\ UNCHANGED vectors
  /\ UNCHANGED <<owner, main, tmp, dir, outputs, memory, rq, acked, created, purged, late,
                 residual, byLoop, crashes>>

PurgeTree ==
  /\ PurgeAt("tree")
  /\ \/ /\ Goes("outputs", TRUE)
        /\ main' = {} /\ tmp' = {} /\ dir' = FALSE /\ UNCHANGED failures
     \/ /\ Goes("outputs", FALSE) /\ Fails
        /\ main' \in {main, {}} /\ UNCHANGED <<tmp, dir>>
  /\ UNCHANGED <<owner, vectors, outputs, memory, rq, acked, created, purged, late, residual,
                 byLoop, crashes>>

\* An account's erasure does not reach factory_outputs.
PurgeOutputs ==
  /\ PurgeAt("outputs")
  /\ \/ /\ Goes("evict", TRUE) /\ UNCHANGED failures
        /\ outputs' = (outputs /\ purge.account)
     \/ ~purge.account /\ Goes("evict", FALSE) /\ Fails /\ UNCHANGED outputs
  /\ UNCHANGED <<owner, main, tmp, dir, vectors, memory, rq, acked, created, purged, late,
                 residual, byLoop, crashes>>

Evicted == cache' = 0

Evict ==
  /\ PurgeAt("evict") /\ Evicted /\ Goes("forget", TRUE)
  /\ UNCHANGED <<owner, content, obj, made, rq, history>>

\* The session's row goes last and only if all the rest did; the account's always.
Forgets == purge.ok \/ purge.account

Forget ==
  /\ PurgeAt("forget")
  /\ owner' = (owner /\ ~Forgets)
  /\ residual' = (residual \/ (Forgets /\ purge.account /\ ~purge.ok))
  /\ purge' = NoPurge
  /\ UNCHANGED <<content, memory, rq, acked, created, purged, late, byLoop, failures, crashes>>

\* A restart: memory is gone, and with it the requests and the purge.
Crash ==
  /\ crashes < MaxCrashes /\ crashes' = crashes + 1
  /\ cache' = 0 /\ purge' = NoPurge
  /\ rq' = [r \in Requests |-> IF At(r, "idle") THEN rq[r] ELSE Answered]
  /\ UNCHANGED <<owner, content, obj, made, acked, created, purged, late, residual, byLoop,
                 failures>>

Next ==
  \/ Create \/ CreateDies
  \/ \E r \in Requests :
       \/ \E role \in Roles : Arrive(r, role)
       \/ Load(r) \/ Put(r) \/ Edit(r) \/ Dump(r) \/ Write(r) \/ Replace(r) \/ Index(r)
  \/ \E account \in BOOLEAN : Purge(account)
  \/ PurgeVectors \/ PurgeTree \/ PurgeOutputs \/ Evict \/ Forget
  \/ Crash

Spec == Init /\ [][Next]_vars

-----------------------------------------------------------------------------

TypeOK ==
  /\ {owner, dir, vectors, outputs, created, purged, late, residual, byLoop} \subseteq BOOLEAN
  /\ made \in 0..MaxObjects /\ cache \in 0..made
  /\ obj \in [1..MaxObjects -> Contents]
  /\ main \in SUBSET Contents /\ tmp \in SUBSET Contents
  /\ purge.pc \in {"idle", "vectors", "tree", "outputs", "evict", "forget"}
  /\ \A r \in Requests :
       /\ rq[r].pc \in {"idle", "load", "task", "put", "edit", "index", "done"} \cup Saving
       /\ rq[r].on \in 0..made /\ rq[r].dumped \in Contents
       /\ At(r, "index") => rq[r].role = "upload"
       /\ At(r, "put") => rq[r].role = "pool"
  /\ acked \in SUBSET Requests
  /\ failures \in 0..MaxFailures /\ crashes \in 0..MaxCrashes

\* Nothing of a session is left that nobody could find again: without its row it is not
\* in memory and has neither snapshot nor vectors, unless the owner was told so or a
\* request that writes was in flight at its erasure -- reads may come at any moment.
UnownedIsGone ==
  ~owner /\ ~late /\ ~residual => cache = 0 /\ main = {} /\ tmp = {} /\ ~vectors

\* With the handlers of the event loop alone, an edit that was answered survives every
\* other request and every restart: it is in memory when the session is, and on disk.
AnsweredIsKept ==
  byLoop /\ ~purged =>
    \A r \in acked :
      /\ cache # 0 => obj[cache][r] = 2
      /\ main # {} /\ \A c \in main : c[r] = 2

\* ... and a session that refuses uploads because one is processed has one, or lost it
\* to a restart.
BusyIsProcessing ==
  byLoop /\ ~purged /\ crashes = 0 /\ cache # 0 /\ Busy(obj[cache]) =>
    \E r \in Requests : rq[r].role = "upload" /\ rq[r].pc # "done"

(* What the repository says and the code does not keep.                      *)

\* A partial failure "leaves the session still listed and deletable again"; one that
\* removed snapshot and vectors leaves a row whose session Delete cannot load.
PartialStaysDeletable ==
  purged /\ owner /\ purge.pc = "idle" /\ failures > 0 => Loadable
=============================================================================
