----------------------------- MODULE Synchronizer -----------------------------
(***************************************************************************)
(* The queue machinery of core/textile/sync: two linked lists of *Task, a  *)
(* hash map that drops duplicate notifications, one loop per list that     *)
(* makes passes over it, the goroutines a pass starts, Shutdown, the queue *)
(* saved in the store, and RestoreQueue of the next synchronizer.          *)
(*                                                                         *)
(* What an executor does to buckets and mirrors is left to MirrorSync:     *)
(* here it enqueues tasks and returns an error or nil.                     *)
(*                                                                         *)
(* Abstractions.  Task objects are members of Obj, so that two list        *)
(* elements may share one.  syncNeeded holds no state (unbuffered channel, *)
(* non-blocking send) and the 30 s timer may fire at any time, so "the     *)
(* signal was taken" and "the timer fired" are the one action StartSync.   *)
(* The queue mutexes are contended only by RestoreQueue, which is called   *)
(* before Start, and are left out.  A single operation on a list.List or   *)
(* the map is one step (a torn one, which the race detector would report,  *)
(* is not modelled); a caller of Notify* takes two steps (test, insert),   *)
(* the enqueueTask of an executor one.                                     *)
(***************************************************************************)
EXTENDS Integers, Sequences, FiniteSets

CONSTANTS
  ID,                \* task IDs: type and arguments
  Obj,               \* addresses of Task objects
  Caller,            \* goroutines that call Notify*
  NotifyID,          \* the IDs Notify* is called for
  Home,              \* the list each ID is enqueued on
  Parallelizable,    \* the IDs whose tasks may run in a goroutine
  MaxRetries,        \* -1 for infinite retries
  Spawns,            \* the IDs an executor enqueues before it succeeds
  FrontSpawns,       \* the IDs it enqueues at the front before it fails
  MaxParallelTasks,
  MaxSavedTasks,     \* bound of the model: the longest list Shutdown saves
  None

Queues == {"taskQueue", "filePinningQueue"}
States == {"QUEUED", "PENDING", "SUCCESS", "FAILED", "DEQUEUED"}

ASSUME SyncAssumption ==
  /\ ID # {} /\ IsFiniteSet(Obj) /\ Cardinality(Obj) >= 2
  /\ NotifyID \subseteq ID /\ Parallelizable \subseteq ID
  /\ Home \in [ID -> Queues]
  /\ MaxRetries \in [ID -> Nat \cup {-1}]
  /\ Spawns \in [ID -> SUBSET ID] /\ FrontSpawns \in [ID -> SUBSET ID]
  /\ MaxParallelTasks \in Nat /\ MaxSavedTasks \in Nat
  /\ None \notin ID \cup Obj

\* The task that is enqueued at the front (the bucket to create) goes to the list
\* of the one that waits for it, which may not run in parallel.
ASSUME FrontAssumption ==
  \A id \in ID : FrontSpawns[id] # {} =>
    id \notin Parallelizable /\ \A x \in FrontSpawns[id] : Home[x] = Home[id]

VARIABLES
  heap,               \* the Task each address holds
  queue,              \* taskQueue and filePinningQueue
  queueHashMap,       \* the task last enqueued under each ID
  pc,                 \* where the startSyncLoop of each list is
  curr,               \* position of the element the pass of each list is at
  ptWg,               \* goroutines the current pass will wait for
  parallelTaskCount,  \* racy counter of those goroutines
  phase,              \* progress of executeTask on each object
  todo,               \* the IDs its executor has still to enqueue
  notifying,          \* the ID a caller found not enqueued and will insert
  store,              \* the lists as storeQueue last saved them
  shutdown,           \* progress of each caller of Shutdown
  ctxDone             \* the context given to Start is cancelled

loopVars == <<pc, curr, ptWg, parallelTaskCount>>
execVars == <<phase, todo>>
downVars == <<store, shutdown, ctxDone>>
vars == <<heap, queue, queueHashMap, loopVars, execVars, notifying, downVars>>

Task == [id : ID, state : States, retries : Nat]
NewTask(id) == [id |-> id, state |-> "QUEUED", retries |-> 0]
Unused == NewTask(CHOOSE id \in ID : TRUE)

\* The callers of Shutdown: the client, and a loop whose context is cancelled.
Stoppers == Queues \cup {"client"}

TypeOK ==
  /\ heap \in [Obj -> Task]
  /\ queue \in [Queues -> Seq(Obj)]
  /\ queueHashMap \in [ID -> Obj \cup {None}]
  /\ pc \in [Queues -> {"select", "visit", "inline", "join", "sweep",
                        "shutdown", "exited"}]
  /\ curr \in [Queues -> Nat \ {0}]
  /\ ptWg \in [Queues -> SUBSET Obj]
  /\ parallelTaskCount \in [Queues -> Int]
  /\ phase \in [Obj -> {"none", "body", "doomed", "failed"}]
  /\ todo \in [Obj -> SUBSET ID]
  /\ notifying \in [Caller -> ID \cup {None}]
  /\ store \in [Queues -> Seq(Task)]
  /\ shutdown \in [Stoppers -> {"idle", "sendTask", "sendPin", "wait", "done"}]
  /\ ctxDone \in BOOLEAN

-------------------------------------------------------------------------------
(* Lists and hash map *)

Elements(q) == {queue[q][i] : i \in DOMAIN queue[q]}
Listed == UNION {Elements(q) : q \in Queues}
InUse == Listed \cup {queueHashMap[id] : id \in ID}

isPending(o) == heap[o].state \in {"QUEUED", "PENDING"}
isFinished(o) == heap[o].state \in {"SUCCESS", "DEQUEUED"}

isTaskEnqueued(id) ==
  queueHashMap[id] # None /\ isPending(queueHashMap[id])

\* Mutant: one attempt too many.
MutantMaxRetriesSurpassed(t) ==
  MaxRetries[t.id] # -1 /\ t.retries > MaxRetries[t.id] + 1

\* A bounded task is given up once Retries exceeds MaxRetries.
MaxRetriesSurpassed(t) == MaxRetries[t.id] # -1 /\ t.retries > MaxRetries[t.id]

Place(o, id) ==
  /\ heap' = [heap EXCEPT ![o] = NewTask(id)]
  /\ queueHashMap' = [queueHashMap EXCEPT ![id] = o]

PushBack(id) ==
  \E o \in Obj \ InUse :
    /\ Place(o, id)
    /\ queue' = [queue EXCEPT ![Home[id]] = Append(@, o)]

\* Elements behind the new front one move, and with them the pass's position.
PushFront(id) ==
  \E o \in Obj \ InUse :
    /\ Place(o, id)
    /\ queue' = [queue EXCEPT ![Home[id]] = <<o>> \o @]
    /\ curr' = IF pc[Home[id]] \in {"visit", "inline", "sweep"}
               THEN [curr EXCEPT ![Home[id]] = @ + 1] ELSE curr

enqueueTask(id) ==
  IF isTaskEnqueued(id) THEN UNCHANGED <<heap, queue, queueHashMap>>
                        ELSE PushBack(id)

enqueueTaskAtFront(id) ==
  IF isTaskEnqueued(id) THEN UNCHANGED <<heap, queue, queueHashMap, curr>>
                        ELSE PushFront(id)

-------------------------------------------------------------------------------
(* Notify*: nothing serialises the callers, so another goroutine may run    *)
(* between the test of isTaskEnqueued and the insertion.                    *)

NotifyTest(c, id) ==
  /\ notifying[c] = None /\ ~isTaskEnqueued(id)
  /\ notifying' = [notifying EXCEPT ![c] = id]
  /\ UNCHANGED <<heap, queue, queueHashMap, loopVars, execVars, downVars>>

NotifyInsert(c) ==
  /\ notifying[c] # None
  /\ PushBack(notifying[c])
  /\ notifying' = [notifying EXCEPT ![c] = None]
  /\ UNCHANGED <<loopVars, execVars, downVars>>

-------------------------------------------------------------------------------
(* A pass of sync over the list q *)

\* Mutant: the pass begins before the first element.
MutantStartSync(q) ==
  /\ pc[q] = "select"
  /\ pc' = [pc EXCEPT ![q] = "visit"]
  /\ curr' = [curr EXCEPT ![q] = 0]
  /\ parallelTaskCount' = [parallelTaskCount EXCEPT ![q] = 0]
  /\ UNCHANGED <<heap, queue, queueHashMap, ptWg, execVars, notifying, downVars>>

StartSync(q) ==
  /\ pc[q] = "select"
  /\ pc' = [pc EXCEPT ![q] = "visit"]
  /\ curr' = [curr EXCEPT ![q] = 1]
  /\ parallelTaskCount' = [parallelTaskCount EXCEPT ![q] = 0]
  /\ UNCHANGED <<heap, queue, queueHashMap, ptWg, execVars, notifying, downVars>>

AtElement(q) == curr[q] \in DOMAIN queue[q]
Curr(q) == queue[q][curr[q]]

\* Mutant: the check for a finished task is missing.
MutantBegin(o) ==
  /\ phase[o] = "none"
  /\ heap' = [heap EXCEPT ![o].state = "PENDING"]
  /\ phase' = [phase EXCEPT ![o] = "body"]
  /\ todo' = [todo EXCEPT ![o] = Spawns[heap[o].id]]

Begin(o) ==
  /\ heap[o].state = "QUEUED"
  /\ heap' = [heap EXCEPT ![o].state = "PENDING"]
  /\ phase' = [phase EXCEPT ![o] = "body"]
  /\ todo' = [todo EXCEPT ![o] = Spawns[heap[o].id]]

\* Mutant: Parallelizable is not looked at.
MutantRunsParallel(q) == parallelTaskCount[q] < MaxParallelTasks

RunsParallel(q) ==
  /\ heap[Curr(q)].id \in Parallelizable
  /\ parallelTaskCount[q] < MaxParallelTasks

\* parallelTaskCount++ races with the -- of the pass's goroutines: while one
\* is running, either update may overwrite the other.
VisitParallel(q) ==
  /\ pc[q] = "visit" /\ AtElement(q) /\ RunsParallel(q)
  /\ Begin(Curr(q))
  /\ ptWg' = [ptWg EXCEPT ![q] = @ \cup {Curr(q)}]
  /\ \E n \in {1} \cup (IF ptWg[q] = {} THEN {} ELSE {0}) :
       parallelTaskCount' = [parallelTaskCount EXCEPT ![q] = @ + n]
  /\ curr' = [curr EXCEPT ![q] = @ + 1]
  /\ UNCHANGED <<queue, queueHashMap, pc, notifying, downVars>>

VisitInline(q) ==
  /\ pc[q] = "visit" /\ AtElement(q) /\ ~RunsParallel(q)
  /\ Begin(Curr(q))
  /\ pc' = [pc EXCEPT ![q] = "inline"]
  /\ UNCHANGED <<queue, queueHashMap, curr, ptWg, parallelTaskCount,
                 notifying, downVars>>

Skip(q) ==
  /\ pc[q] = "visit" /\ AtElement(q) /\ heap[Curr(q)].state # "QUEUED"
  /\ curr' = [curr EXCEPT ![q] = @ + 1]
  /\ UNCHANGED <<heap, queue, queueHashMap, pc, ptWg, parallelTaskCount,
                 execVars, notifying, downVars>>

EndVisits(q) ==
  /\ pc[q] = "visit" /\ ~AtElement(q)
  /\ pc' = [pc EXCEPT ![q] = "join"]
  /\ UNCHANGED <<heap, queue, queueHashMap, curr, ptWg, parallelTaskCount,
                 execVars, notifying, downVars>>

Join(q) ==
  /\ pc[q] = "join" /\ ptWg[q] = {}
  /\ pc' = [pc EXCEPT ![q] = "sweep"]
  /\ curr' = [curr EXCEPT ![q] = 1]
  /\ UNCHANGED <<heap, queue, queueHashMap, ptWg, parallelTaskCount,
                 execVars, notifying, downVars>>

\* Mutant: the element after the finished one is unlinked.
MutantRemoveElement(s, i) ==
  [j \in 1 .. Len(s) - 1 |-> IF j <= i THEN s[j] ELSE s[j + 1]]

RemoveElement(s, i) ==
  [j \in 1 .. Len(s) - 1 |-> IF j < i THEN s[j] ELSE s[j + 1]]

\* Mutant: failed tasks are removed as well.
MutantSweep(q) ==
  /\ pc[q] = "sweep" /\ AtElement(q)
  /\ IF ~isPending(Curr(q))
     THEN /\ queue' = [queue EXCEPT ![q] = RemoveElement(@, curr[q])]
          /\ UNCHANGED curr
     ELSE /\ curr' = [curr EXCEPT ![q] = @ + 1]
          /\ UNCHANGED queue
  /\ UNCHANGED <<heap, queueHashMap, pc, ptWg, parallelTaskCount, execVars,
                 notifying, downVars>>

Sweep(q) ==
  /\ pc[q] = "sweep" /\ AtElement(q)
  /\ IF isFinished(Curr(q))
     THEN /\ queue' = [queue EXCEPT ![q] = RemoveElement(@, curr[q])]
          /\ UNCHANGED curr
     ELSE /\ curr' = [curr EXCEPT ![q] = @ + 1]
          /\ UNCHANGED queue
  /\ UNCHANGED <<heap, queueHashMap, pc, ptWg, parallelTaskCount, execVars,
                 notifying, downVars>>

EndSweep(q) ==
  /\ pc[q] = "sweep" /\ ~AtElement(q)
  /\ pc' = [pc EXCEPT ![q] = "select"]
  /\ UNCHANGED <<heap, queue, queueHashMap, curr, ptWg, parallelTaskCount,
                 execVars, notifying, downVars>>

-------------------------------------------------------------------------------
(* executeTask on the object o *)

Spawn(o, id) ==
  /\ phase[o] = "body" /\ id \in todo[o]
  /\ enqueueTask(id)
  /\ todo' = [todo EXCEPT ![o] = @ \ {id}]
  /\ UNCHANGED <<loopVars, phase, notifying, downVars>>

\* Mutant: the error is not returned after enqueueTaskAtFront.
MutantSpawnAtFront(o, id) ==
  /\ phase[o] = "body" /\ id \in FrontSpawns[heap[o].id]
  /\ enqueueTaskAtFront(id)
  /\ UNCHANGED <<pc, ptWg, parallelTaskCount, phase, todo, notifying, downVars>>

\* enqueueTaskAtFront is followed by "return errors.New(...)".
SpawnAtFront(o, id) ==
  /\ phase[o] = "body" /\ id \in FrontSpawns[heap[o].id]
  /\ enqueueTaskAtFront(id)
  /\ phase' = [phase EXCEPT ![o] = "doomed"]
  /\ UNCHANGED <<pc, ptWg, parallelTaskCount, todo, notifying, downVars>>

IsInline(o) ==
  LET q == Home[heap[o].id]
  IN pc[q] = "inline" /\ AtElement(q) /\ Curr(q) = o

\* Mutant: an error does not end the pass.
MutantReturnInline(o, ok) ==
  LET q == Home[heap[o].id] IN
  /\ IsInline(o)
  /\ pc' = [pc EXCEPT ![q] = "visit"]
  /\ curr' = [curr EXCEPT ![q] = @ + 1]
  /\ UNCHANGED <<ptWg, parallelTaskCount>>

\* executeTask returns to the pass: an error of a task the pass ran itself ends
\* the pass at once (the goroutines it started run on); a goroutine is joined.
ReturnInline(o, ok) ==
  LET q == Home[heap[o].id] IN
  /\ IsInline(o)
  /\ pc' = [pc EXCEPT ![q] = IF ok THEN "visit" ELSE "select"]
  /\ curr' = IF ok THEN [curr EXCEPT ![q] = @ + 1] ELSE curr
  /\ ptWg' = IF ok THEN ptWg ELSE [ptWg EXCEPT ![q] = {}]
  /\ UNCHANGED parallelTaskCount

\* Mutant: a goroutine is not joined.
MutantReturnParallel(o) ==
  /\ ~IsInline(o)
  /\ UNCHANGED loopVars

ReturnParallel(o) ==
  LET q == Home[heap[o].id] IN
  /\ ~IsInline(o)
  /\ ptWg' = [ptWg EXCEPT ![q] = @ \ {o}]
  /\ \E n \in IF o \notin ptWg[q] THEN {0}
              ELSE IF ptWg[q] = {o} /\ pc[q] # "visit" THEN {1} ELSE {0, 1} :
       parallelTaskCount' = [parallelTaskCount EXCEPT ![q] = @ - n]
  /\ UNCHANGED <<pc, curr>>

Return(o, ok) ==
  /\ ReturnInline(o, ok) \/ ReturnParallel(o)
  /\ phase' = [phase EXCEPT ![o] = "none"]
  /\ todo' = [todo EXCEPT ![o] = {}]
  /\ UNCHANGED <<queue, queueHashMap, notifying, downVars>>

Succeed(o) ==
  /\ phase[o] = "body" /\ todo[o] = {}
  /\ heap' = [heap EXCEPT ![o].state = "SUCCESS"]
  /\ Return(o, TRUE)

\* FAILED is written first and is visible to isTaskEnqueued until Settle.
\* Retries is only counted where it is read: for tasks with a MaxRetries.
Fail(o) ==
  /\ phase[o] \in {"body", "doomed"}
  /\ heap' = [heap EXCEPT ![o].state = "FAILED",
                ![o].retries = IF MaxRetries[heap[o].id] = -1 THEN @ ELSE @ + 1]
  /\ phase' = [phase EXCEPT ![o] = "failed"]
  /\ UNCHANGED <<queue, queueHashMap, loopVars, todo, notifying, downVars>>

Settle(o) ==
  /\ phase[o] = "failed"
  /\ heap' = [heap EXCEPT ![o].state =
                IF MaxRetriesSurpassed(heap[o]) THEN "DEQUEUED" ELSE "QUEUED"]
  /\ Return(o, FALSE)

-------------------------------------------------------------------------------
(* Shutdown, called by the client or by a loop whose context is cancelled *)

CancelCtx ==
  /\ ~ctxDone
  /\ ctxDone' = TRUE
  /\ UNCHANGED <<heap, queue, queueHashMap, loopVars, execVars, notifying,
                 store, shutdown>>

CallShutdown ==
  /\ shutdown["client"] = "idle"
  /\ shutdown' = [shutdown EXCEPT !["client"] = "sendTask"]
  /\ UNCHANGED <<heap, queue, queueHashMap, loopVars, execVars, notifying,
                 store, ctxDone>>

CtxDone(q) ==
  /\ ctxDone /\ pc[q] = "select"
  /\ pc' = [pc EXCEPT ![q] = "shutdown"]
  /\ shutdown' = [shutdown EXCEPT ![q] = "sendTask"]
  /\ UNCHANGED <<heap, queue, queueHashMap, curr, ptWg, parallelTaskCount,
                 execVars, notifying, store, ctxDone>>

\* Mutant: the break after the message leaves the select and not the loop.
MutantSendShutdown(p, q, from, to) ==
  /\ shutdown[p] = from /\ pc[q] = "select"
  /\ shutdown' = [shutdown EXCEPT ![p] = to]
  /\ UNCHANGED <<heap, queue, queueHashMap, loopVars, execVars, notifying,
                 store, ctxDone>>

\* The channels are unbuffered: a send waits for the loop to be in its select.
SendShutdown(p, q, from, to) ==
  /\ shutdown[p] = from /\ pc[q] = "select"
  /\ pc' = [pc EXCEPT ![q] = "exited"]
  /\ shutdown' = [shutdown EXCEPT ![p] = to]
  /\ UNCHANGED <<heap, queue, queueHashMap, curr, ptWg, parallelTaskCount,
                 execVars, notifying, store, ctxDone>>

SendShutdowns(p) ==
  \/ SendShutdown(p, "taskQueue", "sendTask", "sendPin")
  \/ SendShutdown(p, "filePinningQueue", "sendPin", "wait")

\* queueWg.Wait, storeQueue, isRunning = false, close of the channels.  What is
\* saved is every element of the lists, as it is: goroutines that a failed pass
\* left behind may still be running.  An error of the store is only logged.
storeQueue(p) ==
  /\ shutdown[p] = "wait"
  /\ \A q \in Queues : pc[q] = "exited" /\ Len(queue[q]) <= MaxSavedTasks
  /\ store' \in {store,
       [q \in Queues |-> [i \in 1 .. Len(queue[q]) |-> heap[queue[q][i]]]]}
  /\ shutdown' = [shutdown EXCEPT ![p] = "done"]
  /\ UNCHANGED <<heap, queue, queueHashMap, loopVars, execVars, notifying,
                 ctxDone>>

-------------------------------------------------------------------------------
(* The next synchronizer: New, RestoreQueue, Start *)

\* The elements of a saved list for which enqueueTask(&el) pushes: el is one
\* variable, so a repeated ID meets el itself in the hash map.
Pushed(s) ==
  {i \in DOMAIN s : \/ s[i].state \notin {"QUEUED", "PENDING"}
                    \/ \A j \in 1 .. i - 1 : s[j].id # s[i].id}

\* Every pushed element is the address of the loop variable, which ends up
\* holding the last task of the slice.
restoreQueue(el) ==
  /\ heap' = [o \in Obj |->
       IF \E q \in Queues : o = el[q] /\ store[q] # <<>>
       THEN LET q == CHOOSE q \in Queues : o = el[q]
            IN store[q][Len(store[q])]
       ELSE Unused]
  /\ queue' = [q \in Queues |->
       [i \in 1 .. Cardinality(Pushed(store[q])) |-> el[q]]]
  /\ queueHashMap' = [id \in ID |->
       IF \E i \in DOMAIN store[Home[id]] : store[Home[id]][i].id = id
       THEN el[Home[id]] ELSE None]

Start ==
  /\ pc' = [q \in Queues |-> "visit"]
  /\ curr' = [q \in Queues |-> 1]
  /\ ptWg' = [q \in Queues |-> {}]
  /\ parallelTaskCount' = [q \in Queues |-> 0]
  /\ phase' = [o \in Obj |-> "none"]
  /\ todo' = [o \in Obj |-> {}]
  /\ notifying' = [c \in Caller |-> None]
  /\ shutdown' = [p \in Stoppers |-> "idle"]
  /\ ctxDone' = FALSE

\* An error of restoreQueue: "Queue will start fresh."
startFresh ==
  /\ heap' = [o \in Obj |-> Unused]
  /\ queue' = [q \in Queues |-> <<>>]
  /\ queueHashMap' = [id \in ID |-> None]

initializeSync ==
  /\ startFresh \/ \E el \in [Queues -> Obj] :
       el["taskQueue"] # el["filePinningQueue"] /\ restoreQueue(el)
  /\ Start
  /\ UNCHANGED store

\* A graceful restart follows Shutdown; a crash may come at any other time.
Restart == shutdown["client"] = "done" /\ initializeSync
Crash == shutdown["client"] # "done" /\ initializeSync

-------------------------------------------------------------------------------
Init ==
  /\ heap = [o \in Obj |-> Unused]
  /\ queue = [q \in Queues |-> <<>>]
  /\ queueHashMap = [id \in ID |-> None]
  /\ pc = [q \in Queues |-> "visit"]
  /\ curr = [q \in Queues |-> 1]
  /\ ptWg = [q \in Queues |-> {}]
  /\ parallelTaskCount = [q \in Queues |-> 0]
  /\ phase = [o \in Obj |-> "none"]
  /\ todo = [o \in Obj |-> {}]
  /\ notifying = [c \in Caller |-> None]
  /\ store = [q \in Queues |-> <<>>]
  /\ shutdown = [p \in Stoppers |-> "idle"]
  /\ ctxDone = FALSE

Notify == \E c \in Caller :
  NotifyInsert(c) \/ \E id \in NotifyID : NotifyTest(c, id)

Pass(q) ==
  \/ VisitParallel(q) \/ VisitInline(q) \/ Skip(q) \/ EndVisits(q)
  \/ Join(q) \/ Sweep(q) \/ EndSweep(q)

Execute(o) ==
  \/ Succeed(o) \/ Fail(o) \/ Settle(o)
  \/ \E id \in ID : Spawn(o, id) \/ SpawnAtFront(o, id)

Run == Notify \/ (\E q \in Queues : StartSync(q) \/ Pass(q))
              \/ (\E o \in Obj : Execute(o))

Stop == CallShutdown \/ \E p \in Stoppers : SendShutdowns(p) \/ storeQueue(p)

Next == Run \/ Stop \/ CancelCtx \/ (\E q \in Queues : CtxDone(q))
            \/ Restart \/ Crash

Spec == Init /\ [][Next]_vars

\* One lifetime of the process: nothing stops or restarts it.
RunSpec == Init /\ [][Run]_vars

-------------------------------------------------------------------------------
(* Safety *)

\* isTaskEnqueued drops a notification only in favour of a task that a list
\* still holds: were the hash map to point at a QUEUED or PENDING task of no
\* list, every later notification of that ID would be lost (queue.go:16-21).
DropsOnlyForListedTask ==
  \A id \in ID : isTaskEnqueued(id) => queueHashMap[id] \in Listed

\* No list lets go of a task that a goroutine is executing, not even of one
\* left behind by a pass that ended with an error (synchronizer.go:363-394).
RunningTaskIsListed ==
  \A o \in Obj : phase[o] # "none" =>
    o \in Listed /\ heap[o].state \in {"PENDING", "FAILED"}

\* Of the tasks of one list that may not run in parallel at most one is being
\* executed, also after retries, duplicates and passes that ended early: two
\* uploads of one file never overlap (352-370).
ExclusiveInline ==
  \A o, x \in Obj :
    (phase[o] # "none" /\ phase[x] # "none" /\ Home[heap[o].id] = Home[heap[x].id]
       /\ heap[o].id \notin Parallelizable /\ heap[x].id \notin Parallelizable)
    => o = x

\* A task with MaxRetries is executed at most MaxRetries + 1 times, also across
\* restarts, and is given up exactly when that budget is used up (302-311).
RetryBudget ==
  \A o \in Listed : LET t == heap[o] IN
    IF MaxRetries[t.id] = -1 THEN t.state # "DEQUEUED"
    ELSE /\ t.retries <= MaxRetries[t.id] + 1
         /\ t.state = "DEQUEUED" => t.retries = MaxRetries[t.id] + 1
         /\ t.retries = MaxRetries[t.id] + 1 => t.state \in {"FAILED", "DEQUEUED"}

\* The loop runs the tasks of a list that may not run in parallel strictly in
\* list order: it begins one only when all of those before it are done or
\* given up, whatever failed, was retried or was pushed meanwhile (333-371).
HeadOfLine ==
  [][\A q \in Queues :
       (pc[q] = "visit" /\ pc'[q] = "inline") =>
         \A i \in 1 .. curr[q] - 1 :
           heap[queue[q][i]].id \notin Parallelizable => isFinished(queue[q][i])]_vars

\* While its context is alive Shutdown neither waits for a loop that is gone nor
\* saves the lists of one that is not, wherever in its passes a loop is when the
\* message comes: a loop ends by taking its one message (243-257).
ShutdownIsReceived ==
  LET at == shutdown["client"] IN
  /\ ~ctxDone /\ at \in {"idle", "sendTask"} => \A q \in Queues : pc[q] # "exited"
  /\ ~ctxDone /\ at = "sendPin" => pc["filePinningQueue"] # "exited"
  /\ at \in {"wait", "done"} => \A q \in Queues : pc[q] = "exited"

\* TaskPool: accepted tasks leave only by an execution of them, and a restart
\* brings back only tasks that Shutdown had saved.
Live(o) == ~isFinished(o)
Pool == INSTANCE TaskPool WITH
  outstanding <- {heap[o].id : o \in {x \in Listed : Live(x)}},
  running <- {heap[o].id : o \in {x \in Obj : phase[x] # "none"}},
  saved <- UNION {{store[q][i].id :
             i \in {j \in DOMAIN store[q] :
                      store[q][j].state \notin {"SUCCESS", "DEQUEUED"}}} :
             q \in Queues}
PoolSpec == Pool!Spec

-------------------------------------------------------------------------------
(* Liveness.  A loop in its select is woken by its timer, a pass and an      *)
(* executor go on, and Go's select takes each ready case again and again, so *)
(* a pending send of shutdown is taken (strong fairness).  That a task which *)
(* is retried forever succeeds some time is an assumption on the hub.        *)

LoopsGoOn ==
  /\ \A q \in Queues : WF_vars(StartSync(q) \/ Pass(q))
  /\ \A o \in Obj : WF_vars(Execute(o))

HubRecovers == \A o \in Obj : SF_vars(Succeed(o))

StopsGoOn ==
  \A p \in Stoppers : SF_vars(SendShutdowns(p)) /\ WF_vars(storeQueue(p))

RunFairSpec == RunSpec /\ LoopsGoOn /\ HubRecovers
CtxFairSpec ==
  /\ Init /\ [][Run \/ Stop \/ CancelCtx \/ \E q \in Queues : CtxDone(q)]_vars
  /\ LoopsGoOn /\ StopsGoOn /\ \A q \in Queues : SF_vars(CtxDone(q))

\* Every task that was enqueued is executed to success or given up, although a
\* failing task ends the pass and keeps those behind it waiting (363-369).
EveryTaskEnds ==
  \A o \in Obj : (o \in Listed /\ Live(o)) ~> isFinished(o)

-------------------------------------------------------------------------------
(* What comments of the code say and the code does not do *)

\* synchronizer.go:337: "If task is already in process or finished, skip".
SkippedIsInProcessOrFinished ==
  \A o \in Listed :
    heap[o].state # "QUEUED" => phase[o] # "none" \/ isFinished(o)

\* synchronizer.go:201: RestoreQueue "Restores a previously initialized queue":
\* a list of which anything comes back comes back whole.
RestoresTheQueue ==
  [][shutdown["client"] = "done" /\ shutdown'["client"] = "idle" =>
       \A q \in {p \in Queues : queue'[p] # <<>>} : \A i \in DOMAIN store[q] :
         \E j \in DOMAIN queue'[q] : heap'[queue'[q][j]].id = store[q][i].id]_vars

\* synchronizer.go:229, on ctx.Done: "Break execution in case of shutdown".
CancelBreaksTheLoops == ctxDone ~> \A q \in Queues : pc[q] = "exited"

===============================================================================
