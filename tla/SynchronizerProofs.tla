-------------------------- MODULE SynchronizerProofs --------------------------
(***************************************************************************)
(* Theorems about Synchronizer, for every set of IDs, callers and Task     *)
(* addresses, every Home, Spawns, FrontSpawns and MaxRetries, and across   *)
(* any number of shutdowns, restarts and crashes.                          *)
(***************************************************************************)
EXTENDS Synchronizer, TLAPS, FiniteSetTheorems, SequenceTheorems

(* Lists *)

\* Unlinking an element keeps a list a list and every other element in it.
LEMMA RemoveElementIsList ==
  ASSUME NEW S, NEW s \in Seq(S), NEW i \in DOMAIN s
  PROVE  /\ RemoveElement(s, i) \in Seq(S)
         /\ DOMAIN RemoveElement(s, i) = 1 .. Len(s) - 1
         /\ \A j \in DOMAIN s : s[j] # s[i] =>
              \E k \in DOMAIN RemoveElement(s, i) : RemoveElement(s, i)[k] = s[j]
         /\ \A k \in DOMAIN RemoveElement(s, i) :
              \E j \in DOMAIN s : RemoveElement(s, i)[k] = s[j]
<1> DEFINE r == RemoveElement(s, i)
<1>1. Len(s) \in Nat /\ DOMAIN s = 1 .. Len(s) /\ \A j \in 1 .. Len(s) : s[j] \in S
  BY LenProperties, ElementOfSeq
<1>2. Len(s) - 1 \in Nat /\ i \in 1 .. Len(s)
  BY <1>1
<1>3. DOMAIN r = 1 .. Len(s) - 1
  BY DEF RemoveElement
<1>4. \A k \in 1 .. Len(s) - 1 : r[k] = IF k < i THEN s[k] ELSE s[k + 1]
  BY DEF RemoveElement
<1>5. \A k \in 1 .. Len(s) - 1 : k \in DOMAIN s /\ k + 1 \in DOMAIN s
  BY <1>1
<1>6. r \in Seq(S)
  BY <1>1, <1>2 DEF RemoveElement
<1>7. ASSUME NEW j \in DOMAIN s, s[j] # s[i]
      PROVE  \E k \in DOMAIN r : r[k] = s[j]
  <2>1. CASE j < i
    BY <2>1, <1>1, <1>2, <1>3, <1>4
  <2>2. CASE j > i
    <3>1. j - 1 \in DOMAIN r /\ ~(j - 1 < i) /\ (j - 1) + 1 = j
      BY <2>2, <1>1, <1>2, <1>3
    <3>2. r[j - 1] = s[j]
      BY <3>1, <1>3, <1>4
    <3> QED  BY <3>1, <3>2
  <2> QED  BY <2>1, <2>2, <1>1, <1>2, <1>7
<1>8. \A k \in DOMAIN r : \E j \in DOMAIN s : r[k] = s[j]
  BY <1>3, <1>4, <1>5
<1> QED  BY <1>3, <1>6, <1>7, <1>8

\* A saved list is restored to a list: as many elements as tasks are pushed,
\* at least one if any task was saved.
LEMMA PushedIsFinite ==
  ASSUME NEW s \in Seq(Task)
  PROVE  /\ Cardinality(Pushed(s)) \in Nat
         /\ s # <<>> => Cardinality(Pushed(s)) >= 1
<1>1. Len(s) \in Nat /\ DOMAIN s = 1 .. Len(s)
  BY LenProperties
<1>2. IsFiniteSet(DOMAIN s)
  BY <1>1, FS_Interval
<1>3. Pushed(s) \subseteq DOMAIN s
  BY DEF Pushed
<1>4. IsFiniteSet(Pushed(s))
  BY <1>2, <1>3, FS_Subset
<1>5. Cardinality(Pushed(s)) \in Nat
  BY <1>4, FS_CardinalityType
<1>6. ASSUME s # <<>> PROVE Cardinality(Pushed(s)) >= 1
  <2>1. 1 \in DOMAIN s
    BY <1>6, <1>1, EmptySeq
  <2>2. 1 \in Pushed(s)
    BY <2>1 DEF Pushed
  <2>3. Cardinality(Pushed(s)) # 0
    BY <2>2, <1>4, FS_EmptySet
  <2> QED  BY <2>3, <1>5
<1> QED  BY <1>5, <1>6

-------------------------------------------------------------------------------
(* Type correctness *)

LEMMA UnusedType == Unused \in Task /\ \A id \in ID : NewTask(id) \in Task
<1>1. \A id \in ID : NewTask(id) \in Task
  BY DEF NewTask, Task, States
<1>2. (CHOOSE id \in ID : TRUE) \in ID
  BY SyncAssumption
<1> QED  BY <1>1, <1>2 DEF Unused

LEMMA HomeType == \A id \in ID : Home[id] \in Queues
  BY SyncAssumption

\* Inserting a task at either end of its list.
LEMMA PushType ==
  ASSUME TypeOK, NEW id \in ID, PushBack(id) \/ PushFront(id)
  PROVE  /\ heap' \in [Obj -> Task]
         /\ queue' \in [Queues -> Seq(Obj)]
         /\ queueHashMap' \in [ID -> Obj \cup {None}]
<1>1. PICK o \in Obj \ InUse :
        /\ Place(o, id)
        /\ queue' = [queue EXCEPT ![Home[id]] = Append(@, o)]
             \/ queue' = [queue EXCEPT ![Home[id]] = <<o>> \o @]
  BY DEF PushBack, PushFront
<1>2. heap' \in [Obj -> Task] /\ queueHashMap' \in [ID -> Obj \cup {None}]
  BY <1>1, UnusedType DEF Place, TypeOK
<1>3. Home[id] \in Queues /\ queue[Home[id]] \in Seq(Obj) /\ <<o>> \in Seq(Obj)
  BY HomeType DEF TypeOK
<1>4. Append(queue[Home[id]], o) \in Seq(Obj) /\ <<o>> \o queue[Home[id]] \in Seq(Obj)
  BY <1>3, ConcatProperties
<1>5. queue \in [Queues -> Seq(Obj)]
  BY DEF TypeOK
<1>6. PICK l \in Seq(Obj) : queue' = [queue EXCEPT ![Home[id]] = l]
  BY <1>1, <1>4
<1>7. queue' \in [Queues -> Seq(Obj)]
  BY <1>5, <1>6
<1> QED  BY <1>2, <1>7

LEMMA EnqueueType ==
  ASSUME TypeOK, NEW id \in ID,
         \/ enqueueTask(id) /\ UNCHANGED curr
         \/ enqueueTaskAtFront(id)
  PROVE  /\ heap' \in [Obj -> Task]
         /\ queue' \in [Queues -> Seq(Obj)]
         /\ queueHashMap' \in [ID -> Obj \cup {None}]
         /\ curr' \in [Queues -> Nat \ {0}]
<1>1. PushBack(id) \/ PushFront(id) \/ UNCHANGED <<heap, queue, queueHashMap>>
  BY DEF enqueueTask, enqueueTaskAtFront
<1>2. UNCHANGED curr \/ curr' = [curr EXCEPT ![Home[id]] = @ + 1]
  BY DEF enqueueTask, enqueueTaskAtFront, PushFront
<1>3. Home[id] \in Queues /\ curr \in [Queues -> Nat \ {0}]
  BY HomeType DEF TypeOK
<1>4. curr[Home[id]] + 1 \in Nat \ {0}
  BY <1>3
<1>5. curr' \in [Queues -> Nat \ {0}]
  BY <1>2, <1>3, <1>4
<1> QED  BY <1>1, <1>5, PushType DEF TypeOK

LEMMA ReturnType ==
  ASSUME TypeOK, NEW o \in Obj, NEW ok \in BOOLEAN, Return(o, ok)
  PROVE  /\ pc' \in [Queues -> {"select", "visit", "inline", "join", "sweep",
                                "shutdown", "exited"}]
         /\ curr' \in [Queues -> Nat \ {0}]
         /\ ptWg' \in [Queues -> SUBSET Obj]
         /\ parallelTaskCount' \in [Queues -> Int]
         /\ phase' \in [Obj -> {"none", "body", "doomed", "failed"}]
         /\ todo' \in [Obj -> SUBSET ID]
<1> DEFINE q == Home[heap[o].id]
<1>1. q \in Queues
  BY HomeType DEF TypeOK, Task
<1>2. phase' \in [Obj -> {"none", "body", "doomed", "failed"}]
      /\ todo' \in [Obj -> SUBSET ID]
  BY DEF Return, TypeOK
<1>3. CASE ReturnInline(o, ok)
  BY <1>1, <1>2, <1>3 DEF ReturnInline, TypeOK
<1>4. CASE ReturnParallel(o)
  BY <1>1, <1>2, <1>4 DEF ReturnParallel, TypeOK
<1> QED  BY <1>3, <1>4 DEF Return

LEMMA RestoreType ==
  ASSUME TypeOK, NEW el \in [Queues -> Obj],
         el["taskQueue"] # el["filePinningQueue"], restoreQueue(el)
  PROVE  /\ heap' \in [Obj -> Task]
         /\ queue' \in [Queues -> Seq(Obj)]
         /\ queueHashMap' \in [ID -> Obj \cup {None}]
<1>1. ASSUME NEW q \in Queues, store[q] # <<>>
      PROVE  store[q][Len(store[q])] \in Task
  BY <1>1, EmptySeq, ElementOfSeq DEF TypeOK
<1>2. heap' \in [Obj -> Task]
  <2> SUFFICES ASSUME NEW o \in Obj PROVE heap'[o] \in Task
    BY DEF restoreQueue
  <2>1. CASE \E q \in Queues : o = el[q] /\ store[q] # <<>>
    <3> DEFINE p == CHOOSE q \in Queues : o = el[q]
    <3>1. p \in Queues /\ o = el[p] /\ store[p] # <<>>
      BY <2>1 DEF Queues
    <3>2. heap'[o] = store[p][Len(store[p])]
      BY <2>1 DEF restoreQueue
    <3> QED  BY <3>1, <3>2, <1>1
  <2>2. CASE ~\E q \in Queues : o = el[q] /\ store[q] # <<>>
    BY <2>2, UnusedType DEF restoreQueue
  <2> QED  BY <2>1, <2>2
<1>3. queue' \in [Queues -> Seq(Obj)]
  <2>1. ASSUME NEW q \in Queues
        PROVE  [i \in 1 .. Cardinality(Pushed(store[q])) |-> el[q]] \in Seq(Obj)
    <3>1. store[q] \in Seq(Task)
      BY DEF TypeOK
    <3>2. Cardinality(Pushed(store[q])) \in Nat
      BY <3>1, PushedIsFinite
    <3>3. \A n \in Nat : [i \in 1 .. n |-> el[q]] \in Seq(Obj)
      OBVIOUS
    <3> QED  BY <3>2, <3>3
  <2> QED  BY <2>1 DEF restoreQueue
<1>4. queueHashMap' \in [ID -> Obj \cup {None}]
  BY HomeType DEF restoreQueue
<1> QED  BY <1>2, <1>3, <1>4

LEMMA InitType == Init => TypeOK
<1> SUFFICES ASSUME Init PROVE TypeOK
  OBVIOUS
<1>1. heap \in [Obj -> Task]
  BY UnusedType DEF Init
<1>2. \A S : <<>> \in Seq(S)
  BY EmptySeq
<1>3. queue \in [Queues -> Seq(Obj)] /\ store \in [Queues -> Seq(Task)]
  BY <1>2 DEF Init
<1>4. /\ pc \in [Queues -> {"select", "visit", "inline", "join", "sweep",
                            "shutdown", "exited"}]
      /\ phase \in [Obj -> {"none", "body", "doomed", "failed"}]
      /\ shutdown \in [Stoppers -> {"idle", "sendTask", "sendPin", "wait", "done"}]
  BY DEF Init
<1>5. curr \in [Queues -> Nat \ {0}] /\ parallelTaskCount \in [Queues -> Int]
  BY DEF Init
<1>6. ptWg \in [Queues -> SUBSET Obj] /\ todo \in [Obj -> SUBSET ID]
  BY DEF Init
<1>7. /\ queueHashMap \in [ID -> Obj \cup {None}]
      /\ notifying \in [Caller -> ID \cup {None}]
      /\ ctxDone \in BOOLEAN
  BY DEF Init
<1> QED  BY <1>1, <1>3, <1>4, <1>5, <1>6, <1>7 DEF TypeOK

\* The element a pass is at.
LEMMA CurrType ==
  ASSUME TypeOK, NEW q \in Queues, AtElement(q)
  PROVE  Curr(q) \in Obj /\ Curr(q) \in Elements(q)
BY ElementOfSeq, LenProperties DEF TypeOK, AtElement, Curr, Elements

LEMMA BeginType ==
  ASSUME TypeOK, NEW o \in Obj, Begin(o)
  PROVE  /\ heap' \in [Obj -> Task]
         /\ phase' \in [Obj -> {"none", "body", "doomed", "failed"}]
         /\ todo' \in [Obj -> SUBSET ID]
<1>1. heap[o] \in Task /\ Spawns[heap[o].id] \in SUBSET ID
  BY SyncAssumption DEF TypeOK, Task
<1> QED  BY <1>1 DEF TypeOK, Begin, Task, States

LEMMA PassType ==
  ASSUME TypeOK, NEW q \in Queues, StartSync(q) \/ Pass(q)
  PROVE  TypeOK'
<1>1. CASE StartSync(q)
  BY <1>1 DEF StartSync, TypeOK, execVars, downVars
<1>2. CASE VisitParallel(q)
  <2>1. Curr(q) \in Obj /\ Begin(Curr(q)) /\ curr[q] + 1 \in Nat \ {0}
    BY <1>2, CurrType DEF VisitParallel, TypeOK
  <2>2. parallelTaskCount' \in [Queues -> Int]
    BY <1>2 DEF VisitParallel, TypeOK
  <2>3. curr' \in [Queues -> Nat \ {0}] /\ ptWg' \in [Queues -> SUBSET Obj]
    BY <1>2, <2>1 DEF VisitParallel, TypeOK
  <2> QED  BY <1>2, <2>1, <2>2, <2>3, BeginType DEF VisitParallel, TypeOK, downVars
<1>3. CASE VisitInline(q)
  <2>1. Curr(q) \in Obj /\ Begin(Curr(q))
    BY <1>3, CurrType DEF VisitInline
  <2> QED  BY <1>3, <2>1, BeginType DEF VisitInline, TypeOK, downVars
<1>4. CASE Skip(q)
  BY <1>4 DEF Skip, TypeOK, execVars, downVars
<1>5. CASE EndVisits(q)
  BY <1>5 DEF EndVisits, TypeOK, execVars, downVars
<1>6. CASE Join(q)
  BY <1>6 DEF Join, TypeOK, execVars, downVars
<1>7. CASE Sweep(q)
  <2>1. queue[q] \in Seq(Obj) /\ curr[q] \in DOMAIN queue[q] /\ curr[q] + 1 \in Nat \ {0}
    BY <1>7 DEF Sweep, AtElement, TypeOK
  <2>2. RemoveElement(queue[q], curr[q]) \in Seq(Obj)
    BY <2>1, RemoveElementIsList
  <2>3. queue' \in [Queues -> Seq(Obj)] /\ curr' \in [Queues -> Nat \ {0}]
    BY <1>7, <2>1, <2>2 DEF Sweep, TypeOK
  <2> QED  BY <1>7, <2>3 DEF Sweep, TypeOK, execVars, downVars
<1>8. CASE EndSweep(q)
  BY <1>8 DEF EndSweep, TypeOK, execVars, downVars
<1> QED  BY <1>1, <1>2, <1>3, <1>4, <1>5, <1>6, <1>7, <1>8 DEF Pass

LEMMA ExecuteType ==
  ASSUME TypeOK, NEW o \in Obj, Execute(o)
  PROVE  TypeOK'
<1>1. heap[o] \in Task
  BY DEF TypeOK
<1>2. CASE Succeed(o)
  <2>1. heap' \in [Obj -> Task]
    BY <1>1, <1>2 DEF Succeed, TypeOK, Task, States
  <2> QED  BY <1>2, <2>1, ReturnType DEF Succeed, Return, TypeOK, downVars
<1>3. CASE Fail(o)
  <2>1. heap[o].retries + 1 \in Nat
    BY <1>1 DEF Task
  <2>2. PICK n \in Nat :
          heap' = [heap EXCEPT ![o] = [@ EXCEPT !.state = "FAILED", !.retries = n]]
    <3>1. CASE MaxRetries[heap[o].id] = -1
      <4>1. heap[o].retries \in Nat
        BY <1>1 DEF Task
      <4> QED  BY <1>3, <3>1, <4>1 DEF Fail
    <3>2. CASE MaxRetries[heap[o].id] # -1
      BY <1>3, <3>2, <2>1 DEF Fail
    <3> QED  BY <3>1, <3>2
  <2>3. [heap[o] EXCEPT !.state = "FAILED", !.retries = n] \in Task
    BY <1>1, <2>2 DEF Task, States
  <2>4. heap' \in [Obj -> Task]
    BY <2>2, <2>3 DEF TypeOK
  <2> QED  BY <1>3, <2>4 DEF Fail, TypeOK, loopVars, downVars
<1>4. CASE Settle(o)
  <2>1. heap' \in [Obj -> Task]
    BY <1>1, <1>4 DEF Settle, TypeOK, Task, States
  <2> QED  BY <1>4, <2>1, ReturnType DEF Settle, Return, TypeOK, downVars
<1>5. ASSUME NEW id \in ID, Spawn(o, id) PROVE TypeOK'
  <2>1. enqueueTask(id) /\ UNCHANGED curr
    BY <1>5 DEF Spawn, loopVars
  <2> QED  BY <1>5, <2>1, EnqueueType DEF Spawn, TypeOK, loopVars, downVars
<1>6. ASSUME NEW id \in ID, SpawnAtFront(o, id) PROVE TypeOK'
  <2>1. enqueueTaskAtFront(id)
    BY <1>6 DEF SpawnAtFront
  <2> QED  BY <1>6, <2>1, EnqueueType DEF SpawnAtFront, TypeOK, downVars
<1> QED  BY <1>2, <1>3, <1>4, <1>5, <1>6 DEF Execute

LEMMA StopType ==
  ASSUME TypeOK, NEW p \in Stoppers,
         \/ CallShutdown \/ SendShutdowns(p) \/ storeQueue(p)
         \/ CancelCtx \/ \E q \in Queues : CtxDone(q)
  PROVE  TypeOK'
<1>1. CASE CallShutdown
  BY <1>1 DEF CallShutdown, TypeOK, loopVars, execVars
<1>2. CASE SendShutdowns(p)
  BY <1>2 DEF SendShutdowns, SendShutdown, TypeOK, execVars
<1>3. CASE storeQueue(p)
  <2>1. ASSUME NEW q \in Queues
        PROVE  [i \in 1 .. Len(queue[q]) |-> heap[queue[q][i]]] \in Seq(Task)
    <3>1. queue[q] \in Seq(Obj) /\ Len(queue[q]) \in Nat
      BY LenProperties DEF TypeOK
    <3>2. \A i \in 1 .. Len(queue[q]) : heap[queue[q][i]] \in Task
      BY <3>1, ElementOfSeq DEF TypeOK
    <3> QED  BY <3>1, <3>2
  <2>2. store' \in [Queues -> Seq(Task)]
    BY <1>3, <2>1 DEF storeQueue, TypeOK
  <2>3. shutdown' \in [Stoppers -> {"idle", "sendTask", "sendPin", "wait", "done"}]
    BY <1>3 DEF storeQueue, TypeOK
  <2> QED  BY <1>3, <2>2, <2>3 DEF storeQueue, TypeOK, loopVars, execVars
<1>4. CASE CancelCtx
  BY <1>4 DEF CancelCtx, TypeOK, loopVars, execVars
<1>5. ASSUME NEW q \in Queues, CtxDone(q) PROVE TypeOK'
  BY <1>5 DEF CtxDone, TypeOK, execVars
<1> QED  BY <1>1, <1>2, <1>3, <1>4, <1>5

LEMMA StartType ==
  ASSUME TypeOK, Start, UNCHANGED store,
         heap' \in [Obj -> Task],
         queue' \in [Queues -> Seq(Obj)],
         queueHashMap' \in [ID -> Obj \cup {None}]
  PROVE  TypeOK'
<1>1. /\ pc' \in [Queues -> {"select", "visit", "inline", "join", "sweep",
                             "shutdown", "exited"}]
      /\ phase' \in [Obj -> {"none", "body", "doomed", "failed"}]
      /\ shutdown' \in [Stoppers -> {"idle", "sendTask", "sendPin", "wait", "done"}]
  BY DEF Start
<1>2. curr' \in [Queues -> Nat \ {0}] /\ parallelTaskCount' \in [Queues -> Int]
  BY DEF Start
<1>3. notifying' \in [Caller -> ID \cup {None}] /\ ctxDone' \in BOOLEAN
  BY DEF Start
<1>4. ptWg' \in [Queues -> SUBSET Obj] /\ todo' \in [Obj -> SUBSET ID]
  BY DEF Start
<1> QED  BY <1>1, <1>2, <1>3, <1>4 DEF TypeOK

LEMMA InitializeSyncType == TypeOK /\ initializeSync => TypeOK'
<1> SUFFICES ASSUME TypeOK, initializeSync PROVE TypeOK'
  OBVIOUS
<1>1. CASE startFresh
  <2>1. heap' \in [Obj -> Task] /\ queueHashMap' \in [ID -> Obj \cup {None}]
    BY <1>1, UnusedType DEF startFresh
  <2>2. queue' \in [Queues -> Seq(Obj)]
    BY <1>1, EmptySeq DEF startFresh
  <2> QED  BY <2>1, <2>2, StartType DEF initializeSync
<1>2. ASSUME NEW el \in [Queues -> Obj],
             el["taskQueue"] # el["filePinningQueue"], restoreQueue(el)
      PROVE  TypeOK'
  BY <1>2, RestoreType, StartType DEF initializeSync
<1> QED  BY <1>1, <1>2 DEF initializeSync

LEMMA NotifyType == TypeOK /\ Notify => TypeOK'
<1>1. ASSUME TypeOK, NEW c \in Caller, NotifyInsert(c) PROVE TypeOK'
  <2>1. notifying[c] \in ID /\ PushBack(notifying[c])
    BY <1>1 DEF NotifyInsert, TypeOK
  <2> QED  BY <1>1, <2>1, PushType
           DEF NotifyInsert, TypeOK, loopVars, execVars, downVars
<1>2. ASSUME TypeOK, NEW c \in Caller, NEW id \in NotifyID, NotifyTest(c, id)
      PROVE TypeOK'
  <2>1. id \in ID
    BY SyncAssumption
  <2> QED  BY <1>2, <2>1 DEF NotifyTest, TypeOK, loopVars, execVars, downVars
<1> QED  BY <1>1, <1>2 DEF Notify

LEMMA NextType == TypeOK /\ [Next]_vars => TypeOK'
<1>1. TypeOK /\ UNCHANGED vars => TypeOK'
  BY DEF vars, loopVars, execVars, downVars, TypeOK
<1>2. TypeOK /\ Run => TypeOK'
  BY NotifyType, PassType, ExecuteType DEF Run
<1>3. "client" \in Stoppers
  BY DEF Stoppers
<1>4. TypeOK /\ (Stop \/ CancelCtx \/ \E q \in Queues : CtxDone(q)) => TypeOK'
  BY <1>3, StopType DEF Stop
<1>5. TypeOK /\ (Restart \/ Crash) => TypeOK'
  BY InitializeSyncType DEF Restart, Crash
<1> QED  BY <1>1, <1>2, <1>4, <1>5 DEF Next

\* Every variable keeps its type whatever is enqueued, executed, retried,
\* stopped, restarted or crashed: in particular a restored list is a list and a
\* pass never stands before the first element.
THEOREM TypeCorrect == Spec => []TypeOK
BY InitType, NextType, PTL DEF Spec

-------------------------------------------------------------------------------
(* The lists never let go of a task that is running or that the hash map      *)
(* stands for.  The two invariants need each other: the retry of a failed     *)
(* task makes it QUEUED again, which is harmless only because it is listed.   *)

ListInv == TypeOK /\ RunningTaskIsListed /\ DropsOnlyForListedTask

\* What a step does to the elements of the lists.
LEMMA PushListed ==
  ASSUME TypeOK, NEW id \in ID, PushBack(id) \/ PushFront(id)
  PROVE  \E o \in Obj \ InUse :
           /\ heap' = [heap EXCEPT ![o] = NewTask(id)]
           /\ queueHashMap' = [queueHashMap EXCEPT ![id] = o]
           /\ \A q \in Queues :
                Elements(q)' = Elements(q) \cup (IF q = Home[id] THEN {o} ELSE {})
<1>1. PICK o \in Obj \ InUse :
        /\ Place(o, id)
        /\ \/ queue' = [queue EXCEPT ![Home[id]] = Append(@, o)]
           \/ queue' = [queue EXCEPT ![Home[id]] = <<o>> \o @]
  BY DEF PushBack, PushFront
<1> DEFINE h == Home[id]
<1>2. h \in Queues /\ queue[h] \in Seq(Obj) /\ <<o>> \in Seq(Obj)
  BY HomeType DEF TypeOK
<1>3. Len(queue[h]) \in Nat /\ DOMAIN queue[h] = 1 .. Len(queue[h])
  BY <1>2, LenProperties
<1>4. /\ \A i \in DOMAIN queue'[h] :
           queue'[h][i] = o \/ \E j \in DOMAIN queue[h] : queue'[h][i] = queue[h][j]
      /\ \A j \in DOMAIN queue[h] :
           \E i \in DOMAIN queue'[h] : queue'[h][i] = queue[h][j]
      /\ \E i \in DOMAIN queue'[h] : queue'[h][i] = o
  <2>1. CASE queue' = [queue EXCEPT ![h] = Append(@, o)]
    <3>1. queue'[h] = Append(queue[h], o)
      BY <1>2, <2>1 DEF TypeOK
    <3>2. /\ DOMAIN queue'[h] = 1 .. Len(queue[h]) + 1
          /\ \A i \in 1 .. Len(queue[h]) : queue'[h][i] = queue[h][i]
          /\ queue'[h][Len(queue[h]) + 1] = o
      BY <1>2, <1>3, <3>1
    <3>3. \A i \in 1 .. Len(queue[h]) + 1 :
            i = Len(queue[h]) + 1 \/ i \in 1 .. Len(queue[h])
      BY <1>3
    <3>4. 1 .. Len(queue[h]) \subseteq DOMAIN queue'[h]
          /\ Len(queue[h]) + 1 \in DOMAIN queue'[h]
      BY <1>3, <3>2
    <3> QED  BY <1>3, <3>2, <3>3, <3>4
  <2>2. CASE queue' = [queue EXCEPT ![h] = <<o>> \o @]
    <3>1. queue'[h] = <<o>> \o queue[h]
      BY <1>2, <2>2 DEF TypeOK
    <3>2. /\ queue'[h] \in Seq(Obj) /\ Len(queue'[h]) = Len(queue[h]) + 1
          /\ \A i \in 1 .. Len(queue[h]) + 1 :
               queue'[h][i] = IF i <= 1 THEN o ELSE queue[h][i - 1]
      BY <1>2, <1>3, <3>1, ConcatProperties
    <3>3. DOMAIN queue'[h] = 1 .. Len(queue[h]) + 1
      BY <3>2, LenProperties
    <3>4. 1 \in DOMAIN queue'[h] /\ queue'[h][1] = o
      BY <1>3, <3>2, <3>3
    <3>5. \A j \in 1 .. Len(queue[h]) :
            j + 1 \in DOMAIN queue'[h] /\ queue'[h][j + 1] = queue[h][j]
      BY <1>3, <3>2, <3>3
    <3>6. \A i \in 1 .. Len(queue[h]) + 1 : i <= 1 \/ i - 1 \in 1 .. Len(queue[h])
      BY <1>3
    <3>7. \A i \in DOMAIN queue'[h] :
            queue'[h][i] = o \/ \E j \in DOMAIN queue[h] : queue'[h][i] = queue[h][j]
      BY <1>3, <3>2, <3>3, <3>6
    <3> QED  BY <1>3, <3>4, <3>5, <3>7
  <2> QED  BY <1>1, <2>1, <2>2
<1>5. Elements(h)' = Elements(h) \cup {o}
  BY <1>4 DEF Elements
<1>6. \A q \in Queues : q # h => Elements(q)' = Elements(q)
  BY <1>1, <1>2 DEF Elements, TypeOK
<1> QED  BY <1>1, <1>5, <1>6 DEF Place

LEMMA SweepListed ==
  ASSUME TypeOK, NEW q \in Queues, Sweep(q), NEW p \in Queues
  PROVE  /\ Elements(p)' \subseteq Elements(p)
         /\ \A o \in Elements(p) : ~isFinished(o) => o \in Elements(p)'
<1>1. CASE p # q \/ ~isFinished(Curr(q))
  <2>1. Elements(p)' = Elements(p)
    BY <1>1 DEF Sweep, Elements, TypeOK
  <2> QED  BY <2>1
<1>2. CASE p = q /\ isFinished(Curr(q))
  <2>1. queue[q] \in Seq(Obj) /\ curr[q] \in DOMAIN queue[q]
    BY DEF Sweep, AtElement, TypeOK
  <2>2. queue'[q] = RemoveElement(queue[q], curr[q])
    BY <1>2 DEF Sweep, TypeOK
  <2>3. /\ \A j \in DOMAIN queue[q] : queue[q][j] # Curr(q) =>
             \E k \in DOMAIN queue'[q] : queue'[q][k] = queue[q][j]
        /\ \A k \in DOMAIN queue'[q] : \E j \in DOMAIN queue[q] :
             queue'[q][k] = queue[q][j]
    <3>1. PICK l \in Seq(Obj) : l = queue[q]
      BY <2>1
    <3>2. PICK r : r = queue'[q]
      OBVIOUS
    <3>3. curr[q] \in DOMAIN l /\ r = RemoveElement(l, curr[q])
      BY <2>1, <2>2, <3>1, <3>2
    <3>4. /\ \A j \in DOMAIN l : l[j] # l[curr[q]] => \E k \in DOMAIN r : r[k] = l[j]
          /\ \A k \in DOMAIN r : \E j \in DOMAIN l : r[k] = l[j]
      BY <3>3, RemoveElementIsList
    <3>5. l[curr[q]] = Curr(q)
      BY <3>1 DEF Curr
    <3> QED  BY <3>1, <3>2, <3>4, <3>5, Zenon
  <2> QED  BY <1>2, <2>3 DEF Elements
<1> QED  BY <1>1, <1>2

LEMMA SameListed == UNCHANGED queue => Listed' = Listed
BY DEF Listed, Elements

LEMMA RestoreListed ==
  ASSUME TypeOK, NEW el \in [Queues -> Obj], restoreQueue(el),
         NEW id \in ID, queueHashMap'[id] # None
  PROVE  queueHashMap'[id] \in Listed'
<1> DEFINE q == Home[id]
<1>1. q \in Queues /\ store[q] \in Seq(Task)
  BY HomeType DEF TypeOK
<1>2. queueHashMap'[id] = el[q] /\ \E i \in DOMAIN store[q] : TRUE
  BY DEF restoreQueue
<1>3. store[q] # <<>>
  BY <1>1, <1>2, EmptySeq, LenProperties
<1>4. Cardinality(Pushed(store[q])) \in Nat /\ Cardinality(Pushed(store[q])) >= 1
  BY <1>1, <1>3, PushedIsFinite
<1>5. queue'[q] = [i \in 1 .. Cardinality(Pushed(store[q])) |-> el[q]]
  BY <1>1 DEF restoreQueue
<1>6. 1 \in DOMAIN queue'[q] /\ queue'[q][1] = el[q]
  BY <1>4, <1>5
<1> QED  BY <1>1, <1>2, <1>6 DEF Listed, Elements

\* A step that enqueues one task and otherwise leaves running tasks running.
LEMMA EnqueueKeepsListInv ==
  ASSUME ListInv, NEW id \in ID,
         \/ PushBack(id) \/ PushFront(id)
         \/ UNCHANGED <<heap, queue, queueHashMap>>,
         \A o \in Obj : phase'[o] # "none" => phase[o] # "none"
  PROVE  RunningTaskIsListed' /\ DropsOnlyForListedTask'
<1>1. CASE UNCHANGED <<heap, queue, queueHashMap>>
  BY <1>1, SameListed
     DEF ListInv, RunningTaskIsListed, DropsOnlyForListedTask, isTaskEnqueued, isPending
<1>2. CASE PushBack(id) \/ PushFront(id)
  <2>1. PICK n \in Obj \ InUse :
           /\ heap' = [heap EXCEPT ![n] = NewTask(id)]
           /\ queueHashMap' = [queueHashMap EXCEPT ![id] = n]
           /\ \A q \in Queues :
                Elements(q)' = Elements(q) \cup (IF q = Home[id] THEN {n} ELSE {})
    BY <1>2, PushListed DEF ListInv
  <2>2. Listed \subseteq Listed' /\ n \in Listed'
    BY <2>1, HomeType DEF Listed
  <2>3. RunningTaskIsListed'
    <3> SUFFICES ASSUME NEW o \in Obj, phase'[o] # "none"
                 PROVE  o \in Listed' /\ heap'[o].state \in {"PENDING", "FAILED"}
      BY DEF RunningTaskIsListed
    <3>1. o \in Listed /\ heap[o].state \in {"PENDING", "FAILED"}
      BY DEF ListInv, RunningTaskIsListed
    <3>2. o # n
      BY <2>1, <3>1 DEF InUse
    <3> QED  BY <2>1, <2>2, <3>1, <3>2
  <2>4. DropsOnlyForListedTask'
    <3> SUFFICES ASSUME NEW i \in ID, isTaskEnqueued(i)'
                 PROVE  queueHashMap'[i] \in Listed'
      BY DEF DropsOnlyForListedTask
    <3>1. CASE i = id
      BY <2>1, <2>2, <3>1 DEF ListInv, TypeOK
    <3>2. CASE i # id
      <4>1. queueHashMap'[i] = queueHashMap[i] /\ queueHashMap[i] # n
        BY <2>1, <3>2 DEF InUse, ListInv, TypeOK
      <4>2. queueHashMap[i] \in Obj
        BY <4>1 DEF isTaskEnqueued, ListInv, TypeOK
      <4>3. isTaskEnqueued(i)
        BY <2>1, <4>1, <4>2 DEF isTaskEnqueued, isPending
      <4> QED  BY <2>2, <4>1, <4>3 DEF ListInv, DropsOnlyForListedTask
    <3> QED  BY <3>1, <3>2
  <2> QED  BY <2>3, <2>4
<1> QED  BY <1>1, <1>2

\* Steps that touch neither tasks nor lists.
LEMMA QuietKeepsListInv ==
  ASSUME ListInv, UNCHANGED <<heap, queue, queueHashMap, phase>>
  PROVE  RunningTaskIsListed' /\ DropsOnlyForListedTask'
<1>1. Listed' = Listed
  BY SameListed
<1> QED  BY <1>1 DEF ListInv, RunningTaskIsListed, DropsOnlyForListedTask,
                     isTaskEnqueued, isPending

\* A listed task that was waiting for it begins to run.
LEMMA BeginKeepsListInv ==
  ASSUME ListInv, NEW o \in Listed, o \in Obj, Begin(o),
         UNCHANGED <<queue, queueHashMap>>
  PROVE  RunningTaskIsListed' /\ DropsOnlyForListedTask'
<1>1. Listed' = Listed
  BY SameListed
<1>2. \A x \in Obj : x # o => heap'[x] = heap[x] /\ phase'[x] = phase[x]
  BY DEF Begin, ListInv, TypeOK
<1>3. heap'[o].state = "PENDING" /\ heap[o].state = "QUEUED"
  BY DEF Begin, ListInv, TypeOK, Task
<1>4. RunningTaskIsListed'
  BY <1>1, <1>2, <1>3 DEF ListInv, RunningTaskIsListed
<1>5. ASSUME NEW id \in ID, isTaskEnqueued(id)' PROVE queueHashMap'[id] \in Listed'
  <2>1. queueHashMap'[id] = queueHashMap[id] /\ queueHashMap[id] \in Obj
    BY <1>5 DEF isTaskEnqueued, ListInv, TypeOK
  <2>2. CASE queueHashMap[id] = o
    BY <1>1, <2>1, <2>2
  <2>3. CASE queueHashMap[id] # o
    BY <1>1, <1>2, <1>5, <2>1, <2>3
       DEF isTaskEnqueued, isPending, ListInv, DropsOnlyForListedTask
  <2> QED  BY <2>2, <2>3
<1> QED  BY <1>4, <1>5 DEF DropsOnlyForListedTask

\* An execution of a task gets on or ends, in whatever state it leaves it.
LEMMA ExecuteKeepsListInv ==
  ASSUME ListInv, NEW o \in Obj, phase[o] # "none",
         \/ phase'[o] = "none"
         \/ heap'[o].state \in {"PENDING", "FAILED"},
         \A x \in Obj : x # o => heap'[x] = heap[x] /\ phase'[x] = phase[x],
         UNCHANGED <<queue, queueHashMap>>
  PROVE  RunningTaskIsListed' /\ DropsOnlyForListedTask'
<1>1. Listed' = Listed
  BY SameListed
<1>2. o \in Listed
  BY DEF ListInv, RunningTaskIsListed
<1>3. RunningTaskIsListed'
  BY <1>1, <1>2 DEF ListInv, RunningTaskIsListed
<1>4. ASSUME NEW id \in ID, isTaskEnqueued(id)' PROVE queueHashMap'[id] \in Listed'
  <2>1. queueHashMap'[id] = queueHashMap[id] /\ queueHashMap[id] \in Obj
    BY <1>4 DEF isTaskEnqueued, ListInv, TypeOK
  <2>2. CASE queueHashMap[id] = o
    BY <1>1, <1>2, <2>1, <2>2
  <2>3. CASE queueHashMap[id] # o
    BY <1>1, <1>4, <2>1, <2>3
       DEF isTaskEnqueued, isPending, ListInv, DropsOnlyForListedTask
  <2> QED  BY <2>2, <2>3
<1> QED  BY <1>3, <1>4 DEF DropsOnlyForListedTask

\* Only finished tasks are unlinked, and those neither run nor drop anything.
LEMMA SweepKeepsListInv ==
  ASSUME ListInv, NEW q \in Queues, Sweep(q)
  PROVE  RunningTaskIsListed' /\ DropsOnlyForListedTask'
<1>1. \A o \in Listed : ~isFinished(o) => o \in Listed'
  BY SweepListed DEF ListInv, Listed
<1>2. UNCHANGED <<heap, queueHashMap, phase>>
  BY DEF Sweep, execVars
<1>3. RunningTaskIsListed'
  BY <1>1, <1>2 DEF ListInv, RunningTaskIsListed, isFinished
<1>4. DropsOnlyForListedTask'
  BY <1>1, <1>2
     DEF ListInv, DropsOnlyForListedTask, isTaskEnqueued, isPending, isFinished
<1> QED  BY <1>3, <1>4

LEMMA InitializeSyncKeepsListInv ==
  ASSUME ListInv, initializeSync
  PROVE  RunningTaskIsListed' /\ DropsOnlyForListedTask'
<1>1. startFresh \/ \E el \in [Queues -> Obj] : restoreQueue(el)
  BY DEF initializeSync
<1>2. \A o \in Obj : phase'[o] = "none"
  BY DEF initializeSync, Start
<1>3. RunningTaskIsListed'
  BY <1>2 DEF RunningTaskIsListed
<1>4. DropsOnlyForListedTask'
  BY <1>1, RestoreListed
     DEF startFresh, ListInv, DropsOnlyForListedTask, isTaskEnqueued
<1> QED  BY <1>3, <1>4

LEMMA InitListInv == Init => ListInv
BY InitType DEF Init, ListInv, RunningTaskIsListed, DropsOnlyForListedTask, isTaskEnqueued

LEMMA NextListInv == ListInv /\ [Next]_vars => ListInv'
<1> SUFFICES ASSUME ListInv, [Next]_vars
             PROVE  RunningTaskIsListed' /\ DropsOnlyForListedTask'
  BY NextType DEF ListInv
<1>1. CASE UNCHANGED vars
  BY <1>1, QuietKeepsListInv DEF vars, execVars
<1>2. ASSUME NEW c \in Caller, NotifyInsert(c)
      PROVE  RunningTaskIsListed' /\ DropsOnlyForListedTask'
  <2>1. notifying[c] \in ID /\ PushBack(notifying[c]) /\ UNCHANGED phase
    BY <1>2 DEF NotifyInsert, ListInv, TypeOK, execVars
  <2> QED  BY <2>1, EnqueueKeepsListInv
<1>3. ASSUME NEW c \in Caller, NEW id \in NotifyID, NotifyTest(c, id)
      PROVE  RunningTaskIsListed' /\ DropsOnlyForListedTask'
  BY <1>3, QuietKeepsListInv DEF NotifyTest, execVars
<1>4. ASSUME NEW q \in Queues, StartSync(q) \/ Pass(q)
      PROVE  RunningTaskIsListed' /\ DropsOnlyForListedTask'
  <2>1. CASE VisitParallel(q) \/ VisitInline(q)
    <3>1. Curr(q) \in Obj /\ Curr(q) \in Listed
      BY <2>1, CurrType DEF VisitParallel, VisitInline, ListInv, Listed
    <3> QED  BY <2>1, <3>1, BeginKeepsListInv DEF VisitParallel, VisitInline
  <2>2. CASE Sweep(q)
    BY <2>2, SweepKeepsListInv
  <2>3. CASE StartSync(q) \/ Skip(q) \/ EndVisits(q) \/ Join(q) \/ EndSweep(q)
    BY <2>3, QuietKeepsListInv
       DEF StartSync, Skip, EndVisits, Join, EndSweep, execVars
  <2> QED  BY <1>4, <2>1, <2>2, <2>3 DEF Pass
<1>5. ASSUME NEW o \in Obj, Execute(o)
      PROVE  RunningTaskIsListed' /\ DropsOnlyForListedTask'
  <2>1. CASE Succeed(o) \/ Settle(o)
    <3>1. /\ phase[o] # "none" /\ phase'[o] = "none"
          /\ \A x \in Obj : x # o => heap'[x] = heap[x] /\ phase'[x] = phase[x]
          /\ UNCHANGED <<queue, queueHashMap>>
      BY <2>1 DEF Succeed, Settle, Return, ListInv, TypeOK
    <3> QED  BY <3>1, ExecuteKeepsListInv
  <2>2. CASE Fail(o)
    <3>1. /\ phase[o] # "none" /\ heap'[o].state = "FAILED"
          /\ \A x \in Obj : x # o => heap'[x] = heap[x] /\ phase'[x] = phase[x]
          /\ UNCHANGED <<queue, queueHashMap>>
      BY <2>2 DEF Fail, ListInv, TypeOK, Task
    <3> QED  BY <3>1, ExecuteKeepsListInv
  <2>3. ASSUME NEW id \in ID, Spawn(o, id) \/ SpawnAtFront(o, id)
        PROVE  RunningTaskIsListed' /\ DropsOnlyForListedTask'
    <3>1. \/ PushBack(id) \/ PushFront(id)
          \/ UNCHANGED <<heap, queue, queueHashMap>>
      BY <2>3 DEF Spawn, SpawnAtFront, enqueueTask, enqueueTaskAtFront
    <3>2. \A x \in Obj : phase'[x] # "none" => phase[x] # "none"
      BY <2>3 DEF Spawn, SpawnAtFront, ListInv, TypeOK
    <3> QED  BY <3>1, <3>2, EnqueueKeepsListInv
  <2> QED  BY <1>5, <2>1, <2>2, <2>3 DEF Execute
<1>6. CASE Stop \/ CancelCtx \/ \E q \in Queues : CtxDone(q)
  BY <1>6, QuietKeepsListInv
     DEF Stop, CallShutdown, SendShutdowns, SendShutdown, storeQueue, CancelCtx,
         CtxDone, execVars
<1>7. CASE Restart \/ Crash
  BY <1>7, InitializeSyncKeepsListInv DEF Restart, Crash
<1> QED  BY <1>1, <1>2, <1>3, <1>4, <1>5, <1>6, <1>7 DEF Next, Run, Notify

LEMMA ListInvHolds == Spec => []ListInv
BY InitListInv, NextListInv, PTL DEF Spec

\* No list lets go of a task that is being executed, not even by a goroutine
\* that a pass which ended with an error left behind.
THEOREM RunningTasksAreListed == Spec => []RunningTaskIsListed
<1>1. ListInv => RunningTaskIsListed
  BY DEF ListInv
<1> QED  BY <1>1, ListInvHolds, PTL

\* No notification is ever dropped for a task that no list holds any more, also
\* after a queue with aliased elements was restored.
THEOREM DropsAreCovered == Spec => []DropsOnlyForListedTask
<1>1. ListInv => DropsOnlyForListedTask
  BY DEF ListInv
<1> QED  BY <1>1, ListInvHolds, PTL

-------------------------------------------------------------------------------
(* Tasks that may not run in parallel.  Such a task runs only while the pass  *)
(* of its own list waits for it, so there is one of them at a time.  That the *)
(* list is its own has to be known of the saved lists too: a restored element *)
(* holds the last task of the list it is put back on.                         *)

HomeInv ==
  /\ \A q \in Queues : \A o \in Elements(q) : Home[heap[o].id] = q
  /\ \A q \in Queues : \A i \in DOMAIN store[q] : Home[store[q][i].id] = q

InlineInv ==
  \A o \in Obj : phase[o] # "none" /\ heap[o].id \notin Parallelizable => IsInline(o)

ExclusionInv == ListInv /\ HomeInv /\ InlineInv

LEMMA ElementsListed ==
  \A q \in Queues : Elements(q) \subseteq Listed
BY DEF Listed

LEMMA ElementsType == TypeOK => \A q \in Queues : Elements(q) \subseteq Obj
BY ElementOfSeq, LenProperties DEF TypeOK, Elements

\* A step that adds no element to a list.
LEMMA SameHomes ==
  ASSUME TypeOK, HomeInv, UNCHANGED store,
         \A q \in Queues : Elements(q)' \subseteq Elements(q),
         \A o \in Obj : heap'[o].id = heap[o].id
  PROVE  HomeInv'
BY ElementsType DEF HomeInv

LEMMA PushHomes ==
  ASSUME TypeOK, HomeInv, UNCHANGED store, NEW id \in ID, PushBack(id) \/ PushFront(id)
  PROVE  HomeInv'
<1>1. PICK n \in Obj \ InUse :
        /\ heap' = [heap EXCEPT ![n] = NewTask(id)]
        /\ \A q \in Queues :
             Elements(q)' = Elements(q) \cup (IF q = Home[id] THEN {n} ELSE {})
  BY PushListed
<1>2. heap'[n].id = id
  BY <1>1 DEF TypeOK, NewTask
<1>3. ASSUME NEW q \in Queues, NEW o \in Elements(q) PROVE Home[heap'[o].id] = q
  <2>1. o # n /\ o \in Obj
    BY <1>1, ElementsListed, ElementsType DEF InUse
  <2> QED  BY <1>1, <2>1 DEF HomeInv, TypeOK
<1> QED  BY <1>1, <1>2, <1>3 DEF HomeInv

LEMMA StoreHomes ==
  ASSUME TypeOK, HomeInv, NEW p \in Stoppers, storeQueue(p)
  PROVE  HomeInv'
<1>1. UNCHANGED <<heap, queue>>
  BY DEF storeQueue
<1>2. \A q \in Queues : Elements(q)' = Elements(q)
  BY <1>1 DEF Elements
<1>3. ASSUME NEW q \in Queues, NEW i \in DOMAIN store'[q]
      PROVE  Home[store'[q][i].id] = q
  <2>1. CASE UNCHANGED store
    BY <1>3, <2>1 DEF HomeInv
  <2>2. CASE store'[q] = [j \in 1 .. Len(queue[q]) |-> heap[queue[q][j]]]
    <3>1. i \in DOMAIN queue[q] /\ store'[q][i] = heap[queue[q][i]]
      BY <2>2, <1>3, LenProperties DEF TypeOK
    <3> QED  BY <3>1 DEF HomeInv, Elements
  <2> QED  BY <2>1, <2>2 DEF storeQueue
<1> QED  BY <1>1, <1>2, <1>3 DEF HomeInv

LEMMA RestoreHomes ==
  ASSUME TypeOK, HomeInv, initializeSync
  PROVE  HomeInv'
<1>1. CASE startFresh
  <2>1. \A q \in Queues : Elements(q)' = {}
    BY <1>1 DEF startFresh, Elements
  <2> QED  BY <2>1 DEF initializeSync, HomeInv
<1>2. ASSUME NEW el \in [Queues -> Obj],
             el["taskQueue"] # el["filePinningQueue"], restoreQueue(el),
             NEW q \in Queues, NEW o \in Elements(q)'
      PROVE  Home[heap'[o].id] = q
  <2>1. queue'[q] = [i \in 1 .. Cardinality(Pushed(store[q])) |-> el[q]]
    BY <1>2 DEF restoreQueue
  <2>2. o = el[q] /\ 1 .. Cardinality(Pushed(store[q])) # {}
    BY <1>2, <2>1 DEF Elements
  <2>3. store[q] \in Seq(Task)
    BY DEF TypeOK
  <2>4. store[q] # <<>>
    <3>1. SUFFICES ASSUME store[q] = <<>> PROVE FALSE
      OBVIOUS
    <3>2. Pushed(store[q]) = {}
      BY <3>1 DEF Pushed
    <3>3. Cardinality(Pushed(store[q])) = 0
      BY <3>2, FS_EmptySet
    <3> QED  BY <2>2, <3>3
  <2>5. (CHOOSE p \in Queues : o = el[p]) = q
    BY <1>2, <2>2 DEF Queues
  <2>6. heap'[o] = store[q][Len(store[q])]
    <3>1. \E p \in Queues : o = el[p] /\ store[p] # <<>>
      BY <2>2, <2>4
    <3> QED  BY <1>2, <2>2, <2>5, <3>1 DEF restoreQueue
  <2>7. Len(store[q]) \in DOMAIN store[q]
    BY <2>3, <2>4, EmptySeq, LenProperties
  <2> QED  BY <2>6, <2>7 DEF HomeInv
<1>3. UNCHANGED store
  BY DEF initializeSync
<1> QED  BY <1>1, <1>2, <1>3 DEF initializeSync, HomeInv

\* A step that starts no task which may not run in parallel and leaves passes
\* that wait for one where they are.
LEMMA SameInline ==
  ASSUME TypeOK, InlineInv,
         \A o \in Obj : phase'[o] # "none" /\ heap'[o].id \notin Parallelizable
                          => phase[o] # "none" /\ heap'[o].id = heap[o].id,
         \A q \in Queues : pc[q] = "inline" =>
            pc'[q] = "inline" /\ curr'[q] = curr[q] /\ queue'[q] = queue[q]
  PROVE  InlineInv'
<1> SUFFICES ASSUME NEW o \in Obj, phase'[o] # "none", heap'[o].id \notin Parallelizable
             PROVE  IsInline(o)'
  BY DEF InlineInv
<1>1. IsInline(o) /\ heap'[o].id = heap[o].id
  BY DEF InlineInv
<1>2. Home[heap[o].id] \in Queues
  BY HomeType DEF TypeOK, Task
<1> QED  BY <1>1, <1>2 DEF IsInline, AtElement, Curr

\* The element a pass waits for stays the one it is at: elements are pushed
\* behind it, or in front of it and then its position moves.
LEMMA PushInline ==
  ASSUME ListInv, InlineInv, NEW id \in ID,
         (PushBack(id) /\ UNCHANGED curr) \/ PushFront(id),
         UNCHANGED pc,
         \A o \in Obj : phase'[o] # "none" => phase[o] # "none"
  PROVE  InlineInv'
<1>1. PICK n \in Obj \ InUse :
        /\ heap' = [heap EXCEPT ![n] = NewTask(id)]
        /\ \/ /\ queue' = [queue EXCEPT ![Home[id]] = Append(@, n)]
              /\ UNCHANGED curr
           \/ /\ queue' = [queue EXCEPT ![Home[id]] = <<n>> \o @]
              /\ curr' = IF pc[Home[id]] \in {"visit", "inline", "sweep"}
                         THEN [curr EXCEPT ![Home[id]] = @ + 1] ELSE curr
  BY DEF PushBack, PushFront, Place
<1> SUFFICES ASSUME NEW o \in Obj, phase'[o] # "none", heap'[o].id \notin Parallelizable
             PROVE  IsInline(o)'
  BY DEF InlineInv
<1>2. o # n /\ phase[o] # "none"
  BY <1>1 DEF ListInv, RunningTaskIsListed, InUse
<1>3. heap'[o] = heap[o]
  BY <1>1, <1>2 DEF ListInv, TypeOK
<1> DEFINE q == Home[heap[o].id]
<1>4. q \in Queues /\ queue[q] \in Seq(Obj) /\ curr[q] \in Nat \ {0} /\ Home[id] \in Queues
  BY HomeType DEF ListInv, TypeOK, Task
<1>5. pc[q] = "inline" /\ curr[q] \in DOMAIN queue[q] /\ queue[q][curr[q]] = o
  BY <1>2, <1>3 DEF InlineInv, IsInline, AtElement, Curr
<1>6. Len(queue[q]) \in Nat /\ DOMAIN queue[q] = 1 .. Len(queue[q])
  BY <1>4, LenProperties
<1>7. curr'[q] \in DOMAIN queue'[q] /\ queue'[q][curr'[q]] = o
  <2>1. CASE q # Home[id]
    BY <1>1, <1>4, <1>5, <2>1 DEF ListInv, TypeOK
  <2>2. CASE q = Home[id] /\ queue' = [queue EXCEPT ![Home[id]] = Append(@, n)]
               /\ UNCHANGED curr
    <3>1. queue'[q] = Append(queue[q], n)
      BY <1>4, <2>2 DEF ListInv, TypeOK
    <3>2. DOMAIN queue'[q] = 1 .. Len(queue[q]) + 1
          /\ \A i \in 1 .. Len(queue[q]) : queue'[q][i] = queue[q][i]
      BY <1>4, <1>6, <3>1
    <3> QED  BY <1>5, <1>6, <2>2, <3>2
  <2>3. CASE q = Home[id] /\ queue' = [queue EXCEPT ![Home[id]] = <<n>> \o @]
               /\ curr' = [curr EXCEPT ![Home[id]] = @ + 1]
    <3>1. queue'[q] = <<n>> \o queue[q] /\ curr'[q] = curr[q] + 1
      BY <1>4, <2>3 DEF ListInv, TypeOK
    <3>2. <<n>> \in Seq(Obj)
      OBVIOUS
    <3>3. /\ queue'[q] \in Seq(Obj) /\ Len(queue'[q]) = Len(queue[q]) + 1
          /\ \A i \in 1 .. Len(queue[q]) + 1 :
               queue'[q][i] = IF i <= 1 THEN n ELSE queue[q][i - 1]
      BY <1>4, <1>6, <3>1, <3>2, ConcatProperties
    <3>4. DOMAIN queue'[q] = 1 .. Len(queue[q]) + 1
      BY <3>3, LenProperties
    <3>5. curr[q] + 1 \in 1 .. Len(queue[q]) + 1 /\ ~(curr[q] + 1 <= 1)
          /\ (curr[q] + 1) - 1 = curr[q]
      BY <1>4, <1>5, <1>6
    <3> QED  BY <1>5, <3>1, <3>3, <3>4, <3>5
  <2> QED  BY <1>1, <1>5, <2>1, <2>2, <2>3
<1> QED  BY <1>3, <1>5, <1>7 DEF IsInline, AtElement, Curr

\* The pass begins a task itself only when it waits for no other.
LEMMA VisitInlineInline ==
  ASSUME ExclusionInv, NEW q \in Queues, VisitInline(q)
  PROVE  InlineInv'
<1> DEFINE c == Curr(q)
<1>1. c \in Obj /\ c \in Elements(q)
  BY CurrType DEF VisitInline, ExclusionInv, ListInv
<1>2. Begin(c) /\ pc[q] = "visit" /\ UNCHANGED <<queue, curr>>
  BY DEF VisitInline
<1>3. \A x \in Obj : heap'[x].id = heap[x].id /\ (x # c => phase'[x] = phase[x])
  BY <1>1, <1>2 DEF Begin, ExclusionInv, ListInv, TypeOK, Task
<1>4. pc'[q] = "inline" /\ \A p \in Queues : p # q => pc'[p] = pc[p]
  BY DEF VisitInline, ExclusionInv, ListInv, TypeOK
<1> SUFFICES ASSUME NEW o \in Obj, phase'[o] # "none", heap'[o].id \notin Parallelizable
             PROVE  IsInline(o)'
  BY DEF InlineInv
<1>5. CASE o = c
  <2>1. Home[heap'[o].id] = q
    BY <1>1, <1>3, <1>5 DEF ExclusionInv, HomeInv
  <2>2. AtElement(q)' /\ Curr(q)' = o
    BY <1>2, <1>5 DEF VisitInline, AtElement, Curr
  <2> QED  BY <1>4, <2>1, <2>2 DEF IsInline
<1>6. CASE o # c
  <2>1. IsInline(o)
    BY <1>3, <1>6 DEF ExclusionInv, InlineInv
  <2>2. Home[heap[o].id] \in Queues /\ Home[heap[o].id] # q
    BY <1>2, <2>1, HomeType DEF IsInline, ExclusionInv, ListInv, TypeOK, Task
  <2> QED  BY <1>2, <1>3, <1>4, <2>1, <2>2 DEF IsInline, AtElement, Curr
<1> QED  BY <1>5, <1>6

\* When the pass goes on, the only task that can have been at its position ended.
LEMMA ReturnKeepsInline ==
  ASSUME ListInv, InlineInv, NEW o \in Obj, NEW ok \in BOOLEAN, Return(o, ok),
         \A x \in Obj : heap'[x].id = heap[x].id
  PROVE  InlineInv'
<1>1. phase'[o] = "none" /\ (\A x \in Obj : x # o => phase'[x] = phase[x])
      /\ UNCHANGED queue
  BY DEF Return, ListInv, TypeOK
<1>2. CASE ReturnInline(o, ok)
  <2> DEFINE q == Home[heap[o].id]
  <2>1. IsInline(o) /\ \A p \in Queues : p # q => pc'[p] = pc[p] /\ curr'[p] = curr[p]
    BY <1>2 DEF ReturnInline, ListInv, TypeOK
  <2> SUFFICES ASSUME NEW x \in Obj, phase'[x] # "none",
                      heap'[x].id \notin Parallelizable
               PROVE  IsInline(x)'
    BY DEF InlineInv
  <2>2. x # o /\ IsInline(x)
    BY <1>1 DEF InlineInv
  <2>3. Home[heap[x].id] # q
    BY <2>1, <2>2 DEF IsInline
  <2>4. Home[heap[x].id] \in Queues
    BY HomeType DEF ListInv, TypeOK, Task
  <2> QED  BY <1>1, <2>1, <2>2, <2>3, <2>4 DEF IsInline, AtElement, Curr
<1>3. CASE ReturnParallel(o)
  BY <1>1, <1>3, SameInline DEF ReturnParallel, ListInv
<1> QED  BY <1>2, <1>3 DEF Return

LEMMA InitExclusionInv == Init => ExclusionInv
<1> SUFFICES ASSUME Init PROVE HomeInv /\ InlineInv
  BY InitListInv DEF ExclusionInv
<1>1. \A q \in Queues : Elements(q) = {} /\ DOMAIN store[q] = {}
  BY DEF Init, Elements
<1> QED  BY <1>1 DEF Init, HomeInv, InlineInv

\* A step that pushes a task, or drops it as a duplicate.
LEMMA EnqueueKeepsExclusionInv ==
  ASSUME ExclusionInv, NEW id \in ID,
         \/ PushBack(id) /\ UNCHANGED curr
         \/ PushFront(id)
         \/ UNCHANGED <<heap, queue, queueHashMap, curr>>,
         UNCHANGED <<pc, store>>,
         \A o \in Obj : phase'[o] # "none" => phase[o] # "none"
  PROVE  HomeInv' /\ InlineInv'
<1>1. CASE UNCHANGED <<heap, queue, queueHashMap, curr>>
  <2>1. \A q \in Queues : Elements(q)' = Elements(q)
    BY <1>1 DEF Elements
  <2> QED  BY <1>1, <2>1, SameHomes, SameInline DEF ExclusionInv, ListInv
<1>2. CASE (PushBack(id) /\ UNCHANGED curr) \/ PushFront(id)
  BY <1>2, PushHomes, PushInline DEF ExclusionInv, ListInv
<1> QED  BY <1>1, <1>2

\* Steps that change no task and no list, and no position a pass waits at.
LEMMA QuietKeepsExclusionInv ==
  ASSUME ExclusionInv, UNCHANGED <<heap, queue, phase, store>>,
         \A q \in Queues : pc[q] = "inline" => pc'[q] = "inline" /\ curr'[q] = curr[q]
  PROVE  HomeInv' /\ InlineInv'
<1>1. \A q \in Queues : Elements(q)' = Elements(q)
  BY DEF Elements
<1> QED  BY <1>1, SameHomes, SameInline DEF ExclusionInv, ListInv

LEMMA PassKeepsExclusionInv ==
  ASSUME ExclusionInv, NEW q \in Queues, StartSync(q) \/ Pass(q)
  PROVE  HomeInv' /\ InlineInv'
<1>1. CASE StartSync(q) \/ Skip(q) \/ EndVisits(q) \/ Join(q) \/ EndSweep(q)
  <2>1. UNCHANGED <<heap, queue, phase, store>>
    BY <1>1 DEF StartSync, Skip, EndVisits, Join, EndSweep, execVars, downVars
  <2>2. \A p \in Queues : pc[p] = "inline" => pc'[p] = "inline" /\ curr'[p] = curr[p]
    BY <1>1 DEF StartSync, Skip, EndVisits, Join, EndSweep, ExclusionInv, ListInv, TypeOK
  <2> QED  BY <2>1, <2>2, QuietKeepsExclusionInv
<1>2. CASE Sweep(q)
  <2>1. \A p \in Queues : Elements(p)' \subseteq Elements(p)
    BY <1>2, SweepListed DEF ExclusionInv, ListInv
  <2>2. UNCHANGED <<heap, phase, store, pc>> /\ pc[q] = "sweep"
    BY <1>2 DEF Sweep, execVars, downVars
  <2>3. \A p \in Queues : pc[p] = "inline" => curr'[p] = curr[p] /\ queue'[p] = queue[p]
    BY <1>2, <2>2 DEF Sweep, ExclusionInv, ListInv, TypeOK
  <2> QED  BY <2>1, <2>2, <2>3, SameHomes, SameInline DEF ExclusionInv, ListInv
<1>3. CASE VisitParallel(q) \/ VisitInline(q)
  <2>1. Curr(q) \in Obj /\ Begin(Curr(q)) /\ UNCHANGED <<queue, store>>
    BY <1>3, CurrType DEF VisitParallel, VisitInline, downVars, ExclusionInv, ListInv
  <2>2. \A o \in Obj : heap'[o].id = heap[o].id
    BY <2>1 DEF Begin, ExclusionInv, ListInv, TypeOK, Task
  <2>3. \A p \in Queues : Elements(p)' = Elements(p)
    BY <2>1 DEF Elements
  <2>4. HomeInv'
    BY <2>1, <2>2, <2>3, SameHomes DEF ExclusionInv, ListInv
  <2>5. InlineInv'
    <3>1. CASE VisitParallel(q)
      <4>1. heap[Curr(q)].id \in Parallelizable
        BY <3>1 DEF VisitParallel, RunsParallel
      <4>2. \A o \in Obj : o # Curr(q) => phase'[o] = phase[o]
        BY <2>1 DEF Begin, ExclusionInv, ListInv, TypeOK
      <4>3. \A p \in Queues : pc[p] = "inline" => pc'[p] = "inline" /\ curr'[p] = curr[p]
        BY <3>1 DEF VisitParallel, ExclusionInv, ListInv, TypeOK
      <4> QED  BY <2>1, <2>2, <4>1, <4>2, <4>3, SameInline DEF ExclusionInv, ListInv
    <3>2. CASE VisitInline(q)
      BY <3>2, VisitInlineInline
    <3> QED  BY <1>3, <3>1, <3>2
  <2> QED  BY <2>4, <2>5
<1> QED  BY <1>1, <1>2, <1>3 DEF Pass

LEMMA ExecuteKeepsExclusionInv ==
  ASSUME ExclusionInv, NEW o \in Obj, Execute(o)
  PROVE  HomeInv' /\ InlineInv'
<1>1. CASE Succeed(o) \/ Fail(o) \/ Settle(o)
  <2>1. \A x \in Obj : heap'[x].id = heap[x].id
    <3>1. heap \in [Obj -> Task]
      BY DEF ExclusionInv, ListInv, TypeOK
    <3>2. CASE Succeed(o) \/ Settle(o)
      <4>1. PICK s : heap' = [heap EXCEPT ![o].state = s]
        BY <3>2 DEF Succeed, Settle
      <4> QED  BY <3>1, <4>1 DEF Task
    <3>3. CASE Fail(o)
      BY <3>1, <3>3 DEF Fail, Task
    <3> QED  BY <1>1, <3>2, <3>3
  <2>2. UNCHANGED <<queue, store>>
    BY <1>1 DEF Succeed, Fail, Settle, Return, downVars
  <2>3. \A q \in Queues : Elements(q)' = Elements(q)
    BY <2>2 DEF Elements
  <2>4. HomeInv'
    BY <2>1, <2>2, <2>3, SameHomes DEF ExclusionInv, ListInv
  <2>5. CASE Fail(o)
    <3>1. UNCHANGED <<pc, curr>>
          /\ \A x \in Obj : phase'[x] # "none" => phase[x] # "none"
      BY <2>5 DEF Fail, loopVars, ExclusionInv, ListInv, TypeOK
    <3> QED  BY <2>1, <2>2, <2>4, <3>1, SameInline DEF ExclusionInv, ListInv
  <2>6. CASE Succeed(o) \/ Settle(o)
    <3>1. \E ok \in BOOLEAN : Return(o, ok)
      BY <2>6 DEF Succeed, Settle
    <3> QED  BY <2>1, <2>4, <3>1, ReturnKeepsInline DEF ExclusionInv
  <2> QED  BY <1>1, <2>5, <2>6
<1>2. ASSUME NEW id \in ID, Spawn(o, id) \/ SpawnAtFront(o, id)
      PROVE  HomeInv' /\ InlineInv'
  <2>1. \/ PushBack(id) /\ UNCHANGED curr
        \/ PushFront(id)
        \/ UNCHANGED <<heap, queue, queueHashMap, curr>>
    BY <1>2 DEF Spawn, SpawnAtFront, enqueueTask, enqueueTaskAtFront, loopVars
  <2>2. \A x \in Obj : phase'[x] # "none" => phase[x] # "none"
    BY <1>2 DEF Spawn, SpawnAtFront, ExclusionInv, ListInv, TypeOK
  <2>3. UNCHANGED <<pc, store>>
    BY <1>2 DEF Spawn, SpawnAtFront, loopVars, downVars
  <2> QED  BY <2>1, <2>2, <2>3, EnqueueKeepsExclusionInv
<1> QED  BY <1>1, <1>2 DEF Execute

LEMMA NextExclusionInv == ExclusionInv /\ [Next]_vars => ExclusionInv'
<1> SUFFICES ASSUME ExclusionInv, [Next]_vars
             PROVE  HomeInv' /\ InlineInv'
  BY NextListInv DEF ExclusionInv
<1>1. CASE UNCHANGED vars
  BY <1>1, QuietKeepsExclusionInv DEF vars, loopVars, execVars, downVars
<1>2. ASSUME NEW c \in Caller, NotifyInsert(c) PROVE HomeInv' /\ InlineInv'
  <2>1. notifying[c] \in ID /\ PushBack(notifying[c]) /\ UNCHANGED <<phase, pc, curr, store>>
    BY <1>2 DEF NotifyInsert, ExclusionInv, ListInv, TypeOK, execVars, loopVars, downVars
  <2> QED  BY <2>1, EnqueueKeepsExclusionInv
<1>3. ASSUME NEW c \in Caller, NEW id \in NotifyID, NotifyTest(c, id)
      PROVE  HomeInv' /\ InlineInv'
  BY <1>3, QuietKeepsExclusionInv DEF NotifyTest, execVars, loopVars, downVars
<1>4. CASE CallShutdown \/ CancelCtx
  BY <1>4, QuietKeepsExclusionInv DEF CallShutdown, CancelCtx, execVars, loopVars
<1>5. ASSUME NEW p \in Stoppers, SendShutdowns(p) PROVE HomeInv' /\ InlineInv'
  <2>1. UNCHANGED <<heap, queue, phase, store, curr>>
    BY <1>5 DEF SendShutdowns, SendShutdown, execVars
  <2>2. \A q \in Queues : pc[q] = "inline" => pc'[q] = "inline"
    BY <1>5 DEF SendShutdowns, SendShutdown, ExclusionInv, ListInv, TypeOK
  <2> QED  BY <2>1, <2>2, QuietKeepsExclusionInv
<1>6. ASSUME NEW q \in Queues, CtxDone(q) PROVE HomeInv' /\ InlineInv'
  <2>1. UNCHANGED <<heap, queue, phase, store, curr>>
    BY <1>6 DEF CtxDone, execVars
  <2>2. \A p \in Queues : pc[p] = "inline" => pc'[p] = "inline"
    BY <1>6 DEF CtxDone, ExclusionInv, ListInv, TypeOK
  <2> QED  BY <2>1, <2>2, QuietKeepsExclusionInv
<1>7. ASSUME NEW p \in Stoppers, storeQueue(p) PROVE HomeInv' /\ InlineInv'
  <2>1. UNCHANGED <<heap, queue, phase, pc, curr>>
    BY <1>7 DEF storeQueue, execVars, loopVars
  <2> QED  BY <1>7, <2>1, StoreHomes, SameInline DEF ExclusionInv, ListInv
<1>8. CASE Restart \/ Crash
  <2>1. initializeSync
    BY <1>8 DEF Restart, Crash
  <2>2. InlineInv'
    BY <2>1 DEF initializeSync, Start, InlineInv
  <2> QED  BY <2>1, <2>2, RestoreHomes DEF ExclusionInv, ListInv
<1> QED  BY <1>1, <1>2, <1>3, <1>4, <1>5, <1>6, <1>7, <1>8,
            PassKeepsExclusionInv, ExecuteKeepsExclusionInv DEF Next, Run, Notify, Stop

\* Of the tasks of one list that may not run in parallel no two are executed at
\* a time, whatever fails, is retried, duplicated or restored: two uploads of a
\* file never overlap.
THEOREM InlineTasksExclude == Spec => []ExclusiveInline
<1>1. ExclusionInv => ExclusiveInline
  BY DEF ExclusionInv, InlineInv, ExclusiveInline, IsInline
<1> QED  BY <1>1, InitExclusionInv, NextExclusionInv, PTL DEF Spec

-------------------------------------------------------------------------------
(* Retries.  What RetryBudget says of listed tasks holds of every Task, also  *)
(* of those saved in the store.  It is inductive once the state of a task is  *)
(* tied to the progress of its execution: an attempt is counted only while    *)
(* the task is PENDING, and given up only when it is FAILED.                  *)

KeepsBudget(t) ==
  IF MaxRetries[t.id] = -1 THEN t.state # "DEQUEUED"
  ELSE /\ t.retries <= MaxRetries[t.id] + 1
       /\ t.state = "DEQUEUED" => t.retries = MaxRetries[t.id] + 1
       /\ t.retries = MaxRetries[t.id] + 1 => t.state \in {"FAILED", "DEQUEUED"}

PhaseInv ==
  \A o \in Obj : /\ phase[o] \in {"body", "doomed"} => heap[o].state = "PENDING"
                 /\ phase[o] = "failed" => heap[o].state = "FAILED"

HeapBudget == \A o \in Obj : KeepsBudget(heap[o])
StoreBudget == \A q \in Queues : \A i \in DOMAIN store[q] : KeepsBudget(store[q][i])

BudgetInv == ListInv /\ PhaseInv /\ HeapBudget /\ StoreBudget

\* A new task has its whole budget.
LEMMA NewTaskBudget == KeepsBudget(Unused) /\ \A id \in ID : KeepsBudget(NewTask(id))
<1>1. ASSUME NEW id \in ID PROVE KeepsBudget(NewTask(id))
  <2>1. MaxRetries[id] \in Nat \cup {-1}
    BY SyncAssumption
  <2> QED  BY <2>1 DEF KeepsBudget, NewTask
<1>2. (CHOOSE id \in ID : TRUE) \in ID
  BY SyncAssumption
<1> QED  BY <1>1, <1>2 DEF Unused

\* A step that changes the task and the progress of one object only.
LEMMA OneTaskBudget ==
  ASSUME BudgetInv, NEW o \in Obj, KeepsBudget(heap'[o]),
         phase'[o] \in {"body", "doomed"} => heap'[o].state = "PENDING",
         phase'[o] = "failed" => heap'[o].state = "FAILED",
         \A x \in Obj : x # o => heap'[x] = heap[x] /\ phase'[x] = phase[x]
  PROVE  PhaseInv' /\ HeapBudget'
<1>1. ASSUME NEW x \in Obj
      PROVE  /\ KeepsBudget(heap'[x])
             /\ phase'[x] \in {"body", "doomed"} => heap'[x].state = "PENDING"
             /\ phase'[x] = "failed" => heap'[x].state = "FAILED"
  BY DEF BudgetInv, PhaseInv, HeapBudget
<1> QED  BY <1>1 DEF PhaseInv, HeapBudget, KeepsBudget

\* Inserting a task, which the body of an execution may do before it fails.
LEMMA PushBudget ==
  ASSUME BudgetInv, NEW id \in ID, PushBack(id) \/ PushFront(id),
         \A x \in Obj : phase'[x] = phase[x] \/ (phase[x] = "body" /\ phase'[x] = "doomed")
  PROVE  PhaseInv' /\ HeapBudget'
<1>1. PICK n \in Obj \ InUse : heap' = [heap EXCEPT ![n] = NewTask(id)]
  BY PushListed DEF BudgetInv, ListInv
<1>2. phase[n] = "none"
  BY <1>1 DEF BudgetInv, ListInv, RunningTaskIsListed, InUse
<1>3. heap'[n] = NewTask(id) /\ \A x \in Obj : x # n => heap'[x] = heap[x]
  BY <1>1 DEF BudgetInv, ListInv, TypeOK
<1>4. ASSUME NEW x \in Obj
      PROVE  /\ KeepsBudget(heap'[x])
             /\ phase'[x] \in {"body", "doomed"} => heap'[x].state = "PENDING"
             /\ phase'[x] = "failed" => heap'[x].state = "FAILED"
  <2>1. CASE x = n
    BY <1>2, <1>3, <2>1, NewTaskBudget
  <2>2. CASE x # n
    BY <1>3, <2>2 DEF BudgetInv, PhaseInv, HeapBudget
  <2> QED  BY <2>1, <2>2
<1> QED  BY <1>4 DEF PhaseInv, HeapBudget, KeepsBudget

LEMMA SpawnBudget ==
  ASSUME BudgetInv, NEW o \in Obj, NEW id \in ID, Spawn(o, id) \/ SpawnAtFront(o, id)
  PROVE  PhaseInv' /\ HeapBudget'
<1>1. \A x \in Obj : phase'[x] = phase[x] \/ (phase[x] = "body" /\ phase'[x] = "doomed")
  BY DEF Spawn, SpawnAtFront, BudgetInv, ListInv, TypeOK
<1>2. CASE UNCHANGED heap
  BY <1>1, <1>2 DEF BudgetInv, PhaseInv, HeapBudget, KeepsBudget
<1>3. PushBack(id) \/ PushFront(id) \/ UNCHANGED heap
  BY DEF Spawn, SpawnAtFront, enqueueTask, enqueueTaskAtFront
<1> QED  BY <1>1, <1>2, <1>3, PushBudget

\* A pass begins only QUEUED tasks, and those have attempts left.
LEMMA PassBudget ==
  ASSUME BudgetInv, NEW q \in Queues, StartSync(q) \/ Pass(q)
  PROVE  PhaseInv' /\ HeapBudget'
<1>1. CASE UNCHANGED <<heap, phase>>
  BY <1>1 DEF BudgetInv, PhaseInv, HeapBudget, KeepsBudget
<1>2. CASE VisitParallel(q) \/ VisitInline(q)
  <2> DEFINE o == Curr(q)
  <2>1. o \in Obj /\ Begin(o)
    BY <1>2, CurrType DEF VisitParallel, VisitInline, BudgetInv, ListInv
  <2>2. /\ heap'[o] = [heap[o] EXCEPT !.state = "PENDING"] /\ phase'[o] = "body"
        /\ \A x \in Obj : x # o => heap'[x] = heap[x] /\ phase'[x] = phase[x]
    BY <2>1 DEF Begin, BudgetInv, ListInv, TypeOK
  <2>3. heap[o] \in Task /\ heap[o].state = "QUEUED" /\ KeepsBudget(heap[o])
    BY <2>1 DEF Begin, BudgetInv, ListInv, TypeOK, HeapBudget
  <2>4. KeepsBudget(heap'[o]) /\ heap'[o].state = "PENDING"
    BY <2>2, <2>3 DEF KeepsBudget, Task
  <2> HIDE DEF o
  <2> QED  BY <2>1, <2>2, <2>4, OneTaskBudget
<1>3. UNCHANGED <<heap, phase>> \/ VisitParallel(q) \/ VisitInline(q)
  BY DEF StartSync, Pass, Skip, EndVisits, Join, Sweep, EndSweep, execVars
<1> QED  BY <1>1, <1>2, <1>3

\* An attempt is counted, and its task given up when it was the last.
LEMMA ExecuteBudget ==
  ASSUME BudgetInv, NEW o \in Obj, Succeed(o) \/ Fail(o) \/ Settle(o)
  PROVE  PhaseInv' /\ HeapBudget'
<1>1. heap[o] \in Task /\ KeepsBudget(heap[o])
  BY DEF BudgetInv, ListInv, TypeOK, HeapBudget
<1>2. MaxRetries[heap[o].id] \in Nat \cup {-1} /\ heap[o].retries \in Nat
  BY <1>1, SyncAssumption DEF Task
<1>3. \A x \in Obj : x # o => heap'[x] = heap[x] /\ phase'[x] = phase[x]
  BY DEF Succeed, Fail, Settle, Return, BudgetInv, ListInv, TypeOK
<1>4. CASE Succeed(o)
  <2>1. heap'[o] = [heap[o] EXCEPT !.state = "SUCCESS"] /\ phase'[o] = "none"
    BY <1>4 DEF Succeed, Return, BudgetInv, ListInv, TypeOK
  <2>2. heap[o].state = "PENDING"
    BY <1>4 DEF Succeed, BudgetInv, PhaseInv
  <2>3. KeepsBudget(heap'[o])
    BY <1>1, <1>2, <2>1, <2>2 DEF KeepsBudget, Task
  <2> QED  BY <1>3, <2>1, <2>3, OneTaskBudget
<1>5. CASE Fail(o)
  <2>1. /\ heap'[o] = [heap[o] EXCEPT !.state = "FAILED",
             !.retries = IF MaxRetries[heap[o].id] = -1 THEN @ ELSE @ + 1]
        /\ phase'[o] = "failed"
    BY <1>5 DEF Fail, BudgetInv, ListInv, TypeOK
  <2>2. heap[o].state = "PENDING"
    BY <1>5 DEF Fail, BudgetInv, PhaseInv
  <2>3. KeepsBudget(heap'[o]) /\ heap'[o].state = "FAILED"
    BY <1>1, <1>2, <2>1, <2>2 DEF KeepsBudget, Task
  <2> QED  BY <1>3, <2>1, <2>3, OneTaskBudget
<1>6. CASE Settle(o)
  <2>1. /\ heap'[o] = [heap[o] EXCEPT !.state =
             IF MaxRetriesSurpassed(heap[o]) THEN "DEQUEUED" ELSE "QUEUED"]
        /\ phase'[o] = "none"
    BY <1>6 DEF Settle, Return, BudgetInv, ListInv, TypeOK
  <2>2. KeepsBudget(heap'[o])
    BY <1>1, <1>2, <2>1 DEF KeepsBudget, Task, MaxRetriesSurpassed
  <2> QED  BY <1>3, <2>1, <2>2, OneTaskBudget
<1> QED  BY <1>4, <1>5, <1>6

\* What is saved are tasks of the heap, and what is restored are saved tasks.
LEMMA StoreKeepsBudget ==
  ASSUME BudgetInv, NEW p \in Stoppers, storeQueue(p)
  PROVE  StoreBudget'
<1>1. CASE UNCHANGED store
  BY <1>1 DEF BudgetInv, StoreBudget, KeepsBudget
<1>2. CASE store' = [q \in Queues |->
                       [i \in 1 .. Len(queue[q]) |-> heap[queue[q][i]]]]
  <2>1. ASSUME NEW q \in Queues, NEW i \in DOMAIN store'[q]
        PROVE  KeepsBudget(store'[q][i])
    <3>1. i \in 1 .. Len(queue[q]) /\ store'[q][i] = heap[queue[q][i]]
      BY <1>2, <2>1
    <3>2. queue[q][i] \in Obj
      BY <3>1, ElementOfSeq DEF BudgetInv, ListInv, TypeOK
    <3> QED  BY <3>1, <3>2 DEF BudgetInv, HeapBudget
  <2> QED  BY <2>1 DEF StoreBudget, KeepsBudget
<1> QED  BY <1>1, <1>2 DEF storeQueue

LEMMA RestoreBudget ==
  ASSUME BudgetInv, initializeSync
  PROVE  PhaseInv' /\ HeapBudget' /\ StoreBudget'
<1>1. PhaseInv' /\ StoreBudget'
  BY DEF initializeSync, Start, PhaseInv, BudgetInv, StoreBudget, KeepsBudget
<1>2. CASE startFresh
  BY <1>1, <1>2, NewTaskBudget DEF startFresh, HeapBudget, KeepsBudget
<1>3. ASSUME NEW el \in [Queues -> Obj], el["taskQueue"] # el["filePinningQueue"],
             restoreQueue(el), NEW o \in Obj
      PROVE  KeepsBudget(heap'[o])
  <2>1. CASE \E q \in Queues : o = el[q] /\ store[q] # <<>>
    <3> DEFINE q == CHOOSE q \in Queues : o = el[q]
    <3>1. q \in Queues /\ store[q] # <<>>
      BY <1>3, <2>1 DEF Queues
    <3>2. heap'[o] = store[q][Len(store[q])]
      BY <1>3, <2>1 DEF restoreQueue
    <3>3. Len(store[q]) \in DOMAIN store[q]
      BY <3>1, EmptySeq, LenProperties DEF BudgetInv, ListInv, TypeOK
    <3> QED  BY <3>1, <3>2, <3>3 DEF BudgetInv, StoreBudget
  <2>2. CASE ~ \E q \in Queues : o = el[q] /\ store[q] # <<>>
    BY <1>3, <2>2, NewTaskBudget DEF restoreQueue
  <2> QED  BY <2>1, <2>2
<1> QED  BY <1>1, <1>2, <1>3 DEF initializeSync, HeapBudget, KeepsBudget

LEMMA InitBudgetInv == Init => BudgetInv
BY InitListInv, NewTaskBudget
DEF Init, BudgetInv, PhaseInv, HeapBudget, StoreBudget

LEMMA NextBudgetInv == BudgetInv /\ [Next]_vars => BudgetInv'
<1> SUFFICES ASSUME BudgetInv, [Next]_vars PROVE PhaseInv' /\ HeapBudget' /\ StoreBudget'
  BY NextListInv DEF BudgetInv
<1>1. ASSUME UNCHANGED store PROVE StoreBudget'
  BY <1>1 DEF BudgetInv, StoreBudget, KeepsBudget
<1>2. ASSUME UNCHANGED <<heap, phase>> PROVE PhaseInv' /\ HeapBudget'
  BY <1>2 DEF BudgetInv, PhaseInv, HeapBudget, KeepsBudget
<1>3. CASE UNCHANGED vars
  BY <1>1, <1>2, <1>3 DEF vars, execVars, downVars
<1>4. CASE Notify
  <2>1. UNCHANGED <<phase, store>>
    BY <1>4 DEF Notify, NotifyInsert, NotifyTest, execVars, downVars
  <2>2. ASSUME NEW c \in Caller, NotifyInsert(c) PROVE PhaseInv' /\ HeapBudget'
    <3>1. notifying[c] \in ID /\ PushBack(notifying[c])
      BY <2>2 DEF NotifyInsert, BudgetInv, ListInv, TypeOK
    <3> QED  BY <2>1, <3>1, PushBudget
  <2>3. ASSUME NEW c \in Caller, NEW id \in NotifyID, NotifyTest(c, id)
        PROVE  PhaseInv' /\ HeapBudget'
    BY <1>2, <2>3 DEF NotifyTest, execVars
  <2> QED  BY <1>1, <1>4, <2>1, <2>2, <2>3 DEF Notify
<1>5. ASSUME NEW q \in Queues, StartSync(q) \/ Pass(q)
      PROVE  PhaseInv' /\ HeapBudget' /\ StoreBudget'
  <2>1. UNCHANGED store
    BY <1>5 DEF StartSync, Pass, VisitParallel, VisitInline, Skip, EndVisits,
                Join, Sweep, EndSweep, downVars
  <2> QED  BY <1>1, <1>5, <2>1, PassBudget
<1>6. ASSUME NEW o \in Obj, Execute(o)
      PROVE  PhaseInv' /\ HeapBudget' /\ StoreBudget'
  <2>1. UNCHANGED store
    BY <1>6 DEF Execute, Succeed, Fail, Settle, Return, Spawn, SpawnAtFront, downVars
  <2> QED  BY <1>1, <1>6, <2>1, ExecuteBudget, SpawnBudget DEF Execute
<1>7. CASE \/ CallShutdown \/ CancelCtx \/ (\E q \in Queues : CtxDone(q))
           \/ \E p \in Stoppers : SendShutdowns(p)
  BY <1>1, <1>2, <1>7
  DEF CallShutdown, CancelCtx, CtxDone, SendShutdowns, SendShutdown, execVars
<1>8. ASSUME NEW p \in Stoppers, storeQueue(p)
      PROVE  PhaseInv' /\ HeapBudget' /\ StoreBudget'
  <2>1. UNCHANGED <<heap, phase>>
    BY <1>8 DEF storeQueue, execVars
  <2> QED  BY <1>2, <1>8, <2>1, StoreKeepsBudget
<1>9. CASE Restart \/ Crash
  BY <1>9, RestoreBudget DEF Restart, Crash
<1> QED  BY <1>3, <1>4, <1>5, <1>6, <1>7, <1>8, <1>9 DEF Next, Run, Stop

\* A task with a bound on its retries is executed at most MaxRetries + 1 times,
\* counted over all restarts, and is given up exactly when they are used up.
THEOREM RetriesStayInBudget == Spec => []RetryBudget
<1>1. BudgetInv => RetryBudget
  <2>1. BudgetInv => Listed \subseteq Obj
    BY ElementsType DEF BudgetInv, ListInv, Listed
  <2> QED  BY <2>1 DEF BudgetInv, HeapBudget, KeepsBudget, RetryBudget
<1> QED  BY <1>1, InitBudgetInv, NextBudgetInv, PTL DEF Spec

-------------------------------------------------------------------------------
(* Shutdown of the synchronizer: where the loops are at each stage of the      *)
(* client's call.  While the context is alive only that call ends a loop.      *)

ClientAt(S) == shutdown["client"] \in S
Gone(q) == pc[q] = "exited"

StopInv ==
  /\ TypeOK
  /\ ClientAt({"sendPin", "wait", "done"}) => Gone("taskQueue")
  /\ ClientAt({"wait", "done"}) => Gone("filePinningQueue")
  /\ ~ctxDone =>
       /\ \A q \in Queues : shutdown[q] = "idle"
       /\ ClientAt({"idle", "sendTask"}) => ~Gone("taskQueue")
       /\ ClientAt({"idle", "sendTask", "sendPin"}) => ~Gone("filePinningQueue")

LEMMA QueueNames ==
  /\ "taskQueue" \in Queues /\ "filePinningQueue" \in Queues
  /\ "client" \in Stoppers /\ "client" \notin Queues
  /\ Stoppers = Queues \cup {"client"}
BY DEF Queues, Stoppers

\* A step that ends no loop, revives none and leaves Shutdown where it is.
LEMMA QuietKeepsStopInv ==
  ASSUME StopInv, TypeOK', UNCHANGED <<shutdown, ctxDone>>,
         \A q \in Queues : Gone(q)' = Gone(q)
  PROVE  StopInv'
BY QueueNames DEF StopInv, ClientAt

\* A pass begins and ends in its select, and its executors do not leave it.
LEMMA RunKeepsStopInv ==
  ASSUME StopInv, TypeOK', Run  PROVE  StopInv'
<1> USE DEF StopInv, TypeOK, Gone
<1>1. CASE Notify
  BY <1>1, QuietKeepsStopInv
  DEF Notify, NotifyTest, NotifyInsert, loopVars, downVars
<1>2. ASSUME NEW q \in Queues, StartSync(q) \/ Pass(q)  PROVE  StopInv'
  <2>1. UNCHANGED <<shutdown, ctxDone>>
    BY <1>2 DEF StartSync, Pass, VisitParallel, VisitInline, Skip, EndVisits, Join,
                Sweep, EndSweep, downVars
  <2>2. pc[q] # "exited" /\ \E at \in {pc[q], "visit", "inline", "join", "sweep", "select"} :
          pc' = [pc EXCEPT ![q] = at]
    BY <1>2 DEF StartSync, Pass, VisitParallel, VisitInline, Skip, EndVisits, Join,
                Sweep, EndSweep
  <2>3. \A x \in Queues : Gone(x)' = Gone(x)
    BY <2>2
  <2> QED  BY <2>1, <2>3, QuietKeepsStopInv
<1>3. ASSUME NEW o \in Obj, Execute(o)  PROVE  StopInv'
  <2>1. UNCHANGED <<shutdown, ctxDone>>
    BY <1>3 DEF Execute, Succeed, Fail, Settle, Return, Spawn, SpawnAtFront, downVars
  <2>2. UNCHANGED pc \/ \E ok \in BOOLEAN : ReturnInline(o, ok)
    BY <1>3
    DEF Execute, Succeed, Fail, Settle, Return, ReturnParallel, Spawn, SpawnAtFront, loopVars
  <2>3. ASSUME NEW ok \in BOOLEAN, ReturnInline(o, ok)
        PROVE  \A q \in Queues : Gone(q)' = Gone(q)
    BY <2>3 DEF ReturnInline, IsInline
  <2> QED  BY <2>1, <2>2, <2>3, QuietKeepsStopInv
<1> QED  BY <1>1, <1>2, <1>3 DEF Run

\* A message ends the loop that takes it, and the client moves on to the next.
LEMMA SendKeepsStopInv ==
  ASSUME StopInv, TypeOK', NEW p \in Stoppers, SendShutdowns(p)  PROVE  StopInv'
<1>1. CASE p = "client"
  BY <1>1, QueueNames DEF StopInv, TypeOK, Gone, ClientAt, SendShutdowns, SendShutdown
<1>2. CASE p \in Queues
  <2>1. ctxDone /\ ctxDone'
    BY <1>2 DEF StopInv, SendShutdowns, SendShutdown
  <2>2. ClientAt({"sendPin", "wait", "done"})' = ClientAt({"sendPin", "wait", "done"})
        /\ ClientAt({"wait", "done"})' = ClientAt({"wait", "done"})
    BY <1>2, QueueNames DEF StopInv, TypeOK, ClientAt, SendShutdowns, SendShutdown
  <2>3. \A q \in Queues : Gone(q) => Gone(q)'
    BY QueueNames DEF StopInv, TypeOK, Gone, SendShutdowns, SendShutdown
  <2> QED  BY <2>1, <2>2, <2>3, QueueNames DEF StopInv
<1> QED  BY <1>1, <1>2, QueueNames

LEMMA StopKeepsStopInv ==
  ASSUME StopInv, TypeOK',
         \/ CallShutdown \/ CancelCtx \/ (\E q \in Queues : CtxDone(q))
         \/ \E p \in Stoppers : storeQueue(p)
  PROVE  StopInv'
<1> USE QueueNames DEF StopInv, TypeOK, Gone, ClientAt
<1>1. CASE CallShutdown  BY <1>1 DEF CallShutdown, loopVars
<1>2. CASE CancelCtx  BY <1>2 DEF CancelCtx, loopVars
<1>3. ASSUME NEW q \in Queues, CtxDone(q)  PROVE  StopInv'
  BY <1>3 DEF CtxDone
<1>4. ASSUME NEW p \in Stoppers, storeQueue(p)  PROVE  StopInv'
  BY <1>4 DEF storeQueue, loopVars
<1> QED  BY <1>1, <1>2, <1>3, <1>4

LEMMA NextStopInv == StopInv /\ [Next]_vars => StopInv'
<1> SUFFICES ASSUME StopInv, [Next]_vars  PROVE  StopInv'
  OBVIOUS
<1>1. TypeOK'  BY NextType DEF StopInv
<1>2. CASE UNCHANGED vars
  BY <1>1, <1>2, QuietKeepsStopInv DEF vars, loopVars, downVars, Gone
<1>3. CASE Run  BY <1>1, <1>3, RunKeepsStopInv
<1>4. CASE Stop \/ CancelCtx \/ (\E q \in Queues : CtxDone(q))
  BY <1>1, <1>4, SendKeepsStopInv, StopKeepsStopInv DEF Stop
<1>5. CASE Restart \/ Crash
  BY <1>1, <1>5, QueueNames
  DEF StopInv, Restart, Crash, initializeSync, Start, ClientAt, Gone
<1> QED  BY <1>2, <1>3, <1>4, <1>5 DEF Next

\* While its context is alive Shutdown finds each loop to take its message, at
\* whatever point of its passes, and it saves the lists only when both are gone.
THEOREM ShutdownsAreReceived == Spec => []ShutdownIsReceived
<1>1. Init => StopInv
  BY InitType, QueueNames DEF Init, StopInv, ClientAt, Gone
<1>2. StopInv => ShutdownIsReceived
  BY QueueNames DEF StopInv, ShutdownIsReceived, ClientAt, Gone, Queues
<1> QED  BY <1>1, <1>2, NextStopInv, PTL DEF Spec

-------------------------------------------------------------------------------
(* The synchronizer implements TaskPool: every step of its loops, callers,     *)
(* executions, shutdowns and restarts is a step of the pool or changes nothing *)
(* of it                                                                       *)

(* The pool, read off the synchronizer *)

Outstanding == {heap[o].id : o \in {x \in Listed : Live(x)}}
Running == {heap[o].id : o \in {x \in Obj : phase[x] # "none"}}
Saved == UNION {{store[q][i].id :
             i \in {j \in DOMAIN store[q] :
                      store[q][j].state \notin {"SUCCESS", "DEQUEUED"}}} :
             q \in Queues}

LEMMA ListedType == TypeOK => Listed \subseteq Obj
BY ElementsType DEF Listed

\* A step that leaves every listed task as live as it was, and every execution.
LEMMA PoolStutters ==
  ASSUME Listed' = Listed, UNCHANGED store,
         \A o \in Listed : heap'[o].id = heap[o].id /\ (Live(o)' <=> Live(o)),
         \A o \in Obj : heap'[o].id = heap[o].id
                        /\ (phase'[o] # "none" <=> phase[o] # "none")
  PROVE  UNCHANGED <<Outstanding, Running, Saved>>
<1>1. Outstanding' = Outstanding
  BY DEF Outstanding
<1>2. Running' = Running
  BY DEF Running
<1>3. Saved' = Saved
  BY DEF Saved
<1> QED  BY <1>1, <1>2, <1>3

\* An inserted task is one more outstanding task.
LEMMA PushSubmits ==
  ASSUME ListInv, NEW id \in ID, PushBack(id) \/ PushFront(id), UNCHANGED store,
         \A o \in Obj : phase'[o] # "none" <=> phase[o] # "none"
  PROVE  Outstanding' = Outstanding \cup {id} /\ UNCHANGED <<Running, Saved>>
<1>1. PICK n \in Obj \ InUse :
        /\ heap' = [heap EXCEPT ![n] = NewTask(id)]
        /\ \A q \in Queues :
             Elements(q)' = Elements(q) \cup (IF q = Home[id] THEN {n} ELSE {})
  BY PushListed DEF ListInv
<1>2. n \notin Listed /\ phase[n] = "none" /\ Listed' = Listed \cup {n}
  BY <1>1, HomeType DEF InUse, ListInv, RunningTaskIsListed, Listed
<1>3. heap'[n] = NewTask(id) /\ \A o \in Obj : o # n => heap'[o] = heap[o]
  BY <1>1 DEF ListInv, TypeOK
<1>4. heap'[n].id = id /\ Live(n)'
  BY <1>3 DEF NewTask, Live, isFinished
<1>5. Listed \subseteq Obj
  BY ListedType DEF ListInv
<1>6. \A o \in Listed : o # n /\ heap'[o] = heap[o] /\ (Live(o)' <=> Live(o))
  BY <1>2, <1>3, <1>5 DEF Live, isFinished
<1>7. Outstanding' = Outstanding \cup {id}
  BY <1>2, <1>4, <1>6 DEF Outstanding
<1>8. Running' = Running
  BY <1>2, <1>3 DEF Running
<1>9. Saved' = Saved
  BY DEF Saved
<1> QED  BY <1>7, <1>8, <1>9

\* A pass begins a listed task that is not done.
LEMMA BeginBegins ==
  ASSUME ListInv, NEW o \in Listed, o \in Obj, Begin(o), UNCHANGED <<queue, store>>
  PROVE  /\ heap[o].id \in Outstanding
         /\ Running' = Running \cup {heap[o].id}
         /\ UNCHANGED <<Outstanding, Saved>>
<1>1. Listed' = Listed /\ Listed \subseteq Obj
  BY SameListed, ListedType DEF ListInv
<1>2. /\ heap[o].state = "QUEUED" /\ heap'[o].state = "PENDING"
      /\ heap'[o].id = heap[o].id /\ phase'[o] = "body"
      /\ \A x \in Obj : x # o => heap'[x] = heap[x] /\ phase'[x] = phase[x]
  BY DEF Begin, ListInv, TypeOK, Task
<1>3. Live(o) /\ Live(o)' /\ \A x \in Obj : x # o => (Live(x)' <=> Live(x))
  BY <1>2 DEF Live, isFinished
<1>4. heap[o].id \in Outstanding
  BY <1>3 DEF Outstanding
<1>5. Running' = Running \cup {heap[o].id}
  BY <1>2 DEF Running
<1>6. Outstanding' = Outstanding
  BY <1>1, <1>2, <1>3 DEF Outstanding
<1>7. Saved' = Saved
  BY DEF Saved
<1> QED  BY <1>4, <1>5, <1>6, <1>7

\* An execution ends, in whatever state it leaves its task.
LEMMA EndEnds ==
  ASSUME ListInv, NEW o \in Obj, phase[o] # "none", phase'[o] = "none",
         heap'[o].id = heap[o].id, ~ Live(o)' \/ Live(o),
         \A x \in Obj : x # o => heap'[x] = heap[x] /\ phase'[x] = phase[x],
         UNCHANGED <<queue, store>>
  PROVE  /\ heap[o].id \in Running
         /\ Running' \in {Running, Running \ {heap[o].id}}
         /\ Outstanding' \in {Outstanding, Outstanding \ {heap[o].id}}
         /\ UNCHANGED Saved
<1> DEFINE id == heap[o].id
<1>1. Listed' = Listed /\ Listed \subseteq Obj /\ o \in Listed
  BY SameListed, ListedType DEF ListInv, RunningTaskIsListed
<1>2. \A x \in Obj : x # o => (Live(x)' <=> Live(x))
  BY DEF Live, isFinished
<1>3. id \in Running
  BY DEF Running
<1>4. \A x \in Obj : heap'[x].id = heap[x].id
  OBVIOUS
<1>5. \A i : i # id => (i \in Running' <=> i \in Running)
  BY <1>4 DEF Running
<1>6. \A i : i \in Running' => i \in Running
  BY <1>4 DEF Running
<1>7. \A i : i # id => (i \in Outstanding' <=> i \in Outstanding)
  BY <1>1, <1>2, <1>4 DEF Outstanding
<1>8. \A i : i \in Outstanding' => i \in Outstanding
  BY <1>1, <1>2, <1>4 DEF Outstanding
<1>9. Saved' = Saved
  BY DEF Saved
<1>10. Running' \in {Running, Running \ {id}}
  BY <1>5, <1>6
<1>11. Outstanding' \in {Outstanding, Outstanding \ {id}}
  BY <1>7, <1>8
<1> QED  BY <1>3, <1>9, <1>10, <1>11

\* Shutdown saves the outstanding tasks, or fails to.
LEMMA StoreSaves ==
  ASSUME ListInv, NEW p \in Stoppers, storeQueue(p)
  PROVE  Saved' \in {Saved, Outstanding} /\ UNCHANGED <<Outstanding, Running>>
<1>1. UNCHANGED <<heap, queue, phase>>
  BY DEF storeQueue, execVars
<1>2. Outstanding' = Outstanding /\ Running' = Running
  BY <1>1, SameListed DEF Outstanding, Running, Live, isFinished
<1>3. CASE UNCHANGED store
  BY <1>2, <1>3 DEF Saved
<1>4. CASE store' = [q \in Queues |->
                       [i \in 1 .. Len(queue[q]) |-> heap[queue[q][i]]]]
  <2>1. \A q \in Queues : DOMAIN queue[q] = 1 .. Len(queue[q])
    BY LenProperties DEF ListInv, TypeOK
  <2>2. \A q \in Queues : /\ DOMAIN store'[q] = DOMAIN queue[q]
                          /\ \A i \in DOMAIN queue[q] : store'[q][i] = heap[queue[q][i]]
    BY <1>4, <2>1
  <2>3. ASSUME NEW id \in Saved' PROVE id \in Outstanding
    <3>1. PICK q \in Queues : \E i \in DOMAIN store'[q] :
            store'[q][i].id = id /\ store'[q][i].state \notin {"SUCCESS", "DEQUEUED"}
      BY <2>3 DEF Saved
    <3>2. PICK i \in DOMAIN queue[q] :
            queue[q][i] \in Listed /\ Live(queue[q][i]) /\ heap[queue[q][i]].id = id
      BY <2>2, <3>1 DEF Listed, Elements, Live, isFinished
    <3> QED  BY <3>2 DEF Outstanding
  <2>4. ASSUME NEW id \in Outstanding PROVE id \in Saved'
    <3>1. PICK o \in Listed : Live(o) /\ heap[o].id = id
      BY <2>4 DEF Outstanding
    <3>2. PICK q \in Queues : \E i \in DOMAIN queue[q] : queue[q][i] = o
      BY <3>1 DEF Listed, Elements
    <3>3. \E i \in DOMAIN queue[q] :
          /\ i \in DOMAIN store'[q] /\ store'[q][i].id = id
          /\ store'[q][i].state \notin {"SUCCESS", "DEQUEUED"}
      BY <2>2, <3>1, <3>2 DEF Live, isFinished
    <3> QED  BY <3>3 DEF Saved
  <2> QED  BY <1>2, <2>3, <2>4
<1> QED  BY <1>3, <1>4 DEF storeQueue

\* A new synchronizer has no tasks but saved ones, and runs none.
LEMMA RestoreReopens ==
  ASSUME ListInv, initializeSync
  PROVE  Running' = {} /\ Outstanding' \subseteq Saved /\ Saved' = Saved
<1>1. Running' = {} /\ Saved' = Saved
  BY DEF initializeSync, Start, Running, Saved
<1>2. CASE startFresh
  <2>1. Listed' = {}
    BY <1>2 DEF startFresh, Listed, Elements
  <2> QED  BY <1>1, <2>1 DEF Outstanding
<1>3. ASSUME NEW el \in [Queues -> Obj], el["taskQueue"] # el["filePinningQueue"],
             restoreQueue(el), NEW id \in Outstanding'
      PROVE  id \in Saved
  <2>1. PICK o \in Listed' : Live(o)' /\ heap'[o].id = id
    BY <1>3 DEF Outstanding
  <2>2. PICK q \in Queues : o \in Elements(q)'
    BY DEF Listed
  <2>3. queue'[q] = [i \in 1 .. Cardinality(Pushed(store[q])) |-> el[q]]
    BY <1>3 DEF restoreQueue
  <2>4. o = el[q] /\ 1 .. Cardinality(Pushed(store[q])) # {}
    BY <2>2, <2>3 DEF Elements
  <2>5. store[q] \in Seq(Task)
    BY DEF ListInv, TypeOK
  <2>6. store[q] # <<>>
    <3>1. SUFFICES ASSUME store[q] = <<>> PROVE FALSE
      OBVIOUS
    <3>2. Pushed(store[q]) = {}
      BY <3>1 DEF Pushed
    <3> QED  BY <2>4, <3>2, FS_EmptySet
  <2>7. (CHOOSE p \in Queues : o = el[p]) = q
    BY <1>3, <2>4 DEF Queues
  <2>8. heap'[o] = store[q][Len(store[q])]
    <3>1. \E p \in Queues : o = el[p] /\ store[p] # <<>>
      BY <2>4, <2>6
    <3>2. o \in Obj
      BY <2>4
    <3> QED  BY <1>3, <2>7, <3>1, <3>2 DEF restoreQueue
  <2>9. Len(store[q]) \in DOMAIN store[q]
    BY <2>5, <2>6, EmptySeq, LenProperties
  <2> QED  BY <2>1, <2>8, <2>9 DEF Saved, Live, isFinished
<1> QED  BY <1>1, <1>2, <1>3 DEF initializeSync

\* The steps of the pool, in the terms above.
PoolStep ==
  \/ UNCHANGED <<Outstanding, Running, Saved>>
  \/ \E id \in ID : Outstanding' = Outstanding \cup {id} /\ UNCHANGED <<Running, Saved>>
  \/ \E id \in ID \cap Outstanding :
       Running' = Running \cup {id} /\ UNCHANGED <<Outstanding, Saved>>
  \/ \E id \in ID \cap Running :
       /\ Running' \in {Running, Running \ {id}}
       /\ Outstanding' \in {Outstanding, Outstanding \ {id}}
       /\ UNCHANGED Saved
  \/ Saved' = Outstanding /\ UNCHANGED <<Outstanding, Running>>
  \/ Running' = {} /\ Outstanding' \subseteq Saved /\ UNCHANGED Saved

LEMMA PoolStepIsPoolNext == PoolStep => [Pool!Next]_(Pool!vars)
BY DEF PoolStep, Outstanding, Running, Saved, Pool!Next, Pool!vars, Pool!Submit,
       Pool!Begin, Pool!End, Pool!Save, Pool!Reopen

\* A task that is inserted, or dropped as a duplicate.
LEMMA EnqueueSteps ==
  ASSUME ListInv, NEW id \in ID, UNCHANGED store,
         PushBack(id) \/ PushFront(id) \/ UNCHANGED <<heap, queue>>,
         \A o \in Obj : phase'[o] # "none" <=> phase[o] # "none"
  PROVE  PoolStep
<1>1. CASE UNCHANGED <<heap, queue>>
  BY <1>1, SameListed, PoolStutters DEF Live, isFinished, PoolStep
<1> QED  BY <1>1, PushSubmits DEF PoolStep

LEMMA PassSteps ==
  ASSUME ListInv, NEW q \in Queues, StartSync(q) \/ Pass(q)
  PROVE  PoolStep
<1>1. CASE UNCHANGED <<heap, queue, phase, store>>
  BY <1>1, SameListed, PoolStutters DEF Live, isFinished, PoolStep
<1>2. CASE VisitParallel(q) \/ VisitInline(q)
  <2>1. /\ Curr(q) \in Obj /\ Curr(q) \in Listed /\ Begin(Curr(q))
        /\ UNCHANGED <<queue, store>>
    BY <1>2, CurrType, ElementsListed
    DEF VisitParallel, VisitInline, ListInv, downVars
  <2>2. heap[Curr(q)].id \in ID
    BY <2>1 DEF ListInv, TypeOK, Task
  <2> QED  BY <2>1, <2>2, BeginBegins DEF PoolStep
<1>3. CASE Sweep(q)
  <2>1. UNCHANGED <<heap, phase, store>>
    BY <1>3 DEF Sweep, execVars, downVars
  <2>2. \A p \in Queues : /\ Elements(p)' \subseteq Elements(p)
                          /\ \A o \in Elements(p) : Live(o) => o \in Elements(p)'
    BY <1>3, SweepListed DEF ListInv, Live
  <2>3. Listed' \subseteq Listed /\ \A o \in Listed : Live(o) => o \in Listed'
    BY <2>2 DEF Listed
  <2>4. Outstanding' = Outstanding
    BY <2>1, <2>3 DEF Outstanding, Live, isFinished
  <2>5. Running' = Running /\ Saved' = Saved
    BY <2>1 DEF Running, Saved
  <2> QED  BY <2>4, <2>5 DEF PoolStep
<1>4. \/ UNCHANGED <<heap, queue, phase, store>>
      \/ VisitParallel(q) \/ VisitInline(q) \/ Sweep(q)
  BY DEF StartSync, Pass, Skip, EndVisits, Join, EndSweep, execVars, downVars
<1> QED  BY <1>1, <1>2, <1>3, <1>4

LEMMA ExecuteSteps ==
  ASSUME ListInv, NEW o \in Obj, Execute(o)
  PROVE  PoolStep
<1>1. heap[o] \in Task /\ heap[o].id \in ID
  BY DEF ListInv, TypeOK, Task
<1>2. CASE Succeed(o) \/ Settle(o)
  <2>1. /\ phase[o] # "none" /\ phase' = [phase EXCEPT ![o] = "none"]
        /\ UNCHANGED <<queue, store>> /\ \E s : heap' = [heap EXCEPT ![o].state = s]
    BY <1>2 DEF Succeed, Settle, Return, downVars
  <2>2. /\ phase[o] # "none" /\ phase'[o] = "none"
        /\ heap'[o].id = heap[o].id /\ UNCHANGED <<queue, store>>
        /\ \A x \in Obj : x # o => heap'[x] = heap[x] /\ phase'[x] = phase[x]
    BY <1>1, <2>1 DEF ListInv, TypeOK, Task
  <2>3. Live(o)
    BY <2>1 DEF ListInv, RunningTaskIsListed, Live, isFinished
  <2> QED  BY <1>1, <2>2, <2>3, EndEnds DEF PoolStep
<1>3. CASE Fail(o)
  <2>1. UNCHANGED <<queue, store>> /\ Listed' = Listed
    BY <1>3, SameListed DEF Fail, downVars
  <2>2. /\ phase[o] # "none" /\ phase'[o] # "none" /\ heap'[o].id = heap[o].id
        /\ heap'[o].state = "FAILED"
        /\ \A x \in Obj : x # o => heap'[x] = heap[x] /\ phase'[x] = phase[x]
    BY <1>1, <1>3 DEF Fail, ListInv, TypeOK, Task
  <2>3. Live(o) /\ Live(o)'
    BY <2>2 DEF ListInv, RunningTaskIsListed, Live, isFinished
  <2>4. \A x \in Obj : /\ heap'[x].id = heap[x].id /\ (Live(x)' <=> Live(x))
                       /\ (phase'[x] # "none" <=> phase[x] # "none")
    BY <2>2, <2>3 DEF Live, isFinished
  <2>5. Listed \subseteq Obj
    BY ListedType DEF ListInv
  <2> QED  BY <2>1, <2>4, <2>5, PoolStutters DEF PoolStep
<1>4. ASSUME NEW id \in ID, Spawn(o, id) \/ SpawnAtFront(o, id)
      PROVE  PoolStep
  <2>1. /\ PushBack(id) \/ PushFront(id) \/ UNCHANGED <<heap, queue>>
        /\ UNCHANGED store
    BY <1>4 DEF Spawn, SpawnAtFront, enqueueTask, enqueueTaskAtFront, downVars
  <2>2. \A x \in Obj : phase'[x] # "none" <=> phase[x] # "none"
    BY <1>4 DEF Spawn, SpawnAtFront, ListInv, TypeOK
  <2> QED  BY <2>1, <2>2, EnqueueSteps
<1> QED  BY <1>2, <1>3, <1>4 DEF Execute

LEMMA NextSteps == ListInv /\ [Next]_vars => PoolStep
<1> SUFFICES ASSUME ListInv, [Next]_vars PROVE PoolStep
  OBVIOUS
<1>1. ASSUME UNCHANGED <<heap, queue, phase, store>> PROVE PoolStep
  BY <1>1, SameListed, PoolStutters DEF Live, isFinished, PoolStep
<1>2. CASE UNCHANGED vars
  BY <1>1, <1>2 DEF vars, execVars, downVars
<1>3. CASE Notify
  <2>1. ASSUME NEW c \in Caller, NotifyInsert(c) PROVE PoolStep
    <3>1. notifying[c] \in ID /\ PushBack(notifying[c]) /\ UNCHANGED <<phase, store>>
      BY <2>1 DEF NotifyInsert, execVars, downVars, ListInv, TypeOK
    <3> QED  BY <3>1, EnqueueSteps
  <2>2. ASSUME NEW c \in Caller, NEW id \in NotifyID, NotifyTest(c, id) PROVE PoolStep
    BY <1>1, <2>2 DEF NotifyTest, execVars, downVars
  <2> QED  BY <1>3, <2>1, <2>2 DEF Notify
<1>4. CASE \/ CallShutdown \/ CancelCtx \/ (\E q \in Queues : CtxDone(q))
           \/ \E p \in Stoppers : SendShutdowns(p)
  BY <1>1, <1>4
  DEF CallShutdown, CancelCtx, CtxDone, SendShutdowns, SendShutdown, execVars
<1>5. ASSUME NEW p \in Stoppers, storeQueue(p) PROVE PoolStep
  BY <1>5, StoreSaves DEF PoolStep
<1>6. CASE Restart \/ Crash
  BY <1>6, RestoreReopens DEF Restart, Crash, PoolStep
<1> QED  BY <1>2, <1>3, <1>4, <1>5, <1>6, PassSteps, ExecuteSteps DEF Next, Run, Stop

LEMMA InitStarts == Init => Pool!Init
<1> SUFFICES ASSUME Init PROVE Outstanding = {} /\ Running = {} /\ Saved = {}
  BY DEF Pool!Init, Outstanding, Running, Saved
<1>1. \A q \in Queues : DOMAIN queue[q] = {} /\ DOMAIN store[q] = {}
  BY DEF Init
<1> QED  BY <1>1 DEF Init, Outstanding, Running, Saved, Listed, Elements

\* No task that was accepted is lost but by an execution that ends, only
\* outstanding tasks are executed, and a restart resurrects none that was not
\* saved (synchronizer.go:272-395, queue.go:40-105).
THEOREM ImplementsTaskPool == Spec => PoolSpec
<1>1. Spec => []ListInv
  BY ListInvHolds
<1>2. ListInv /\ [Next]_vars => [Pool!Next]_(Pool!vars)
  BY NextSteps, PoolStepIsPoolNext
<1> QED  BY <1>1, <1>2, InitStarts, PTL DEF Spec, PoolSpec, Pool!Spec

-------------------------------------------------------------------------------
(* The order of a list.  A pass that is to go on has left behind it no task   *)
(* that may not run in parallel and is not done: one that is PENDING or       *)
(* FAILED is being executed, so that the pass waits for it, and one that is   *)
(* pushed to the front is pushed by a task that ends the pass.                *)

InOrder(q) ==
  \A i \in 1 .. curr[q] - 1 :
    /\ i \in DOMAIN queue[q]
    /\ heap[queue[q][i]].id \notin Parallelizable => isFinished(queue[q][i])

\* The pass goes on from its element, or will if that one succeeds.
GoesOn(q) ==
  \/ pc[q] = "visit"
  \/ pc[q] = "inline" /\ AtElement(q) /\ phase[Curr(q)] = "body"

BusyInv == \A o \in Obj : heap[o].state \in {"PENDING", "FAILED"} => phase[o] # "none"

OrderInv == ExclusionInv /\ BusyInv /\ \A q \in Queues : GoesOn(q) => InOrder(q)

LEMMA InOrderStays ==
  ASSUME TypeOK, NEW q \in Queues, InOrder(q), curr'[q] = curr[q],
         \A i \in DOMAIN queue[q] : i \in DOMAIN queue'[q] /\ queue'[q][i] = queue[q][i],
         \A o \in Elements(q) : heap'[o].id = heap[o].id /\ (isFinished(o) => isFinished(o)')
  PROVE  InOrder(q)'
<1> SUFFICES ASSUME NEW i \in 1 .. curr[q] - 1
             PROVE  /\ i \in DOMAIN queue'[q]
                    /\ heap'[queue'[q][i]].id \notin Parallelizable => isFinished(queue[q][i])'
                    /\ queue'[q][i] = queue[q][i]
  BY DEF InOrder, isFinished
<1>1. /\ i \in DOMAIN queue[q] /\ queue[q][i] \in Elements(q)
      /\ heap[queue[q][i]].id \notin Parallelizable => isFinished(queue[q][i])
  BY DEF InOrder, Elements
<1>2. i \in DOMAIN queue'[q] /\ queue'[q][i] = queue[q][i] BY <1>1
<1> DEFINE o == queue[q][i]
<1>3. o \in Elements(q) /\ queue'[q][i] = o BY <1>1, <1>2
<1>4. heap'[queue'[q][i]].id = heap[o].id BY <1>3
<1> QED BY <1>1, <1>2, <1>3, <1>4 DEF isFinished

\* The pass steps over an element that may run in parallel or is done.
LEMMA InOrderExtends ==
  ASSUME TypeOK, NEW q \in Queues, InOrder(q), AtElement(q),
         curr'[q] = curr[q] + 1, queue'[q] = queue[q],
         \A o \in Elements(q) : heap'[o].id = heap[o].id /\ (isFinished(o) => isFinished(o)'),
         NEW c, c = Curr(q), heap[c].id \notin Parallelizable => isFinished(c)'
  PROVE  InOrder(q)'
<1> SUFFICES ASSUME NEW i \in 1 .. curr[q]
             PROVE  /\ i \in DOMAIN queue[q]
                    /\ heap'[queue[q][i]].id \notin Parallelizable
                         => isFinished(queue[q][i])'
  <2>1. curr'[q] - 1 = curr[q]
    BY DEF TypeOK
  <2> QED  BY <2>1 DEF InOrder, isFinished
<1>1. i = curr[q] \/ i \in 1 .. curr[q] - 1
  BY DEF TypeOK
<1>2. /\ i \in DOMAIN queue[q]
      /\ heap[queue[q][i]].id \notin Parallelizable
           => isFinished(queue[q][i]) \/ isFinished(queue[q][i])'
  <2>1. CASE i = curr[q]
    BY <2>1 DEF AtElement, Curr, isFinished
  <2>2. CASE i \in 1 .. curr[q] - 1
    BY <2>2 DEF InOrder
  <2> QED  BY <1>1, <2>1, <2>2
<1> DEFINE o == queue[q][i]
<1>3. o \in Elements(q)
  BY <1>2 DEF Elements
<1>4. heap'[o].id = heap[o].id /\ (isFinished(o) => isFinished(o)')
  BY <1>3
<1> QED  BY <1>2, <1>4

\* A step that leaves the position of a pass, and what it has behind it.
LEMMA OrderStays ==
  ASSUME TypeOK, NEW q \in Queues, GoesOn(q) => InOrder(q),
         GoesOn(q)' => GoesOn(q), curr'[q] = curr[q], queue'[q] = queue[q],
         \A o \in Elements(q) : heap'[o].id = heap[o].id /\ (isFinished(o) => isFinished(o)')
  PROVE  GoesOn(q)' => InOrder(q)'
BY InOrderStays

\* It does so when it starts no task at the position of the pass.
LEMMA StillGoesOn ==
  ASSUME TypeOK, NEW q \in Queues, pc'[q] = pc[q], curr'[q] = curr[q],
         queue'[q] = queue[q],
         \A o \in Elements(q) : phase'[o] = "body" => phase[o] = "body"
  PROVE  GoesOn(q)' => GoesOn(q)
<1> SUFFICES ASSUME pc[q] = "inline", AtElement(q)', phase'[Curr(q)'] = "body"
             PROVE  AtElement(q) /\ phase[Curr(q)] = "body"
  BY DEF GoesOn
<1>1. AtElement(q) /\ Curr(q)' = Curr(q)
  BY DEF AtElement, Curr
<1>2. Curr(q) \in Elements(q)
  BY <1>1 DEF AtElement, Curr, Elements
<1> QED  BY <1>1, <1>2

\* A new element at the end is behind every position.
LEMMA PushBackKeepsOrder ==
  ASSUME OrderInv, NEW id \in ID, PushBack(id), UNCHANGED <<pc, curr, phase>>
  PROVE  BusyInv' /\ \A q \in Queues : GoesOn(q)' => InOrder(q)'
<1>1. PICK n \in Obj \ InUse :
        /\ heap' = [heap EXCEPT ![n] = NewTask(id)]
        /\ queue' = [queue EXCEPT ![Home[id]] = Append(@, n)]
  BY DEF PushBack, Place
<1>2. TypeOK /\ BusyInv
  BY DEF OrderInv, ExclusionInv, ListInv
<1>3. phase[n] = "none" /\ n \notin Listed
  BY <1>1 DEF InUse, OrderInv, ExclusionInv, ListInv, RunningTaskIsListed
<1>4. heap'[n].state = "QUEUED" /\ \A o \in Obj : o # n => heap'[o] = heap[o]
  BY <1>1, <1>2 DEF TypeOK, NewTask
<1>5. BusyInv'
  BY <1>2, <1>4 DEF BusyInv
<1>6. ASSUME NEW q \in Queues, GoesOn(q)' PROVE InOrder(q)'
  <2>1. Len(queue[q]) \in Nat /\ DOMAIN queue[q] = 1 .. Len(queue[q]) /\ queue[q] \in Seq(Obj)
    BY <1>2, LenProperties DEF TypeOK
  <2>2. \/ queue'[q] = queue[q]
        \/ queue'[q] = Append(queue[q], n)
    BY <1>1, <1>2, HomeType DEF TypeOK
  <2>3. \A i \in DOMAIN queue[q] : i \in DOMAIN queue'[q] /\ queue'[q][i] = queue[q][i]
    BY <2>1, <2>2
  <2>4. \A i \in DOMAIN queue'[q] : i \in DOMAIN queue[q] \/ queue'[q][i] = n
    BY <2>1, <2>2
  <2>5. GoesOn(q)
    <3>1. CASE pc[q] = "visit"
      BY <3>1 DEF GoesOn
    <3>2. CASE pc[q] # "visit"
      <4>1. pc[q] = "inline" /\ curr[q] \in DOMAIN queue'[q]
            /\ phase[queue'[q][curr[q]]] = "body"
        BY <1>6, <3>2 DEF GoesOn, AtElement, Curr
      <4>2. curr[q] \in DOMAIN queue[q]
        BY <1>3, <2>4, <4>1
      <4> QED  BY <2>3, <4>1, <4>2 DEF GoesOn, AtElement, Curr
    <3> QED  BY <3>1, <3>2
  <2>6. InOrder(q)
    BY <2>5 DEF OrderInv
  <2>7. \A o \in Elements(q) : o # n /\ o \in Obj
    BY <1>2, <1>3, ElementsListed, ElementsType
  <2>8. \A o \in Elements(q) :
          heap'[o].id = heap[o].id /\ (isFinished(o) => isFinished(o)')
    BY <1>4, <2>7 DEF isFinished
  <2> QED  BY <1>2, <2>3, <2>6, <2>8, InOrderStays
<1> QED  BY <1>5, <1>6

\* The first element is pushed by the task the pass waits for, which fails.
LEMMA SpawnAtFrontKeepsOrder ==
  ASSUME OrderInv, NEW o \in Obj, NEW id \in ID, SpawnAtFront(o, id), ExclusionInv'
  PROVE  BusyInv' /\ \A q \in Queues : GoesOn(q)' => InOrder(q)'
<1>1. TypeOK /\ TypeOK' /\ BusyInv /\ UNCHANGED pc
  BY DEF OrderInv, ExclusionInv, ListInv, SpawnAtFront
<1>2. PICK h \in Queues : h = Home[heap[o].id] /\ heap[o].id \in ID
  BY <1>1, HomeType DEF TypeOK, Task
<1>3. heap[o].id \notin Parallelizable /\ Home[id] = h
  BY <1>2, FrontAssumption DEF SpawnAtFront
<1>4. phase[o] = "body" /\ phase' = [phase EXCEPT ![o] = "doomed"]
  BY DEF SpawnAtFront
<1>5. phase'[o] = "doomed" /\ \A x \in Obj : x # o => phase'[x] = phase[x]
  BY <1>1, <1>4 DEF TypeOK
<1>6. \/ UNCHANGED <<heap, queue, curr>>
      \/ PushFront(id)
  BY DEF SpawnAtFront, enqueueTaskAtFront
<1>7. \/ UNCHANGED heap
      \/ \E n \in Obj \ InUse : heap' = [heap EXCEPT ![n] = NewTask(id)]
  BY <1>6 DEF PushFront, Place
<1>8. \A x \in Listed : heap'[x] = heap[x]
  BY <1>1, <1>7, ListedType DEF TypeOK, InUse
<1>9. BusyInv'
  <2>1. ASSUME NEW n \in Obj, heap' = [heap EXCEPT ![n] = NewTask(id)] PROVE BusyInv'
    BY <1>1, <1>5, <2>1 DEF BusyInv, TypeOK, NewTask
  <2> QED  BY <1>1, <1>5, <1>7, <2>1 DEF BusyInv
<1>10. ~GoesOn(h)'
  <2>1. o \in Listed /\ IsInline(o)
    BY <1>3, <1>4 DEF OrderInv, ExclusionInv, ListInv, RunningTaskIsListed, InlineInv
  <2>2. heap'[o].id \notin Parallelizable /\ Home[heap'[o].id] = h
    BY <1>2, <1>3, <1>8, <2>1
  <2>3. IsInline(o)'
    BY <1>5, <2>2 DEF ExclusionInv, InlineInv
  <2>4. pc'[h] = "inline" /\ Curr(h)' = o
    BY <2>2, <2>3 DEF IsInline
  <2> QED  BY <1>5, <2>4 DEF GoesOn
<1>11. ASSUME NEW q \in Queues, q # h PROVE GoesOn(q)' => InOrder(q)'
  <2>1. queue'[q] = queue[q] /\ curr'[q] = curr[q]
    <3>1. CASE PushFront(id)
      <4>1. \E n \in Obj : queue' = [queue EXCEPT ![h] = <<n>> \o @]
        BY <1>3, <3>1 DEF PushFront
      <4>2. UNCHANGED curr \/ curr' = [curr EXCEPT ![h] = @ + 1]
        BY <1>3, <3>1 DEF PushFront
      <4> QED  BY <1>1, <1>11, <4>1, <4>2 DEF TypeOK
    <3> QED  BY <1>6, <3>1
  <2>2. \A x \in Elements(q) : x \in Obj /\ heap'[x] = heap[x]
    BY <1>1, <1>8, ElementsListed, ElementsType
  <2>3. \A x \in Elements(q) : phase'[x] = "body" => phase[x] = "body"
    BY <1>5, <2>2
  <2>4. GoesOn(q)' => GoesOn(q)
    BY <1>1, <2>1, <2>3, StillGoesOn
  <2>5. GoesOn(q) => InOrder(q)
    BY DEF OrderInv
  <2>6. \A x \in Elements(q) :
          heap'[x].id = heap[x].id /\ (isFinished(x) => isFinished(x)')
    BY <2>2 DEF isFinished
  <2> QED  BY <1>1, <2>1, <2>4, <2>5, <2>6, OrderStays
<1> QED  BY <1>9, <1>10, <1>11

\* What ends an execution changes a task that was not finished.
LEMMA EndsKeepTasks ==
  ASSUME ListInv, NEW o \in Obj, Succeed(o) \/ Fail(o) \/ Settle(o)
  PROVE  /\ UNCHANGED queue
         /\ \A x \in Obj : /\ heap'[x].id = heap[x].id
                           /\ isFinished(x) => isFinished(x)'
                           /\ x # o => heap'[x] = heap[x] /\ phase'[x] = phase[x]
         /\ phase[o] # "none" /\ phase'[o] # "body"
<1>1. heap \in [Obj -> Task] /\ TypeOK
  BY DEF ListInv, TypeOK
<1>2. UNCHANGED queue /\ phase[o] # "none"
  BY DEF Succeed, Fail, Settle, Return
<1>3. heap[o].state \in {"PENDING", "FAILED"}
  BY <1>2 DEF ListInv, RunningTaskIsListed
<1>4. /\ heap'[o].id = heap[o].id
      /\ \A x \in Obj : x # o => heap'[x] = heap[x]
  <2>1. CASE Succeed(o) \/ Settle(o)
    <3>1. PICK s : heap' = [heap EXCEPT ![o].state = s]
      BY <2>1 DEF Succeed, Settle
    <3> QED  BY <1>1, <3>1 DEF Task
  <2>2. CASE Fail(o)
    BY <1>1, <2>2 DEF Fail, Task
  <2> QED  BY <2>1, <2>2
<1>5. phase'[o] # "body" /\ \A x \in Obj : x # o => phase'[x] = phase[x]
  <2>1. \E s \in {"none", "failed"} : phase' = [phase EXCEPT ![o] = s]
    BY DEF Succeed, Fail, Settle, Return
  <2> QED  BY <1>1, <2>1 DEF TypeOK
<1>6. \A x \in Obj : isFinished(x) => x # o
  BY <1>3 DEF isFinished
<1> QED  BY <1>2, <1>4, <1>5, <1>6 DEF isFinished

LEMMA EndsKeepBusy ==
  ASSUME ListInv, BusyInv, NEW o \in Obj, Succeed(o) \/ Fail(o) \/ Settle(o)
  PROVE  BusyInv'
<1>1. heap'[o].state \in {"PENDING", "FAILED"} => phase'[o] # "none"
  <2>1. CASE Succeed(o) \/ Settle(o)
    <3>1. \E s \in {"SUCCESS", "DEQUEUED", "QUEUED"} : heap' = [heap EXCEPT ![o].state = s]
      BY <2>1 DEF Succeed, Settle
    <3> QED  BY <3>1 DEF ListInv, TypeOK, Task
  <2>2. CASE Fail(o)
    BY <2>2 DEF Fail, ListInv, TypeOK
  <2> QED  BY <2>1, <2>2
<1>2. \A x \in Obj : x # o => heap'[x] = heap[x] /\ phase'[x] = phase[x]
  BY EndsKeepTasks
<1> QED  BY <1>1, <1>2 DEF BusyInv

LEMMA EndsKeepOrder ==
  ASSUME OrderInv, NEW o \in Obj, Succeed(o) \/ Fail(o) \/ Settle(o)
  PROVE  BusyInv' /\ \A q \in Queues : GoesOn(q)' => InOrder(q)'
<1>1. ListInv /\ TypeOK /\ BusyInv
  BY DEF OrderInv, ExclusionInv, ListInv
<1>2. BusyInv'
  BY <1>1, EndsKeepBusy
<1> SUFFICES ASSUME NEW q \in Queues PROVE GoesOn(q)' => InOrder(q)'
  BY <1>2
<1>3. GoesOn(q) => InOrder(q)
  BY DEF OrderInv
<1>4. queue'[q] = queue[q] /\ \A x \in Elements(q) :
        heap'[x].id = heap[x].id /\ (isFinished(x) => isFinished(x)')
  BY <1>1, EndsKeepTasks, ElementsType
<1>5. ASSUME pc'[q] = pc[q], curr'[q] = curr[q] PROVE GoesOn(q)' => InOrder(q)'
  <2>1. \A x \in Elements(q) : phase'[x] = "body" => phase[x] = "body"
    BY <1>1, EndsKeepTasks, ElementsType
  <2>2. GoesOn(q)' => GoesOn(q)
    BY <1>1, <1>4, <1>5, <2>1, StillGoesOn
  <2> QED  BY <1>1, <1>3, <1>4, <1>5, <2>2, OrderStays
<1>6. CASE Fail(o)
  BY <1>5, <1>6 DEF Fail, loopVars
<1>7. CASE ReturnParallel(o)
  BY <1>5, <1>7 DEF ReturnParallel
<1> DEFINE h == Home[heap[o].id]
<1>8. ASSUME NEW ok \in BOOLEAN, ReturnInline(o, ok), q # h
      PROVE  GoesOn(q)' => InOrder(q)'
  BY <1>1, <1>5, <1>8 DEF ReturnInline, TypeOK
<1>9. CASE q = h /\ Succeed(o) /\ ReturnInline(o, TRUE)
  <2>1. IsInline(o) /\ phase[o] = "body"
    BY <1>9 DEF Succeed, ReturnInline
  <2>2. AtElement(q) /\ Curr(q) = o /\ pc[q] = "inline"
    BY <1>9, <2>1 DEF IsInline
  <2>3. InOrder(q)
    BY <1>3, <2>1, <2>2 DEF GoesOn
  <2>4. curr'[q] = curr[q] + 1
    BY <1>1, <1>9 DEF ReturnInline, TypeOK
  <2>5. isFinished(o)'
    BY <1>1, <1>9 DEF Succeed, isFinished, TypeOK, Task
  <2> QED  BY <1>1, <1>4, <2>2, <2>3, <2>4, <2>5, InOrderExtends
<1>10. CASE q = h /\ Settle(o) /\ ReturnInline(o, FALSE)
  BY <1>1, <1>10 DEF ReturnInline, TypeOK, GoesOn
<1> QED  BY <1>6, <1>7, <1>8, <1>9, <1>10 DEF Succeed, Settle, Return

LEMMA PassKeepsBusy ==
  ASSUME ListInv, BusyInv, NEW q \in Queues, StartSync(q) \/ Pass(q)
  PROVE  BusyInv'
<1>1. CASE VisitParallel(q) \/ VisitInline(q)
  <2>1. PICK c \in Obj : Begin(c)
    BY <1>1, CurrType DEF VisitParallel, VisitInline, ListInv
  <2>2. phase'[c] = "body" /\ \A x \in Obj : x # c => heap'[x] = heap[x] /\ phase'[x] = phase[x]
    BY <2>1 DEF Begin, ListInv, TypeOK
  <2> QED  BY <2>2 DEF BusyInv
<1>2. CASE ~(VisitParallel(q) \/ VisitInline(q))
  <2>1. UNCHANGED <<heap, phase>>
    BY <1>2 DEF Pass, StartSync, Skip, EndVisits, Join, Sweep, EndSweep, execVars
  <2> QED  BY <2>1 DEF BusyInv
<1> QED  BY <1>1, <1>2

\* An element that may not run in parallel is stepped over only when it is done:
\* the pass would wait for one that is being executed.
LEMMA PassKeepsOrder ==
  ASSUME OrderInv, NEW q \in Queues, StartSync(q) \/ Pass(q)
  PROVE  \A p \in Queues : GoesOn(p)' => InOrder(p)'
<1>1. ListInv /\ TypeOK /\ BusyInv /\ \A p \in Queues : GoesOn(p) => InOrder(p)
  BY DEF OrderInv, ExclusionInv, ListInv
<1>2. \A x \in Listed : x \in Obj
  BY <1>1, ListedType
<1>3. \A x \in Obj : heap'[x].id = heap[x].id /\ (isFinished(x) => isFinished(x)')
  <2>1. CASE VisitParallel(q) \/ VisitInline(q)
    <3>1. PICK c \in Obj : Begin(c)
      BY <1>1, <2>1, CurrType DEF VisitParallel, VisitInline
    <3>2. \A x \in Obj : heap'[x].id = heap[x].id
      BY <1>1, <3>1 DEF Begin, TypeOK, Task
    <3>3. \A x \in Obj : isFinished(x) => heap'[x] = heap[x]
      BY <1>1, <3>1 DEF Begin, TypeOK, isFinished
    <3> QED  BY <3>2, <3>3 DEF isFinished
  <2>2. CASE ~(VisitParallel(q) \/ VisitInline(q))
    <3>1. UNCHANGED heap
      BY <2>2 DEF Pass, StartSync, Skip, EndVisits, Join, Sweep, EndSweep
    <3> QED  BY <3>1 DEF isFinished
  <2> QED  BY <2>1, <2>2
<1>4. \A p \in Queues : \A x \in Elements(p) :
        heap'[x].id = heap[x].id /\ (isFinished(x) => isFinished(x)')
  BY <1>2, <1>3, ElementsListed
<1>5. ASSUME NEW p \in Queues, p # q PROVE GoesOn(p)' => InOrder(p)'
  <2>1. pc'[p] = pc[p] /\ curr'[p] = curr[p]
    BY <1>1, <1>5 DEF TypeOK, Pass, StartSync, VisitParallel, VisitInline, Skip,
                      EndVisits, Join, Sweep, EndSweep
  <2>2. queue'[p] = queue[p]
    BY <1>1, <1>5 DEF TypeOK, Pass, StartSync, VisitParallel, VisitInline, Skip,
                      EndVisits, Join, Sweep, EndSweep
  <2>3. \A x \in Elements(p) : phase'[x] = phase[x]
    <3>1. CASE VisitParallel(q) \/ VisitInline(q)
      <4>1. Begin(Curr(q)) /\ Curr(q) \in Elements(q)
        BY <1>1, <3>1, CurrType DEF VisitParallel, VisitInline
      <4>2. \A x \in Elements(p) : x # Curr(q) /\ x \in Obj
        BY <1>2, <1>5, <4>1, ElementsListed DEF OrderInv, ExclusionInv, HomeInv
      <4> QED  BY <1>1, <4>1, <4>2 DEF Begin, TypeOK
    <3>2. CASE ~(VisitParallel(q) \/ VisitInline(q))
      <4>1. UNCHANGED phase
        BY <3>2 DEF Pass, StartSync, Skip, EndVisits, Join, Sweep, EndSweep, execVars
      <4> QED  BY <4>1
    <3> QED  BY <3>1, <3>2
  <2>4. GoesOn(p)' => GoesOn(p)
    BY <1>1, <2>1, <2>2, <2>3, StillGoesOn
  <2> QED  BY <1>1, <1>4, <2>1, <2>2, <2>4, OrderStays
<1>6. GoesOn(q)' => InOrder(q)'
  <2>1. CASE StartSync(q)
    <3>1. curr'[q] = 1
      BY <1>1, <2>1 DEF StartSync, TypeOK
    <3> QED  BY <3>1 DEF InOrder
  <2>2. CASE VisitInline(q)
    <3>1. UNCHANGED <<queue, curr>> /\ GoesOn(q)
      BY <2>2 DEF VisitInline, GoesOn
    <3> QED  BY <1>1, <1>4, <3>1, InOrderStays
  <2>3. CASE VisitParallel(q) \/ Skip(q)
    <3>1. /\ GoesOn(q) /\ AtElement(q) /\ pc[q] = "visit"
          /\ queue'[q] = queue[q] /\ curr'[q] = curr[q] + 1
      BY <1>1, <2>3 DEF VisitParallel, Skip, GoesOn, TypeOK
    <3>2. PICK c \in Obj : c = Curr(q) /\ c \in Elements(q)
      BY <1>1, <3>1, CurrType
    <3>3. heap[c].id \notin Parallelizable => isFinished(c)
      <4>1. SUFFICES ASSUME heap[c].id \notin Parallelizable, ~isFinished(c) PROVE FALSE
        OBVIOUS
      <4>2. heap[c].state \in {"PENDING", "FAILED"}
        BY <1>1, <2>3, <3>2, <4>1
           DEF VisitParallel, RunsParallel, Skip, isFinished, TypeOK, Task, States
      <4>3. IsInline(c)
        BY <1>1, <4>1, <4>2 DEF BusyInv, OrderInv, ExclusionInv, InlineInv
      <4>4. Home[heap[c].id] = q
        BY <3>2 DEF OrderInv, ExclusionInv, HomeInv
      <4> QED  BY <3>1, <4>3, <4>4 DEF IsInline
    <3>4. heap[c].id \notin Parallelizable => isFinished(c)'
      BY <1>3, <3>3
    <3> QED  BY <1>1, <1>4, <3>1, <3>2, <3>4, InOrderExtends
  <2>4. CASE EndVisits(q) \/ Join(q) \/ Sweep(q) \/ EndSweep(q)
    BY <1>1, <2>4 DEF EndVisits, Join, Sweep, EndSweep, GoesOn, TypeOK
  <2> QED  BY <2>1, <2>2, <2>3, <2>4 DEF Pass
<1> QED  BY <1>5, <1>6

LEMMA NextOrderInv == OrderInv /\ [Run]_vars => OrderInv'
<1> SUFFICES ASSUME OrderInv, [Run]_vars
             PROVE  BusyInv' /\ (\A q \in Queues : GoesOn(q)' => InOrder(q)')
                    /\ ExclusionInv'
  BY DEF OrderInv
<1>1. [Next]_vars
  BY DEF Next
<1>2. ExclusionInv' /\ ListInv /\ TypeOK /\ BusyInv
  BY <1>1, NextExclusionInv DEF OrderInv, ExclusionInv, ListInv
<1> DEFINE Ok == BusyInv' /\ \A q \in Queues : GoesOn(q)' => InOrder(q)'
<1>3. ASSUME UNCHANGED <<heap, queue, pc, curr, phase>> PROVE Ok
  <2>1. BusyInv'
    BY <1>2, <1>3 DEF BusyInv
  <2>2. \A q \in Queues : (GoesOn(q)' <=> GoesOn(q)) /\ (InOrder(q)' <=> InOrder(q))
    BY <1>3 DEF GoesOn, InOrder, AtElement, Curr, isFinished
  <2> QED  BY <2>1, <2>2 DEF OrderInv
<1>4. CASE UNCHANGED vars
  <2>1. UNCHANGED <<heap, queue, pc, curr, phase>>
    BY <1>4 DEF vars, loopVars, execVars
  <2> QED  BY <1>2, <1>3, <2>1
<1>5. ASSUME NEW c \in Caller, NotifyInsert(c) PROVE Ok
  <2>1. notifying[c] \in ID /\ PushBack(notifying[c]) /\ UNCHANGED <<pc, curr, phase>>
    BY <1>2, <1>5 DEF NotifyInsert, TypeOK, execVars, loopVars
  <2> QED  BY <2>1, PushBackKeepsOrder
<1>6. ASSUME NEW c \in Caller, NEW id \in NotifyID, NotifyTest(c, id) PROVE Ok
  BY <1>3, <1>6 DEF NotifyTest, execVars, loopVars
<1>7. ASSUME NEW q \in Queues, StartSync(q) \/ Pass(q) PROVE Ok
  BY <1>2, <1>7, PassKeepsBusy, PassKeepsOrder
<1>8. ASSUME NEW o \in Obj, Execute(o) PROVE Ok
  <2>1. CASE Succeed(o) \/ Fail(o) \/ Settle(o)
    BY <2>1, EndsKeepOrder
  <2>2. ASSUME NEW id \in ID, Spawn(o, id) PROVE Ok
    <3>1. UNCHANGED <<pc, curr, phase>>
      BY <2>2 DEF Spawn, loopVars
    <3>2. PushBack(id) \/ UNCHANGED <<heap, queue>>
      BY <2>2 DEF Spawn, enqueueTask
    <3> QED  BY <1>3, <3>1, <3>2, PushBackKeepsOrder
  <2>3. ASSUME NEW id \in ID, SpawnAtFront(o, id) PROVE Ok
    BY <1>2, <2>3, SpawnAtFrontKeepsOrder
  <2> QED  BY <1>8, <2>1, <2>2, <2>3 DEF Execute
<1> QED  BY <1>2, <1>4, <1>5, <1>6, <1>7, <1>8 DEF Run, Notify

LEMMA InitOrderInv == Init => OrderInv
<1> SUFFICES ASSUME Init PROVE BusyInv /\ \A q \in Queues : InOrder(q)
  BY InitExclusionInv DEF OrderInv
<1>1. \A o \in Obj : heap[o].state = "QUEUED"
  BY DEF Init, Unused, NewTask
<1>2. \A q \in Queues : curr[q] = 1
  BY DEF Init
<1> QED  BY <1>1, <1>2 DEF BusyInv, InOrder

\* In one lifetime of the process the loop runs the tasks of a list that may not
\* run in parallel strictly in list order, whatever fails, is retried or is pushed
\* meanwhile: none overtakes another that is not done.
THEOREM TasksKeepTheirOrder == RunSpec => HeadOfLine
<1> DEFINE Step == \A q \in Queues :
      (pc[q] = "visit" /\ pc'[q] = "inline") =>
        \A i \in 1 .. curr[q] - 1 :
          heap[queue[q][i]].id \notin Parallelizable => isFinished(queue[q][i])
<1>1. OrderInv => Step
  BY DEF OrderInv, GoesOn, InOrder
<1>2. RunSpec => []OrderInv
  BY InitOrderInv, NextOrderInv, PTL DEF RunSpec
<1>3. HeadOfLine <=> [][Step]_vars
  BY DEF HeadOfLine
<1> QED  BY <1>1, <1>2, <1>3, PTL

===============================================================================
