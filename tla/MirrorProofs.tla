----------------------------- MODULE MirrorProofs -----------------------------
(***************************************************************************)
(* Theorems about MirrorSync, for every set of files and any number of     *)
(* saves, whatever fails and is retried, and for both kinds of users.      *)
(***************************************************************************)
EXTENDS MirrorSync, TLAPS, FiniteSetTheorems, SequenceTheorems

\* What a list holds, whatever the order and the states of its tasks.
Tasks(list) == {list[i].task : i \in DOMAIN list}

-------------------------------------------------------------------------------
(* Lists *)

LEMMA ListFacts ==
  ASSUME NEW list \in Seq(Element)
  PROVE  /\ Len(list) \in Nat /\ DOMAIN list = 1 .. Len(list)
         /\ \A i \in DOMAIN list : list[i] \in Element
         /\ Tasks(list) \subseteq TaskID
         /\ \A t : IsEnqueued(list, t) <=> t \in Tasks(list)
         /\ list = <<>> => Tasks(list) = {}
<1>1. Len(list) \in Nat /\ DOMAIN list = 1 .. Len(list)
  BY LenProperties
<1>2. \A i \in DOMAIN list : list[i] \in Element
  BY <1>1, ElementOfSeq
<1>3. Tasks(list) \subseteq TaskID
  BY <1>2 DEF Tasks, Element
<1>4. list = <<>> => Tasks(list) = {}
  BY <1>1 DEF Tasks
<1> QED  BY <1>1, <1>2, <1>3, <1>4 DEF Tasks, IsEnqueued

LEMMA NewType == \A t \in TaskID : New(t) \in Element /\ New(t).task = t
BY DEF New, Element

LEMMA TasksOfConcat ==
  ASSUME NEW a \in Seq(Element), NEW b \in Seq(Element)
  PROVE  a \o b \in Seq(Element) /\ Tasks(a \o b) = Tasks(a) \cup Tasks(b)
<1>1. /\ a \o b \in Seq(Element) /\ Len(a \o b) = Len(a) + Len(b)
      /\ \A i \in 1 .. Len(a) + Len(b) :
           (a \o b)[i] = IF i <= Len(a) THEN a[i] ELSE b[i - Len(a)]
  BY ConcatProperties
<1>2. /\ DOMAIN (a \o b) = 1 .. Len(a) + Len(b)
      /\ DOMAIN a = 1 .. Len(a) /\ DOMAIN b = 1 .. Len(b)
      /\ Len(a) \in Nat /\ Len(b) \in Nat
  BY <1>1, ListFacts
<1>3. \A i \in DOMAIN (a \o b) :
        (\E j \in DOMAIN a : (a \o b)[i] = a[j]) \/ (\E j \in DOMAIN b : (a \o b)[i] = b[j])
  BY <1>1, <1>2
<1>4. \A j \in DOMAIN a : j \in DOMAIN (a \o b) /\ (a \o b)[j] = a[j]
  BY <1>1, <1>2
<1>5. ASSUME NEW j \in DOMAIN b
      PROVE  Len(a) + j \in DOMAIN (a \o b) /\ (a \o b)[Len(a) + j] = b[j]
  <2>1. Len(a) + j \in 1 .. Len(a) + Len(b) /\ ~(Len(a) + j <= Len(a))
        /\ (Len(a) + j) - Len(a) = j
    BY <1>2
  <2> QED  BY <1>1, <1>2, <2>1
<1>6. Tasks(a \o b) \subseteq Tasks(a) \cup Tasks(b)
  BY <1>3 DEF Tasks
<1>7. Tasks(a) \cup Tasks(b) \subseteq Tasks(a \o b)
  BY <1>4, <1>5 DEF Tasks
<1> QED  BY <1>1, <1>6, <1>7

LEMMA TasksOfNew ==
  ASSUME NEW t \in TaskID
  PROVE  <<New(t)>> \in Seq(Element) /\ Tasks(<<New(t)>>) = {t}
BY NewType DEF Tasks

\* Whether it was there or not, an enqueued task is in the list and no other
\* task has come or gone.
LEMMA TasksOfEnqueued ==
  ASSUME NEW list \in Seq(Element), NEW t \in TaskID
  PROVE  /\ Enqueued(list, t) \in Seq(Element)
         /\ Tasks(Enqueued(list, t)) = Tasks(list) \cup {t}
         /\ EnqueuedAtFront(list, t) \in Seq(Element)
         /\ Tasks(EnqueuedAtFront(list, t)) = Tasks(list) \cup {t}
<1>1. New(t) \in Element
  BY NewType
<1>2. Append(list, New(t)) = list \o <<New(t)>>
  BY <1>1, AppendIsConcat
<1>3. CASE IsEnqueued(list, t)
  BY <1>3, ListFacts DEF Enqueued, EnqueuedAtFront
<1>4. CASE ~IsEnqueued(list, t)
  <2>1. <<New(t)>> \in Seq(Element) /\ Tasks(<<New(t)>>) = {t}
    BY TasksOfNew
  <2>2. /\ list \o <<New(t)>> \in Seq(Element) /\ <<New(t)>> \o list \in Seq(Element)
        /\ Tasks(list \o <<New(t)>>) = Tasks(list) \cup {t}
        /\ Tasks(<<New(t)>> \o list) = {t} \cup Tasks(list)
    BY <2>1, TasksOfConcat
  <2> QED  BY <1>2, <1>4, <2>2 DEF Enqueued, EnqueuedAtFront
<1> QED  BY <1>3, <1>4

\* SetToSeq lists every element of a finite set.
LEMMA SetToSeqListsAll ==
  ASSUME NEW S, IsFiniteSet(S)
  PROVE  /\ SetToSeq(S) \in [1 .. Cardinality(S) -> S] /\ Cardinality(S) \in Nat
         /\ \A x \in S : \E i \in DOMAIN SetToSeq(S) : SetToSeq(S)[i] = x
<1> DEFINE n == Cardinality(S)
<1>1. n \in Nat /\ ExistsBijection(1 .. n, S)
  BY FS_CardinalityType
<1>2. PICK b \in Bijection(1 .. n, S) : TRUE
  BY <1>1 DEF ExistsBijection
<1>3. b \in [1 .. n -> S] /\ IsInjective(b)
  BY <1>2 DEF Bijection, Injection, Surjection, IsInjective
<1>4. SetToSeq(S) \in [1 .. n -> S] /\ IsInjective(SetToSeq(S))
  BY <1>3 DEF SetToSeq
<1>5. SetToSeq(S) \in Injection(1 .. n, S)
  BY <1>4 DEF Injection, IsInjective
<1>6. IsFiniteSet(1 .. n) /\ Cardinality(1 .. n) = n
  BY <1>1, FS_Interval
<1>7. SetToSeq(S) \in Surjection(1 .. n, S)
  BY <1>5, <1>6, FS_Injection
<1> QED  BY <1>1, <1>4, <1>7 DEF Surjection

LEMMA TasksOfEnqueuedAll ==
  ASSUME NEW list \in Seq(Element), NEW type \in FileTypes, NEW Q \in SUBSET Path
  PROVE  /\ EnqueuedAll(list, type, Q) \in Seq(Element)
         /\ Tasks(EnqueuedAll(list, type, Q)) = Tasks(list) \cup {Task(type, p) : p \in Q}
<1> DEFINE fresh == {p \in Q : ~IsEnqueued(list, Task(type, p))}
           order == SetToSeq(fresh)
           new == [i \in DOMAIN order |-> New(Task(type, order[i]))]
<1>1. IsFiniteSet(fresh)
  BY MirrorAssumption, FS_Subset
<1>2. /\ order \in [1 .. Cardinality(fresh) -> fresh] /\ Cardinality(fresh) \in Nat
      /\ \A p \in fresh : \E i \in DOMAIN order : order[i] = p
  BY <1>1, SetToSeqListsAll
<1>3. \A p \in Path : Task(type, p) \in TaskID
  BY DEF Task, TaskID
<1>4. \A i \in DOMAIN order : order[i] \in fresh /\ new[i] \in Element
        /\ new[i].task = Task(type, order[i])
  BY <1>2, <1>3, NewType
<1>5. new \in Seq(Element) /\ DOMAIN new = DOMAIN order
  <2>1. new \in [1 .. Cardinality(fresh) -> Element] /\ DOMAIN new = DOMAIN order
    BY <1>2, <1>4
  <2> HIDE DEF new, order, fresh
  <2> QED  BY <1>2, <2>1, SeqDef
<1>6. Tasks(new) = {Task(type, p) : p \in fresh}
  <2> HIDE DEF new, order, fresh
  <2>1. \A t \in Tasks(new) : \E p \in fresh : t = Task(type, p)
    BY <1>4, <1>5 DEF Tasks
  <2>2. \A p \in fresh : \E i \in DOMAIN new : new[i].task = Task(type, p)
    BY <1>2, <1>4, <1>5
  <2>3. \A i \in DOMAIN new : new[i].task \in Tasks(new)
    BY DEF Tasks
  <2> QED  BY <2>1, <2>2, <2>3
<1>7. \A p \in Q \ fresh : Task(type, p) \in Tasks(list)
  BY ListFacts
<1>8. EnqueuedAll(list, type, Q) = list \o new
  BY DEF EnqueuedAll
<1>9. list \o new \in Seq(Element) /\ Tasks(list \o new) = Tasks(list) \cup Tasks(new)
  BY <1>5, TasksOfConcat
<1> HIDE DEF new
<1> QED  BY <1>6, <1>7, <1>8, <1>9

LEMMA TasksOfWithState ==
  ASSUME NEW list \in Seq(Element), NEW t, NEW s \in {"QUEUED", "PENDING"}
  PROVE  /\ WithState(list, t, s) \in Seq(Element)
         /\ Tasks(WithState(list, t, s)) = Tasks(list)
<1> DEFINE w == WithState(list, t, s)
<1>1. DOMAIN w = DOMAIN list /\ \A i \in DOMAIN list : w[i] \in Element /\ w[i].task = list[i].task
  BY ListFacts DEF WithState, Element
<1>2. w \in Seq(Element)
  BY <1>1, ListFacts, SeqDef DEF WithState
<1> QED  BY <1>1, <1>2 DEF Tasks

\* A task that has ended takes no other one out of its list.
LEMMA TasksOfWithout ==
  ASSUME NEW list \in Seq(Element), NEW t
  PROVE  /\ Without(list, t) \in Seq(Element)
         /\ Tasks(Without(list, t)) \subseteq Tasks(list)
         /\ \A u \in Tasks(list) : u # t => u \in Tasks(Without(list, t))
<1>1. CASE ~IsEnqueued(list, t)
  BY <1>1, ListFacts DEF Without
<1>2. CASE IsEnqueued(list, t)
  <2> DEFINE n == Len(list)
  <2>1. PICK k \in DOMAIN list : list[k].task = t /\ Without(list, t) = RemoveAt(list, k)
    BY <1>2 DEF IsEnqueued, Without
  <2> DEFINE a == SubSeq(list, 1, k - 1)
             b == SubSeq(list, k + 1, n)
  <2>2. n \in Nat /\ k \in 1 .. n /\ DOMAIN list = 1 .. n
        /\ \A i \in 1 .. n : list[i] \in Element
    BY ListFacts
  <2>3. a \in Seq(Element) /\ Len(a) = k - 1 /\ \A i \in 1 .. k - 1 : a[i] = list[i]
    <3>1. \A i \in 1 .. k - 1 : list[i] \in Element
      BY <2>2
    <3>2. /\ a \in Seq(Element)
          /\ Len(a) = IF 1 <= k - 1 THEN (k - 1) - 1 + 1 ELSE 0
          /\ \A i \in 1 .. (k - 1) - 1 + 1 : a[i] = list[1 + i - 1]
      BY <2>2, <3>1, SubSeqProperties
    <3> QED  BY <2>2, <3>2
  <2>4. b \in Seq(Element) /\ Len(b) = n - k /\ \A i \in 1 .. n - k : b[i] = list[k + i]
    <3>1. \A i \in k + 1 .. n : list[i] \in Element
      BY <2>2
    <3>2. /\ b \in Seq(Element)
          /\ Len(b) = IF k + 1 <= n THEN n - (k + 1) + 1 ELSE 0
          /\ \A i \in 1 .. n - (k + 1) + 1 : b[i] = list[(k + 1) + i - 1]
      BY <2>2, <3>1, SubSeqProperties
    <3>3. n - (k + 1) + 1 = n - k /\ (~(k + 1 <= n) => n - k = 0)
      BY <2>2
    <3>4. \A i \in 1 .. n - k : (k + 1) + i - 1 = k + i
      BY <2>2
    <3> HIDE DEF b
    <3> QED  BY <3>2, <3>3, <3>4
  <2>5. Without(list, t) \in Seq(Element) /\ Tasks(Without(list, t)) = Tasks(a) \cup Tasks(b)
    BY <2>1, <2>3, <2>4, TasksOfConcat DEF RemoveAt
  <2>6. DOMAIN a = 1 .. k - 1 /\ DOMAIN b = 1 .. n - k
    BY <2>3, <2>4, ListFacts
  <2>7. Tasks(a) \subseteq Tasks(list) /\ Tasks(b) \subseteq Tasks(list)
    <3>1. \A i \in DOMAIN a : i \in DOMAIN list
      BY <2>2, <2>6
    <3>2. \A i \in DOMAIN b : k + i \in DOMAIN list
      BY <2>2, <2>6
    <3> QED  BY <2>3, <2>4, <2>6, <3>1, <3>2 DEF Tasks
  <2>8. ASSUME NEW i \in DOMAIN list, list[i].task # t
        PROVE  list[i].task \in Tasks(a) \cup Tasks(b)
    <3>1. CASE i < k
      <4>1. i \in DOMAIN a /\ a[i] = list[i]
        BY <2>2, <2>3, <2>6, <3>1
      <4> QED  BY <4>1 DEF Tasks
    <3>2. CASE i > k
      <4>1. i - k \in 1 .. n - k /\ k + (i - k) = i
        BY <2>2, <3>2
      <4>2. i - k \in DOMAIN b /\ b[i - k] = list[i]
        BY <2>4, <2>6, <4>1
      <4> QED  BY <4>2 DEF Tasks
    <3> QED  BY <2>1, <2>2, <2>8, <3>1, <3>2
  <2> QED  BY <2>5, <2>7, <2>8 DEF Tasks
<1> QED  BY <1>1, <1>2

-------------------------------------------------------------------------------
(* The invariant *)

AddOf(p) == Task("ADD_ITEM", p)
PinOf(p) == Task("PIN_FILE", p)
BackupOn == BucketTask("TOGGLE_BACKUP_ON")
BackupOff == BucketTask("TOGGLE_BACKUP_OFF")

\* A task that is executed is in its list.
ListsInv ==
  /\ inline[TQ] # Idle => inline[TQ].task \in Tasks(taskQueue) \ {BackupOn}
  /\ inline[PQ] # Idle => inline[PQ].task \in Tasks(filePinningQueue)
  /\ goroutine # "idle" => BackupOn \in Tasks(taskQueue)

\* Tasks that put files on the hub and those that take them off are never in
\* the lists together.
TaskTypes(on) ==
  {"CREATE_BUCKET", "BUCKET_RESTORE", "RESTORE_FILE"} \cup
    IF on THEN {"ADD_ITEM", "TOGGLE_BACKUP_ON"} ELSE {"REMOVE_ITEM", "TOGGLE_BACKUP_OFF"}
PinTypes(on) == IF on THEN {"PIN_FILE"} ELSE {"UNPIN_FILE"}

PhaseInv ==
  /\ ~toggler => backup
  /\ \A t \in Tasks(taskQueue) : t.type \in TaskTypes(backup)
  /\ \A t \in Tasks(filePinningQueue) : t.type \in PinTypes(backup)

\* What an executor has in its hands.
HandsInv ==
  /\ \A q \in Lists : inline[q].at = "read" => inline[q].val # Absent
  /\ Is(PQ, "PIN_FILE", "pushed") => mirror[P(PQ)] # Absent
  /\ backup /\ Is(TQ, "RESTORE_FILE", "read") => mirror[P(TQ)] # Absent
  /\ toggler /\ Is(TQ, "RESTORE_FILE", "pushed") => local[P(TQ)] # Absent

\* While backup is on each local file is on the hub or on its way.
UploadInv ==
  backup => \A p \in Path : local[p] # Absent =>
    \/ mirror[p] # Absent
    \/ AddOf(p) \in Tasks(taskQueue) \/ PinOf(p) \in Tasks(filePinningQueue)
    \/ toggler /\ BackupOn \in Tasks(taskQueue)

RecordInv ==
  ~toggler => \A p \in Path : mirrorFile[p] = "backedUp" => mirror[p] # Absent

\* Of a user who removes nothing, what is on the hub is here or will be restored,
\* and only what is here is on its way to the hub.
RestoreInv ==
  toggler => \A p \in Path :
    /\ mirror[p] # Absent =>
         \/ local[p] # Absent
         \/ BucketTask("BUCKET_RESTORE") \in Tasks(taskQueue)
         \/ Task("RESTORE_FILE", p) \in Tasks(taskQueue)
    /\ AddOf(p) \in Tasks(taskQueue) \/ PinOf(p) \in Tasks(filePinningQueue)
         => local[p] # Absent

\* While backup is off each file on the hub is here, and about to be taken off.
RemoveInv ==
  ~backup => \A p \in Path : mirror[p] # Absent =>
    /\ local[p] # Absent
    /\ BackupOff \in Tasks(taskQueue) \/ Task("REMOVE_ITEM", p) \in Tasks(taskQueue)

MirrorInv ==
  /\ TypeOK /\ ListsInv /\ PhaseInv /\ HandsInv /\ UploadInv /\ RecordInv
  /\ RestoreInv /\ RemoveInv

-------------------------------------------------------------------------------
(* What the steps that executors share do *)

Content == Version \cup {Absent, Empty}

\* The task an executor has begun.
LEMMA IsFacts ==
  ASSUME TypeOK, NEW q \in Lists, NEW type \in FileTypes \cup BucketTypes, NEW at,
         Is(q, type, at)
  PROVE  /\ inline[q] \in Execution /\ inline[q] # Idle
         /\ inline[q].task = Task(type, P(q)) /\ inline[q].task \in TaskID
         /\ type \in FileTypes => P(q) \in Path
         /\ type \in BucketTypes => P(q) = NoPath
<1>1. inline[q] \in Execution \cup {Idle} /\ inline[q].task.type = type
  BY DEF TypeOK, Is
<1>2. Idle.task.type = "none" /\ "none" \notin FileTypes \cup BucketTypes
  BY DEF Idle, BucketTask, Task, FileTypes, BucketTypes
<1>3. inline[q] \in Execution /\ inline[q] # Idle
  BY <1>1, <1>2
<1>4. inline[q].task \in TaskID
  BY <1>3 DEF Execution
<1>5. FileTypes \cap BucketTypes = {}
  BY DEF FileTypes, BucketTypes
<1>6. CASE inline[q].task \in [type : FileTypes, path : Path]
  BY <1>1, <1>3, <1>4, <1>5, <1>6 DEF Task, P
<1>7. CASE inline[q].task \in [type : BucketTypes, path : {NoPath}]
  BY <1>1, <1>3, <1>4, <1>5, <1>7 DEF Task, P
<1> QED  BY <1>4, <1>6, <1>7 DEF TaskID

LEMMA QueueNames == TQ \in Lists /\ PQ \in Lists /\ TQ # PQ /\ Lists = {TQ, PQ}
BY DEF TQ, PQ, Lists

LEMMA AtFacts ==
  ASSUME TypeOK, NEW q \in Lists, inline[q] \in Execution, NEW at \in Steps, At(q, at)
  PROVE  /\ inline' \in [Lists -> Execution \cup {Idle}]
         /\ inline'[q].task = inline[q].task /\ inline'[q].val = inline[q].val
         /\ inline'[q].at = at
         /\ \A r \in Lists : r # q => inline'[r] = inline[r]
BY DEF TypeOK, Execution, At

LEMMA EndFacts ==
  ASSUME TypeOK, NEW q \in Lists, inline' = [inline EXCEPT ![q] = Idle]
  PROVE  /\ inline' \in [Lists -> Execution \cup {Idle}]
         /\ inline'[q] = Idle
         /\ \A r \in Lists : r # q => inline'[r] = inline[r]
BY DEF TypeOK

LEMMA DoneTaskFacts ==
  ASSUME TypeOK, NEW list \in Seq(Element), DoneTask(list)
  PROVE  /\ taskQueue' \in Seq(Element)
         /\ Tasks(taskQueue') \subseteq Tasks(list)
         /\ \A t \in Tasks(list) : t # inline[TQ].task => t \in Tasks(taskQueue')
         /\ inline' \in [Lists -> Execution \cup {Idle}]
         /\ inline'[TQ] = Idle /\ inline'[PQ] = inline[PQ]
BY TasksOfWithout, EndFacts, QueueNames DEF DoneTask

LEMMA RetryTaskFacts ==
  ASSUME TypeOK, RetryTask
  PROVE  /\ taskQueue' \in Seq(Element)
         /\ Tasks(taskQueue') = Tasks(taskQueue)
         /\ inline' \in [Lists -> Execution \cup {Idle}]
         /\ inline'[TQ] = Idle /\ inline'[PQ] = inline[PQ]
<1>1. taskQueue \in Seq(Element)
  BY DEF TypeOK
<1> QED  BY <1>1, TasksOfWithState, EndFacts, QueueNames DEF RetryTask

LEMMA DonePinningFacts ==
  ASSUME TypeOK, DonePinning
  PROVE  /\ filePinningQueue' \in Seq(Element)
         /\ Tasks(filePinningQueue') \subseteq Tasks(filePinningQueue)
         /\ \A t \in Tasks(filePinningQueue) :
              t # inline[PQ].task => t \in Tasks(filePinningQueue')
         /\ inline' \in [Lists -> Execution \cup {Idle}]
         /\ inline'[PQ] = Idle /\ inline'[TQ] = inline[TQ]
<1>1. filePinningQueue \in Seq(Element)
  BY DEF TypeOK
<1> QED  BY <1>1, TasksOfWithout, EndFacts, QueueNames DEF DonePinning

LEMMA RetryPinningFacts ==
  ASSUME TypeOK, RetryPinning
  PROVE  /\ filePinningQueue' \in Seq(Element)
         /\ Tasks(filePinningQueue') = Tasks(filePinningQueue)
         /\ inline' \in [Lists -> Execution \cup {Idle}]
         /\ inline'[PQ] = Idle /\ inline'[TQ] = inline[TQ]
<1>1. filePinningQueue \in Seq(Element)
  BY DEF TypeOK
<1> QED  BY <1>1, TasksOfWithState, EndFacts, QueueNames DEF RetryPinning

\* A loop begins a task of its list that is not the parallel one.
LEMMA BeginFacts ==
  ASSUME TypeOK, NEW q \in Lists, NEW list \in Seq(Element), BeginInline(q, list)
  PROVE  /\ inline' \in [Lists -> Execution \cup {Idle}]
         /\ inline'[q].task \in Tasks(list) \ {BackupOn} /\ inline'[q].at = "begin"
         /\ \A r \in Lists : r # q => inline'[r] = inline[r]
<1>1. PICK i \in InlineReady(list) :
        inline' = [inline EXCEPT ![q] =
          [task |-> list[i].task, at |-> "begin", val |-> Absent]]
  BY DEF BeginInline
<1>2. i \in DOMAIN list /\ list[i].task.type # "TOGGLE_BACKUP_ON"
  BY <1>1 DEF InlineReady
<1>3. list[i].task \in Tasks(list) /\ list[i].task \in TaskID
  BY <1>2, ListFacts DEF Tasks
<1>4. list[i].task # BackupOn
  BY <1>2 DEF BackupOn, BucketTask, Task
<1>5. [task |-> list[i].task, at |-> "begin", val |-> Absent] \in Execution
  BY <1>3 DEF Execution, Steps
<1> QED  BY <1>1, <1>3, <1>4, <1>5 DEF TypeOK

-------------------------------------------------------------------------------
(* Type correctness *)

LEMMA ListTypes ==
  ASSUME TypeOK
  PROVE  taskQueue \in Seq(Element) /\ filePinningQueue \in Seq(Element)
         /\ "taskQueue" = TQ /\ "filePinningQueue" = PQ
BY DEF TypeOK, TQ, PQ

LEMMA TaskIDs ==
  /\ \A type \in BucketTypes : BucketTask(type) \in TaskID
  /\ \A type \in FileTypes, p \in Path : Task(type, p) \in TaskID
BY DEF BucketTask, Task, TaskID

\* A step of the executors that leaves contents and schema alone.
LEMMA ListStepType ==
  ASSUME TypeOK, UNCHANGED <<content, schema, user>>,
         taskQueue' \in Seq(Element), filePinningQueue' \in Seq(Element),
         inline' \in [Lists -> Execution \cup {Idle}],
         goroutine' \in {"idle", "begin", "enumerate"}
  PROVE  TypeOK'
BY DEF TypeOK, content, schema, user

LEMMA LoopType ==
  ASSUME TypeOK,
         \/ BeginTask \/ BeginPinning \/ BeginBackupOn
         \/ FailTask \/ FailPinning \/ FailBackupOn
  PROVE  TypeOK'
<1> USE ListTypes, QueueNames
<1>0. goroutine \in {"idle", "begin", "enumerate"}
      /\ inline \in [Lists -> Execution \cup {Idle}]
  BY DEF TypeOK
<1>1. CASE BeginTask
  <2>1. inline' \in [Lists -> Execution \cup {Idle}]
    BY <1>1, BeginFacts DEF BeginTask
  <2>2. taskQueue' \in Seq(Element)
    BY <1>1, TasksOfWithState DEF BeginTask
  <2> QED  BY <1>0, <1>1, <2>1, <2>2, ListStepType DEF BeginTask
<1>2. CASE BeginPinning
  <2>1. inline' \in [Lists -> Execution \cup {Idle}]
    BY <1>2, BeginFacts DEF BeginPinning
  <2>2. filePinningQueue' \in Seq(Element)
    BY <1>2, TasksOfWithState DEF BeginPinning
  <2> QED  BY <1>0, <1>2, <2>1, <2>2, ListStepType DEF BeginPinning
<1>3. CASE BeginBackupOn \/ FailBackupOn
  <2>1. taskQueue' \in Seq(Element)
    BY <1>3, TasksOfWithState DEF BeginBackupOn, FailBackupOn
  <2> QED  BY <1>0, <1>3, <2>1, ListStepType DEF BeginBackupOn, FailBackupOn
<1>4. CASE FailTask  BY <1>0, <1>4, RetryTaskFacts, ListStepType DEF FailTask
<1>5. CASE FailPinning  BY <1>0, <1>5, RetryPinningFacts, ListStepType DEF FailPinning
<1> QED  BY <1>1, <1>2, <1>3, <1>4, <1>5

LEMMA StepNames ==
  /\ {"flagged", "spawned", "unset", "checked", "read", "pushed"} \subseteq Steps
  /\ {"ADD_ITEM", "REMOVE_ITEM", "RESTORE_FILE", "PIN_FILE", "UNPIN_FILE"} = FileTypes
  /\ {"CREATE_BUCKET", "TOGGLE_BACKUP_ON", "TOGGLE_BACKUP_OFF", "BUCKET_RESTORE"} = BucketTypes
BY DEF Steps, FileTypes, BucketTypes

LEMMA AddRemoveType ==
  ASSUME TypeOK, AddFlag \/ AddPin \/ RemoveSpawn \/ RemoveUnset \/ RemoveDelete
  PROVE  TypeOK'
<1> USE ListTypes, QueueNames, StepNames, TaskIDs
<1>0. goroutine \in {"idle", "begin", "enumerate"}
      /\ mirrorFile \in [Path -> {"none", "inProgress", "backedUp", "unset"}]
  BY DEF TypeOK
<1>1. CASE AddFlag
  <2>1. P(TQ) \in Path /\ inline' \in [Lists -> Execution \cup {Idle}]
    BY <1>1, IsFacts, AtFacts DEF AddFlag
  <2>2. mirrorFile' \in [Path -> {"none", "inProgress", "backedUp", "unset"}]
    BY <1>0, <1>1, <2>1 DEF AddFlag
  <2> QED  BY <1>1, <2>1, <2>2 DEF AddFlag, TypeOK, lists, schema, user
<1>2. CASE AddPin
  <2>1. P(TQ) \in Path
    BY <1>2, IsFacts DEF AddPin
  <2>2. filePinningQueue' \in Seq(Element)
    BY <1>2, <2>1, TasksOfEnqueued DEF AddPin
  <2> QED  BY <1>0, <1>2, <2>2, DoneTaskFacts, ListStepType DEF AddPin
<1>3. CASE RemoveSpawn
  <2>1. P(TQ) \in Path /\ inline' \in [Lists -> Execution \cup {Idle}]
    BY <1>3, IsFacts, AtFacts DEF RemoveSpawn
  <2>2. filePinningQueue' \in Seq(Element)
    BY <1>3, <2>1, TasksOfEnqueued DEF RemoveSpawn
  <2> QED  BY <1>0, <1>3, <2>1, <2>2, ListStepType DEF RemoveSpawn
<1>4. CASE RemoveUnset
  <2>1. P(TQ) \in Path /\ inline' \in [Lists -> Execution \cup {Idle}]
    BY <1>4, IsFacts, AtFacts DEF RemoveUnset
  <2>2. mirrorFile' \in [Path -> {"none", "inProgress", "backedUp", "unset"}]
    BY <1>0, <1>4, <2>1 DEF RemoveUnset
  <2> QED  BY <1>4, <2>1, <2>2 DEF RemoveUnset, TypeOK, lists, schema, user
<1>5. CASE RemoveDelete
  <2>1. taskQueue' \in Seq(Element) /\ inline' \in [Lists -> Execution \cup {Idle}]
    BY <1>5, DoneTaskFacts DEF RemoveDelete
  <2>2. mirror' \in [Path -> Version \cup {Absent, Empty}]
    BY <1>5 DEF RemoveDelete, deleteFileFromRemote, TypeOK
  <2> QED
    BY <1>5, <2>1, <2>2 DEF RemoveDelete, deleteFileFromRemote, TypeOK, schema, user
<1> QED  BY <1>1, <1>2, <1>3, <1>4, <1>5

LEMMA PinType ==
  ASSUME TypeOK, Unpin \/ PinRead \/ PinPush \/ PinUnreadable \/ PinFlag
  PROVE  TypeOK'
<1> USE ListTypes, QueueNames, StepNames
<1>0. mirrorFile \in [Path -> {"none", "inProgress", "backedUp", "unset"}]
      /\ local \in [Path -> Content] /\ goroutine \in {"idle", "begin", "enumerate"}
  BY DEF TypeOK, Content
<1>1. CASE Unpin
  <2>1. filePinningQueue' \in Seq(Element) /\ inline' \in [Lists -> Execution \cup {Idle}]
    BY <1>1, DonePinningFacts DEF Unpin
  <2>2. mirror' \in [Path -> Version \cup {Absent, Empty}]
    BY <1>1 DEF Unpin, deleteFileFromRemote, TypeOK
  <2> QED  BY <1>1, <2>1, <2>2 DEF Unpin, deleteFileFromRemote, TypeOK, schema, user
<1>2. CASE PinRead
  <2>1. inline[PQ] \in Execution /\ P(PQ) \in Path
    BY <1>2, IsFacts DEF PinRead
  <2>2. [inline[PQ] EXCEPT !.at = "read", !.val = local[P(PQ)]] \in Execution
    BY <1>0, <2>1 DEF Execution, Content
  <2>3. inline' \in [Lists -> Execution \cup {Idle}]
    BY <1>2, <2>2 DEF PinRead, TypeOK
  <2> QED  BY <1>0, <1>2, <2>3, ListStepType DEF PinRead, lists
<1>3. CASE PinPush
  <2>1. inline[PQ] \in Execution /\ P(PQ) \in Path /\ inline[PQ].val \in Content
    BY <1>3, IsFacts DEF PinPush, Execution, Content
  <2>2. inline' \in [Lists -> Execution \cup {Idle}]
    BY <1>3, <2>1, AtFacts DEF PinPush
  <2>3. mirror' \in [Path -> Content] /\ mirrorNewer' \in [Path -> BOOLEAN]
    BY <1>3, <2>1 DEF PinPush, PushToMirror, TypeOK, Content
  <2> QED  BY <1>3, <2>2, <2>3 DEF PinPush, PushToMirror, TypeOK, Content, schema, user
<1>4. CASE PinUnreadable
  <2>1. P(PQ) \in Path
    BY <1>4, IsFacts DEF PinUnreadable
  <2>2. filePinningQueue' \in Seq(Element) /\ inline' \in [Lists -> Execution \cup {Idle}]
    BY <1>4, RetryPinningFacts DEF PinUnreadable
  <2>3. mirror' \in [Path -> Content] /\ mirrorNewer' \in [Path -> BOOLEAN]
    BY <1>4, <2>1 DEF PinUnreadable, PushToMirror, TypeOK, Content
  <2> QED
    BY <1>4, <2>2, <2>3 DEF PinUnreadable, PushToMirror, TypeOK, Content, schema, user
<1>5. CASE PinFlag
  <2>1. filePinningQueue' \in Seq(Element) /\ inline' \in [Lists -> Execution \cup {Idle}]
    BY <1>5, DonePinningFacts, RetryPinningFacts DEF PinFlag
  <2>2. mirrorFile' \in [Path -> {"none", "inProgress", "backedUp", "unset"}]
    BY <1>0, <1>5 DEF PinFlag
  <2> QED  BY <1>5, <2>1, <2>2 DEF PinFlag, TypeOK, schema, user
<1> QED  BY <1>1, <1>2, <1>3, <1>4, <1>5

LEMMA BucketTaskType ==
  ASSUME TypeOK,
         CreateMirror \/ OffCheck \/ OffEnumerate \/ OnCheck \/ OnEnumerate
  PROVE  TypeOK'
<1> USE ListTypes, QueueNames, StepNames, TaskIDs
<1>0. goroutine \in {"idle", "begin", "enumerate"} /\ LocalFiles \in SUBSET Path
      /\ inline \in [Lists -> Execution \cup {Idle}]
  BY DEF TypeOK, LocalFiles
<1>1. CASE CreateMirror
  <2>1. taskQueue' \in Seq(Element) /\ inline' \in [Lists -> Execution \cup {Idle}]
    BY <1>1, DoneTaskFacts, RetryTaskFacts DEF CreateMirror
  <2> QED  BY <1>1, <2>1 DEF CreateMirror, TypeOK, content, user
<1>2. CASE OffCheck
  <2>1. inline[TQ] \in Execution
    BY <1>2, IsFacts DEF OffCheck
  <2>2. taskQueue' \in Seq(Element) /\ inline' \in [Lists -> Execution \cup {Idle}]
    BY <1>2, <2>1, DoneTaskFacts, AtFacts DEF OffCheck
  <2> QED  BY <1>0, <1>2, <2>2, ListStepType DEF OffCheck
<1>3. CASE OffEnumerate
  <2>1. EnqueuedAll(taskQueue, "REMOVE_ITEM", LocalFiles) \in Seq(Element)
    BY <1>0, TasksOfEnqueuedAll
  <2> QED  BY <1>0, <1>3, <2>1, DoneTaskFacts, ListStepType DEF OffEnumerate
<1>4. CASE OnCheck
  <2>1. taskQueue' \in Seq(Element) /\ goroutine' \in {"idle", "begin", "enumerate"}
    BY <1>4, TasksOfWithout DEF OnCheck, OnDone
  <2> QED  BY <1>0, <1>4, <2>1, ListStepType DEF OnCheck
<1>5. CASE OnEnumerate
  <2>1. EnqueuedAll(taskQueue, "ADD_ITEM", LocalFiles) \in Seq(Element)
    BY <1>0, TasksOfEnqueuedAll
  <2>2. taskQueue' \in Seq(Element) /\ goroutine' = "idle"
    BY <1>5, <2>1, TasksOfWithout DEF OnEnumerate, OnDone
  <2> QED  BY <1>0, <1>5, <2>2, ListStepType DEF OnEnumerate
<1> QED  BY <1>1, <1>2, <1>3, <1>4, <1>5

LEMMA RestoreType ==
  ASSUME TypeOK,
         \/ RestoreWithoutMirror \/ restoreBucket
         \/ RestoreCheck \/ RestorePush \/ RestoreUnreadable \/ RestoreDone
  PROVE  TypeOK'
<1> USE ListTypes, QueueNames, StepNames, TaskIDs
<1>0. goroutine \in {"idle", "begin", "enumerate"}
      /\ inline \in [Lists -> Execution \cup {Idle}] /\ mirror \in [Path -> Content]
  BY DEF TypeOK, Content
<1>1. CASE RestoreWithoutMirror
  <2>1. taskQueue' \in Seq(Element)
    BY <1>1, TasksOfEnqueued, TasksOfWithState DEF RestoreWithoutMirror
  <2> QED  BY <1>0, <1>1, <2>1, EndFacts, ListStepType DEF RestoreWithoutMirror
<1>2. CASE restoreBucket
  <2>1. PICK Q \in SUBSET Path : DoneTask(EnqueuedAll(taskQueue, "RESTORE_FILE", Q))
    BY <1>2 DEF restoreBucket
  <2>2. EnqueuedAll(taskQueue, "RESTORE_FILE", Q) \in Seq(Element)
    BY TasksOfEnqueuedAll
  <2> QED  BY <1>0, <1>2, <2>1, <2>2, DoneTaskFacts, ListStepType DEF restoreBucket
<1>3. CASE RestoreCheck
  <2>1. inline[TQ] \in Execution /\ P(TQ) \in Path
    BY <1>3, IsFacts DEF RestoreCheck
  <2>2. [inline[TQ] EXCEPT !.at = "read", !.val = mirror[P(TQ)]] \in Execution
    BY <1>0, <2>1 DEF Execution, Content
  <2>3. inline' \in [Lists -> Execution \cup {Idle}] /\ taskQueue' \in Seq(Element)
    BY <1>0, <1>3, <2>2, DoneTaskFacts DEF RestoreCheck
  <2> QED  BY <1>0, <1>3, <2>3, ListStepType DEF RestoreCheck
<1>4. CASE RestorePush
  <2>1. inline[TQ] \in Execution /\ P(TQ) \in Path /\ inline[TQ].val \in Content
    BY <1>4, IsFacts DEF RestorePush, Execution, Content
  <2>2. inline' \in [Lists -> Execution \cup {Idle}]
    BY <1>4, <2>1, AtFacts DEF RestorePush
  <2>3. local' \in [Path -> Content] /\ mirrorNewer' \in [Path -> BOOLEAN]
    BY <1>4, <2>1 DEF RestorePush, TypeOK, Content
  <2> QED  BY <1>4, <2>2, <2>3 DEF RestorePush, TypeOK, Content, schema, lists, user
<1>5. CASE RestoreUnreadable
  <2>1. taskQueue' \in Seq(Element) /\ inline' \in [Lists -> Execution \cup {Idle}]
    BY <1>5, RetryTaskFacts DEF RestoreUnreadable
  <2>2. local' \in [Path -> Content] /\ mirrorNewer' \in [Path -> BOOLEAN]
    BY <1>5 DEF RestoreUnreadable, TypeOK, Content
  <2> QED  BY <1>5, <2>1, <2>2 DEF RestoreUnreadable, TypeOK, Content, schema, user
<1>6. CASE RestoreDone
  BY <1>0, <1>6, DoneTaskFacts, ListStepType DEF RestoreDone
<1> QED  BY <1>1, <1>2, <1>3, <1>4, <1>5, <1>6

LEMMA UserType ==
  ASSUME TypeOK,
         \/ NotifyBucketRestore \/ ToggleBucketBackup
         \/ \E p \in Path : UploadFile(p) \/ RemoveDirOrFile(p)
  PROVE  TypeOK'
<1> USE ListTypes, StepNames, TaskIDs
<1>0. goroutine \in {"idle", "begin", "enumerate"}
      /\ inline \in [Lists -> Execution \cup {Idle}]
  BY DEF TypeOK
<1>1. CASE NotifyBucketRestore
  <2>1. taskQueue' \in Seq(Element)
    BY <1>1, TasksOfEnqueued DEF NotifyBucketRestore
  <2> QED  BY <1>0, <1>1, <2>1, ListStepType DEF NotifyBucketRestore
<1>2. CASE ToggleBucketBackup
  <2>1. taskQueue' \in Seq(Element)
    BY <1>2, TasksOfEnqueued DEF ToggleBucketBackup
  <2> QED  BY <1>2, <2>1 DEF ToggleBucketBackup, TypeOK, content, user
<1>3. ASSUME NEW p \in Path, UploadFile(p)  PROVE TypeOK'
  <2>1. taskQueue' \in Seq(Element)
    BY <1>3, TasksOfEnqueued DEF UploadFile
  <2>2. saves[p] \in 0 .. MaxVersion /\ saves[p] + 1 \in Version /\ MaxVersion \in Nat
    BY <1>3, MirrorAssumption DEF UploadFile, TypeOK, Version
  <2>3. /\ local' \in [Path -> Content] /\ mirrorNewer' \in [Path -> BOOLEAN]
        /\ intent' \in [Path -> Version \cup {Absent}] /\ saves' \in [Path -> 0 .. MaxVersion]
    BY <1>3, <2>2 DEF UploadFile, TypeOK, Content, Version
  <2> QED  BY <1>3, <2>1, <2>3 DEF UploadFile, TypeOK, Content, schema
<1>4. ASSUME NEW p \in Path, RemoveDirOrFile(p)  PROVE TypeOK'
  BY <1>4 DEF RemoveDirOrFile, TypeOK, schema, lists
<1> QED  BY <1>1, <1>2, <1>3, <1>4

LEMMA InitType == Init => TypeOK
<1> SUFFICES ASSUME Init  PROVE TypeOK
  OBVIOUS
<1>1. 1 \in Version /\ 0 \in 0 .. MaxVersion /\ 1 \in 0 .. MaxVersion
  BY MirrorAssumption DEF Version
<1>2. \A type \in BucketTypes : New(BucketTask(type)) \in Element
  BY NewType, TaskIDs
<1>3. taskQueue \in Seq(Element) /\ filePinningQueue \in Seq(Element)
  <2>1. \A a, b \in Element : <<a, b>> \in Seq(Element)
    OBVIOUS
  <2>2. filePinningQueue \in Seq(Element)
    BY DEF Init
  <2>3. \E a, b \in BucketTypes : taskQueue = <<New(BucketTask(a)), New(BucketTask(b))>>
    BY StepNames DEF Init, CreatedBucket, StartedBucket
  <2> QED  BY <1>2, <2>1, <2>2, <2>3
<1>4. local \in [Path -> Content] /\ mirror \in [Path -> Version \cup {Absent}]
  BY <1>1 DEF Init, CreatedBucket, StartedBucket, Content
<1>5. saves \in [Path -> 0 .. MaxVersion] /\ intent \in [Path -> Version \cup {Absent}]
  BY <1>1, <1>4 DEF Init
<1>6. mirrorFile \in [Path -> {"none", "inProgress", "backedUp", "unset"}]
      /\ mirrorNewer \in [Path -> BOOLEAN] /\ inline \in [Lists -> Execution \cup {Idle}]
  BY DEF Init, CreatedBucket, StartedBucket
<1>7. backup \in BOOLEAN /\ remote \in BOOLEAN /\ toggler \in BOOLEAN
      /\ goroutine \in {"idle", "begin", "enumerate"}
  BY DEF Init, CreatedBucket, StartedBucket
<1> QED  BY <1>3, <1>4, <1>5, <1>6, <1>7 DEF TypeOK, Content

LEMMA NextType == TypeOK /\ [Next]_vars => TypeOK'
<1> SUFFICES ASSUME TypeOK, [Next]_vars  PROVE TypeOK'
  OBVIOUS
<1>1. CASE UNCHANGED vars
  BY <1>1 DEF vars, content, schema, lists, user, TypeOK
<1>2. CASE Next
  BY <1>2, LoopType, AddRemoveType, PinType, BucketTaskType, RestoreType, UserType
  DEF Next, Loops, Execute
<1> QED  BY <1>1, <1>2

-------------------------------------------------------------------------------
(* What keeps the parts of the invariant *)

BucketRestore == BucketTask("BUCKET_RESTORE")

LEMMA TaskNames ==
  /\ \A type, p : Task(type, p).type = type /\ Task(type, p).path = p
  /\ BackupOn.type = "TOGGLE_BACKUP_ON" /\ BackupOff.type = "TOGGLE_BACKUP_OFF"
  /\ BucketRestore.type = "BUCKET_RESTORE" /\ BucketTask("CREATE_BUCKET").type = "CREATE_BUCKET"
  /\ \A p : AddOf(p).type = "ADD_ITEM" /\ AddOf(p).path = p
  /\ \A p : PinOf(p).type = "PIN_FILE" /\ PinOf(p).path = p
  /\ Idle.at = "idle" /\ Idle.task.type = "none"
BY DEF Task, BackupOn, BackupOff, BucketRestore, BucketTask, AddOf, PinOf, Idle

\* No task leaves its list before whoever executes it has ended.
LEMMA ListsKept ==
  ASSUME ListsInv,
         \A t \in Tasks(taskQueue) :
           \/ t \in Tasks(taskQueue')
           \/ inline[TQ] # Idle /\ t = inline[TQ].task /\ inline'[TQ] = Idle
           \/ t = BackupOn /\ goroutine' = "idle",
         \A t \in Tasks(filePinningQueue) :
           \/ t \in Tasks(filePinningQueue')
           \/ t = inline[PQ].task /\ inline'[PQ] = Idle,
         inline'[TQ] # Idle => inline'[TQ].task \in Tasks(taskQueue) \ {BackupOn},
         inline'[PQ] # Idle => inline'[PQ].task \in Tasks(filePinningQueue),
         goroutine' # "idle" => BackupOn \in Tasks(taskQueue)
  PROVE  ListsInv'
BY DEF ListsInv

LEMMA HandsKept ==
  ASSUME HandsInv, UNCHANGED <<local, mirror, backup, toggler>>,
         \A q \in Lists : inline'[q] = inline[q] \/ inline'[q].at \notin {"read", "pushed"}
  PROVE  HandsInv'
BY QueueNames DEF HandsInv, Is, P

\* Tasks come that neither put a file on the hub nor take one off it, and those
\* that go have nothing left to do.
QuietLists ==
  /\ \A t \in Tasks(taskQueue) :
       \/ t \in Tasks(taskQueue')
       \/ t.type = "CREATE_BUCKET"
       \/ t.type = "RESTORE_FILE" /\ (toggler => local[t.path] # Absent)
       \/ /\ t = BucketRestore
          /\ \A p \in Path : mirror[p] # Absent /\ local[p] = Absent =>
               Task("RESTORE_FILE", p) \in Tasks(taskQueue')
  /\ \A t \in Tasks(taskQueue') :
       \/ t \in Tasks(taskQueue)
       \/ t.type \in {"CREATE_BUCKET", "BUCKET_RESTORE", "RESTORE_FILE"}
  /\ \A t \in Tasks(filePinningQueue) :
       t \in Tasks(filePinningQueue') \/ mirror[t.path] # Absent
  /\ \A t \in Tasks(filePinningQueue') :
       \/ t \in Tasks(filePinningQueue)
       \/ ~backup /\ t.type = "UNPIN_FILE"

ContentInv == PhaseInv /\ UploadInv /\ RecordInv /\ RestoreInv /\ RemoveInv

LEMMA QuietStep ==
  ASSUME ContentInv, QuietLists, UNCHANGED <<local, mirror, backup, toggler>>,
         \A p \in Path : mirrorFile'[p] = "backedUp" =>
           mirrorFile[p] = "backedUp" \/ mirror[p] # Absent
  PROVE  ContentInv'
<1> USE DEF ContentInv
<1>1. PhaseInv'
  BY DEF PhaseInv, QuietLists, TaskTypes, PinTypes
<1>2. UploadInv'
  BY TaskNames DEF UploadInv, QuietLists
<1>3. RecordInv'
  BY DEF RecordInv
<1>4. RestoreInv'
  <2> SUFFICES ASSUME toggler, NEW p \in Path
      PROVE  /\ mirror[p] # Absent =>
                  \/ local[p] # Absent
                  \/ BucketRestore \in Tasks(taskQueue')
                  \/ Task("RESTORE_FILE", p) \in Tasks(taskQueue')
             /\ AddOf(p) \in Tasks(taskQueue') \/ PinOf(p) \in Tasks(filePinningQueue')
                  => local[p] # Absent
    BY DEF RestoreInv, BucketRestore
  <2>1. /\ mirror[p] # Absent =>
            \/ local[p] # Absent
            \/ BucketRestore \in Tasks(taskQueue)
            \/ Task("RESTORE_FILE", p) \in Tasks(taskQueue)
        /\ AddOf(p) \in Tasks(taskQueue) \/ PinOf(p) \in Tasks(filePinningQueue)
             => local[p] # Absent
    BY DEF RestoreInv, BucketRestore
  <2>2. AddOf(p) \in Tasks(taskQueue') => AddOf(p) \in Tasks(taskQueue)
    BY TaskNames DEF QuietLists
  <2>3. PinOf(p) \in Tasks(filePinningQueue') => PinOf(p) \in Tasks(filePinningQueue)
    BY TaskNames DEF QuietLists
  <2>4. BucketRestore \in Tasks(taskQueue) /\ mirror[p] # Absent /\ local[p] = Absent =>
          BucketRestore \in Tasks(taskQueue') \/ Task("RESTORE_FILE", p) \in Tasks(taskQueue')
    BY TaskNames DEF QuietLists
  <2>5. Task("RESTORE_FILE", p) \in Tasks(taskQueue) /\ local[p] = Absent =>
          Task("RESTORE_FILE", p) \in Tasks(taskQueue')
    BY TaskNames DEF QuietLists
  <2> QED  BY <2>1, <2>2, <2>3, <2>4, <2>5
<1>5. RemoveInv'
  BY TaskNames DEF RemoveInv, QuietLists
<1> QED  BY <1>1, <1>2, <1>3, <1>4, <1>5

LEMMA InvParts ==
  MirrorInv <=> TypeOK /\ ListsInv /\ HandsInv /\ ContentInv
BY DEF MirrorInv, ContentInv

-------------------------------------------------------------------------------
(* The loops *)

LEMMA LoopKeepsInv ==
  ASSUME MirrorInv,
         \/ BeginTask \/ BeginPinning \/ BeginBackupOn
         \/ FailTask \/ FailPinning \/ FailBackupOn
  PROVE  MirrorInv'
<1> USE QueueNames
<1>0. TypeOK /\ ListsInv /\ HandsInv /\ ContentInv /\ TypeOK'
      /\ taskQueue \in Seq(Element) /\ filePinningQueue \in Seq(Element)
      /\ "taskQueue" = TQ /\ "filePinningQueue" = PQ
  BY InvParts, LoopType, ListTypes
<1>1. /\ UNCHANGED <<content, schema, user>>
      /\ Tasks(taskQueue') = Tasks(taskQueue)
      /\ Tasks(filePinningQueue') = Tasks(filePinningQueue)
  <2>1. CASE BeginTask \/ BeginBackupOn \/ FailBackupOn \/ FailTask
    BY <1>0, <2>1, TasksOfWithState
    DEF BeginTask, BeginBackupOn, FailBackupOn, FailTask, RetryTask
  <2>2. CASE BeginPinning \/ FailPinning
    BY <1>0, <2>2, TasksOfWithState DEF BeginPinning, FailPinning, RetryPinning
  <2> QED  BY <2>1, <2>2
<1>2. ContentInv'
  <2>1. UNCHANGED <<local, mirror, mirrorFile, backup, toggler>>
    BY <1>1 DEF content, schema, user
  <2>2. QuietLists
    BY <1>1 DEF QuietLists
  <2>3. \A p \in Path : mirrorFile'[p] = "backedUp" => mirrorFile[p] = "backedUp"
    BY <2>1
  <2> QED  BY <1>0, <2>1, <2>2, <2>3, QuietStep
<1>3. ListsInv' /\ HandsInv'
  <2>1. CASE BeginTask
    <3>1. /\ inline'[TQ].task \in Tasks(taskQueue) \ {BackupOn} /\ inline'[TQ].at = "begin"
          /\ inline'[PQ] = inline[PQ] /\ goroutine' = goroutine
      BY <1>0, <2>1, BeginFacts DEF BeginTask
    <3> QED  BY <1>0, <1>1, <3>1, HandsKept DEF ListsInv, content, schema, user
  <2>2. CASE BeginPinning
    <3>1. /\ inline'[PQ].task \in Tasks(filePinningQueue) /\ inline'[PQ].at = "begin"
          /\ inline'[TQ] = inline[TQ] /\ goroutine' = goroutine
      BY <1>0, <2>2, BeginFacts DEF BeginPinning
    <3> QED  BY <1>0, <1>1, <3>1, HandsKept DEF ListsInv, content, schema, user
  <2>3. CASE BeginBackupOn
    <3>1. BackupOn \in Tasks(taskQueue)
      BY <2>3 DEF BeginBackupOn, Tasks, BackupOn, New
    <3> QED
      BY <1>0, <1>1, <2>3, <3>1, HandsKept DEF BeginBackupOn, ListsInv, content, schema, user
  <2>4. CASE FailBackupOn
    BY <1>0, <1>1, <2>4, HandsKept DEF FailBackupOn, ListsInv, content, schema, user
  <2>5. CASE FailTask
    <3>1. inline'[TQ] = Idle /\ inline'[PQ] = inline[PQ] /\ goroutine' = goroutine
      BY <1>0, <2>5, RetryTaskFacts DEF FailTask
    <3> QED  BY <1>0, <1>1, <3>1, HandsKept, TaskNames DEF ListsInv, content, schema, user
  <2>6. CASE FailPinning
    <3>1. inline'[PQ] = Idle /\ inline'[TQ] = inline[TQ] /\ goroutine' = goroutine
      BY <1>0, <2>6, RetryPinningFacts DEF FailPinning
    <3> QED  BY <1>0, <1>1, <3>1, HandsKept, TaskNames DEF ListsInv, content, schema, user
  <2> QED  BY <2>1, <2>2, <2>3, <2>4, <2>5, <2>6
<1> QED  BY <1>0, <1>2, <1>3 DEF MirrorInv, ContentInv

-------------------------------------------------------------------------------
(* Adding and removing *)

\* What a task that is executed says of the setting of backup.
LEMMA PhaseFacts ==
  ASSUME TypeOK, ListsInv, PhaseInv
  PROVE  /\ \A at : Is(TQ, "ADD_ITEM", at) => backup
         /\ \A at : Is(TQ, "REMOVE_ITEM", at) \/ Is(TQ, "TOGGLE_BACKUP_OFF", at) => ~backup
         /\ \A at : Is(PQ, "PIN_FILE", at) => backup
         /\ \A at : Is(PQ, "UNPIN_FILE", at) => ~backup
         /\ goroutine # "idle" => backup
         /\ ~backup => toggler
         /\ backup \in BOOLEAN
         /\ \A p : AddOf(p) \in Tasks(taskQueue) => backup
         /\ \A p : PinOf(p) \in Tasks(filePinningQueue) => backup
<1>1. inline[TQ] # Idle => inline[TQ].task \in Tasks(taskQueue)
      /\ inline[TQ].task.type \in TaskTypes(backup)
  BY DEF ListsInv, PhaseInv
<1>2. inline[PQ] # Idle => inline[PQ].task \in Tasks(filePinningQueue)
      /\ inline[PQ].task.type \in PinTypes(backup)
  BY DEF ListsInv, PhaseInv
<1>3. goroutine # "idle" => backup
  BY TaskNames DEF ListsInv, PhaseInv, TaskTypes
<1>4. backup \in BOOLEAN
  BY DEF TypeOK
<1>5. /\ \A at : Is(TQ, "ADD_ITEM", at) => backup
      /\ \A at : Is(TQ, "REMOVE_ITEM", at) \/ Is(TQ, "TOGGLE_BACKUP_OFF", at) => ~backup
  BY <1>1, <1>4, TaskNames DEF TaskTypes, Is
<1>6. /\ \A at : Is(PQ, "PIN_FILE", at) => backup
      /\ \A at : Is(PQ, "UNPIN_FILE", at) => ~backup
  BY <1>2, <1>4, TaskNames DEF PinTypes, Is
<1>7. \A p : AddOf(p) \in Tasks(taskQueue) => backup
  BY <1>4, TaskNames DEF PhaseInv, TaskTypes
<1>8. \A p : PinOf(p) \in Tasks(filePinningQueue) => backup
  BY <1>4, TaskNames DEF PhaseInv, PinTypes
<1> QED  BY <1>3, <1>4, <1>5, <1>6, <1>7, <1>8 DEF PhaseInv

\* The steps that set a flag or move on, and change no list but by an UNPIN_FILE.
LEMMA FlagKeepsInv ==
  ASSUME MirrorInv, AddFlag \/ RemoveSpawn \/ RemoveUnset
  PROVE  MirrorInv'
<1> USE QueueNames, StepNames
<1>0. TypeOK /\ ListsInv /\ HandsInv /\ ContentInv /\ PhaseInv /\ TypeOK'
      /\ taskQueue \in Seq(Element) /\ filePinningQueue \in Seq(Element)
  BY InvParts, AddRemoveType, ListTypes DEF ContentInv
<1>1. PICK at \in {"flagged", "spawned", "unset"} : At(TQ, at)
  BY DEF AddFlag, RemoveSpawn, RemoveUnset
<1>2. inline[TQ] \in Execution /\ inline[TQ] # Idle /\ P(TQ) \in Path
  BY <1>0, IsFacts DEF AddFlag, RemoveSpawn, RemoveUnset
<1>3. inline'[TQ].task = inline[TQ].task /\ inline'[TQ].at = at /\ inline'[PQ] = inline[PQ]
  BY <1>0, <1>1, <1>2, AtFacts
<1>4. /\ UNCHANGED <<local, mirror, backup, toggler, goroutine>>
      /\ taskQueue' = taskQueue
  BY DEF AddFlag, RemoveSpawn, RemoveUnset, content, schema, user, lists
<1>5. /\ Tasks(filePinningQueue) \subseteq Tasks(filePinningQueue')
      /\ \A t \in Tasks(filePinningQueue') :
           \/ t \in Tasks(filePinningQueue)
           \/ ~backup /\ t.type = "UNPIN_FILE"
  <2>1. CASE AddFlag \/ RemoveUnset
    <3>1. filePinningQueue' = filePinningQueue
      BY <2>1 DEF AddFlag, RemoveUnset, lists
    <3> QED  BY <3>1
  <2>2. CASE RemoveSpawn
    <3>1. ~backup
      BY <1>0, <2>2, PhaseFacts DEF RemoveSpawn
    <3>2. Tasks(filePinningQueue') = Tasks(filePinningQueue) \cup {Task("UNPIN_FILE", P(TQ))}
      BY <1>0, <1>2, <2>2, TaskIDs, TasksOfEnqueued DEF RemoveSpawn
    <3>3. Task("UNPIN_FILE", P(TQ)).type = "UNPIN_FILE"
      BY DEF Task
    <3> QED  BY <3>1, <3>2, <3>3
  <2> QED  BY <2>1, <2>2
<1>6. \A p \in Path : mirrorFile'[p] = "backedUp" => mirrorFile[p] = "backedUp"
  BY <1>0, <1>2 DEF AddFlag, RemoveSpawn, RemoveUnset, content, TypeOK
<1>7. QuietLists
  BY <1>4, <1>5 DEF QuietLists
<1>8. ContentInv'
  BY <1>0, <1>4, <1>6, <1>7, QuietStep
<1>9. ListsInv'
  BY <1>0, <1>2, <1>3, <1>4, <1>5 DEF ListsInv
<1>10. HandsInv'
  BY <1>0, <1>1, <1>3, <1>4, HandsKept
<1> QED  BY <1>0, <1>8, <1>9, <1>10 DEF MirrorInv, ContentInv

\* ADD_ITEM leaves its list when PIN_FILE is in the other.
LEMMA AddPinKeepsInv ==
  ASSUME MirrorInv, AddPin  PROVE  MirrorInv'
<1> USE QueueNames, StepNames
<1>0. TypeOK /\ ListsInv /\ HandsInv /\ ContentInv /\ PhaseInv /\ TypeOK'
      /\ taskQueue \in Seq(Element) /\ filePinningQueue \in Seq(Element)
  BY InvParts, AddRemoveType, ListTypes DEF ContentInv
<1> DEFINE p0 == P(TQ)
<1>1. /\ p0 \in Path /\ inline[TQ] # Idle /\ inline[TQ].task = AddOf(p0)
      /\ AddOf(p0) \in Tasks(taskQueue) /\ backup
  BY <1>0, IsFacts, PhaseFacts DEF AddPin, AddOf, ListsInv
<1>2. Tasks(filePinningQueue') = Tasks(filePinningQueue) \cup {PinOf(p0)}
  BY <1>0, <1>1, TaskIDs, TasksOfEnqueued DEF AddPin, PinOf
<1>3. /\ Tasks(taskQueue') \subseteq Tasks(taskQueue)
      /\ \A t \in Tasks(taskQueue) : t # AddOf(p0) => t \in Tasks(taskQueue')
      /\ inline'[TQ] = Idle /\ inline'[PQ] = inline[PQ]
  BY <1>0, <1>1, DoneTaskFacts DEF AddPin
<1>4. UNCHANGED <<local, mirror, mirrorFile, backup, toggler, goroutine>>
  BY DEF AddPin, content, schema, user
<1>5. ListsInv'
  BY <1>0, <1>1, <1>2, <1>3, <1>4, TaskNames DEF ListsInv
<1>6. HandsInv'
  BY <1>0, <1>3, <1>4, HandsKept, TaskNames
<1> HIDE DEF p0
<1>7. PhaseInv'
  <2>1. PinOf(p0).type \in PinTypes(backup)
    BY <1>1, TaskNames DEF PinTypes
  <2> QED  BY <1>0, <1>2, <1>3, <1>4, <2>1 DEF PhaseInv
<1>8. UploadInv' /\ RecordInv' /\ RemoveInv'
  <2>1. \A p \in Path : p # p0 => AddOf(p) # AddOf(p0) /\ BackupOn # AddOf(p0)
    BY TaskNames
  <2>2. BackupOn # AddOf(p0)
    BY TaskNames
  <2> QED
    BY <1>0, <1>1, <1>2, <1>3, <1>4, <2>1, <2>2 DEF ContentInv, UploadInv, RecordInv, RemoveInv
<1>9. RestoreInv'
  <2>1. /\ BucketTask("BUCKET_RESTORE") # AddOf(p0)
        /\ \A p \in Path : Task("RESTORE_FILE", p) # AddOf(p0)
        /\ \A p \in Path : PinOf(p) = PinOf(p0) => p = p0
    BY TaskNames DEF BucketRestore
  <2> QED  BY <1>0, <1>1, <1>2, <1>3, <1>4, <2>1 DEF ContentInv, RestoreInv
<1> QED  BY <1>0, <1>5, <1>6, <1>7, <1>8, <1>9 DEF MirrorInv

-------------------------------------------------------------------------------
(* The steps that leave the contents of both buckets alone *)

LEMMA QuietKeepsInv ==
  ASSUME MirrorInv, TypeOK', ListsInv', HandsInv', QuietLists,
         UNCHANGED <<local, mirror, backup, toggler>>,
         \A p \in Path : mirrorFile'[p] = "backedUp" =>
           mirrorFile[p] = "backedUp" \/ mirror[p] # Absent
  PROVE  MirrorInv'
<1>1. ContentInv'
  BY QuietStep, InvParts
<1> QED  BY <1>1 DEF MirrorInv, ContentInv

\* A task that ends well after it has enqueued others.
LEMMA DoneKeepsLists ==
  ASSUME TypeOK, ListsInv, NEW list \in Seq(Element),
         Tasks(taskQueue) \subseteq Tasks(list), inline[TQ] # Idle, DoneTask(list),
         UNCHANGED <<filePinningQueue, goroutine>>
  PROVE  /\ ListsInv'
         /\ \A q \in Lists : inline'[q] = inline[q] \/ inline'[q].at \notin {"read", "pushed"}
<1>1. /\ \A t \in Tasks(list) : t # inline[TQ].task => t \in Tasks(taskQueue')
      /\ inline'[TQ] = Idle /\ inline'[PQ] = inline[PQ]
  BY DoneTaskFacts
<1> QED  BY <1>1, TaskNames, QueueNames DEF ListsInv

LEMMA RetryKeepsLists ==
  ASSUME TypeOK, ListsInv, Tasks(taskQueue) \subseteq Tasks(taskQueue'),
         inline'[TQ] = Idle, inline'[PQ] = inline[PQ],
         UNCHANGED <<filePinningQueue, goroutine>>
  PROVE  /\ ListsInv'
         /\ \A q \in Lists : inline'[q] = inline[q] \/ inline'[q].at \notin {"read", "pushed"}
BY TaskNames, QueueNames DEF ListsInv

LEMMA PinKeepsInv ==
  ASSUME MirrorInv, PinRead \/ PinFlag
  PROVE  MirrorInv'
<1> USE QueueNames, StepNames
<1>0. TypeOK /\ ListsInv /\ HandsInv /\ TypeOK'
  BY InvParts, PinType
<1>1. CASE PinRead
  <2>1. inline[PQ] \in Execution /\ inline[PQ] # Idle /\ P(PQ) \in Path /\ local[P(PQ)] # Absent
    BY <1>0, <1>1, IsFacts DEF PinRead
  <2>2. /\ inline'[PQ].task = inline[PQ].task /\ inline'[PQ].at = "read"
        /\ inline'[PQ].val = local[P(PQ)] /\ inline'[TQ] = inline[TQ]
    BY <1>0, <1>1, <2>1 DEF PinRead, TypeOK, Execution
  <2>3. UNCHANGED <<local, mirror, mirrorFile, backup, toggler, goroutine, taskQueue,
                    filePinningQueue>>
    BY <1>1 DEF PinRead, content, schema, lists, user
  <2>4. ListsInv'
    BY <1>0, <2>1, <2>2, <2>3 DEF ListsInv
  <2>5. HandsInv'
    BY <1>0, <2>1, <2>2, <2>3 DEF HandsInv, Is, P
  <2> QED  BY <1>0, <2>3, <2>4, <2>5, QuietKeepsInv DEF QuietLists
<1>2. CASE PinFlag
  <2>1. P(PQ) \in Path /\ inline[PQ] # Idle /\ mirror[P(PQ)] # Absent
    BY <1>0, <1>2, IsFacts DEF PinFlag, HandsInv
  <2>2. UNCHANGED <<local, mirror, backup, toggler, goroutine, taskQueue>>
    BY <1>2 DEF PinFlag, schema, user
  <2>3. /\ Tasks(filePinningQueue') \subseteq Tasks(filePinningQueue)
        /\ \A t \in Tasks(filePinningQueue) :
             t # inline[PQ].task => t \in Tasks(filePinningQueue')
        /\ inline'[PQ] = Idle /\ inline'[TQ] = inline[TQ]
    BY <1>0, <1>2, DonePinningFacts, RetryPinningFacts DEF PinFlag
  <2>4. ListsInv' /\ HandsInv'
    BY <1>0, <2>2, <2>3, HandsKept, TaskNames DEF ListsInv
  <2>5. QuietLists
    BY <2>1, <2>2, <2>3 DEF QuietLists, P
  <2>6. \A p \in Path : mirrorFile'[p] = "backedUp" =>
          mirrorFile[p] = "backedUp" \/ mirror[p] # Absent
    BY <1>0, <1>2, <2>1 DEF PinFlag, TypeOK
  <2> QED  BY <1>0, <2>2, <2>4, <2>5, <2>6, QuietKeepsInv
<1> QED  BY <1>1, <1>2

LEMMA CheckKeepsInv ==
  ASSUME MirrorInv, CreateMirror \/ OffCheck \/ OnCheck
  PROVE  MirrorInv'
<1> USE QueueNames, StepNames
<1>0. TypeOK /\ ListsInv /\ HandsInv /\ PhaseInv /\ TypeOK' /\ taskQueue \in Seq(Element)
  BY InvParts, BucketTaskType, ListTypes DEF ContentInv
<1>1. UNCHANGED <<local, mirror, mirrorFile, backup, toggler, filePinningQueue>>
  BY DEF CreateMirror, OffCheck, OnCheck, content, schema, user
<1>2. CASE CreateMirror
  <2>1. inline[TQ] # Idle /\ inline[TQ].task.type = "CREATE_BUCKET" /\ goroutine' = goroutine
    BY <1>0, <1>2, IsFacts DEF CreateMirror, Is
  <2>2. /\ Tasks(taskQueue') \subseteq Tasks(taskQueue)
        /\ \A t \in Tasks(taskQueue) : t # inline[TQ].task => t \in Tasks(taskQueue')
    BY <1>0, <1>2, DoneTaskFacts, RetryTaskFacts DEF CreateMirror
  <2>3. /\ ListsInv'
        /\ \A q \in Lists : inline'[q] = inline[q] \/ inline'[q].at \notin {"read", "pushed"}
    BY <1>0, <1>1, <1>2, <2>1, DoneKeepsLists, RetryTaskFacts, RetryKeepsLists DEF CreateMirror
  <2>4. QuietLists
    BY <1>1, <2>1, <2>2 DEF QuietLists
  <2> QED  BY <1>0, <1>1, <2>3, <2>4, HandsKept, QuietKeepsInv
<1>3. CASE OffCheck
  <2>1. ~backup
    BY <1>0, <1>3, PhaseFacts DEF OffCheck
  <2>2. /\ inline[TQ] \in Execution /\ inline[TQ] # Idle /\ At(TQ, "checked")
        /\ UNCHANGED <<taskQueue, goroutine>>
    BY <1>0, <1>3, <2>1, IsFacts DEF OffCheck
  <2>3. inline'[TQ].task = inline[TQ].task /\ inline'[TQ].at = "checked"
        /\ inline'[PQ] = inline[PQ]
    BY <1>0, <2>2, AtFacts
  <2>4. ListsInv' /\ HandsInv'
    BY <1>0, <1>1, <2>2, <2>3, HandsKept DEF ListsInv
  <2> QED  BY <1>0, <1>1, <2>2, <2>4, QuietKeepsInv DEF QuietLists
<1>4. CASE OnCheck
  <2>1. backup
    BY <1>0, <1>4, PhaseFacts DEF OnCheck
  <2>2. BackupOn \in Tasks(taskQueue)
    BY <1>0, <1>4 DEF OnCheck, ListsInv
  <2>3. UNCHANGED <<taskQueue, inline>>
    BY <1>4, <2>1 DEF OnCheck
  <2>4. ListsInv' /\ HandsInv'
    BY <1>0, <1>1, <2>2, <2>3, HandsKept DEF ListsInv
  <2> QED  BY <1>0, <1>1, <2>3, <2>4, QuietKeepsInv DEF QuietLists
<1> QED  BY <1>2, <1>3, <1>4

\* BUCKET_RESTORE leaves its list when a RESTORE_FILE is there for each file that
\* is missing, and RESTORE_FILE when the file is no longer missing.
LEMMA RestoreKeepsInv ==
  ASSUME MirrorInv,
         \/ RestoreWithoutMirror \/ restoreBucket \/ RestoreDone
         \/ RestoreCheck \/ NotifyBucketRestore
  PROVE  MirrorInv'
<1> USE QueueNames, StepNames
<1>0. TypeOK /\ ListsInv /\ HandsInv /\ TypeOK' /\ taskQueue \in Seq(Element)
  BY InvParts, RestoreType, UserType, ListTypes
<1>1. /\ UNCHANGED <<local, mirror, mirrorFile, backup, toggler, filePinningQueue, goroutine>>
  BY DEF RestoreWithoutMirror, restoreBucket, RestoreDone, RestoreCheck, NotifyBucketRestore,
         content, schema, user
<1>2. CASE RestoreWithoutMirror
  <2>1. BucketTask("CREATE_BUCKET") \in TaskID
    BY TaskIDs
  <2>2. Tasks(taskQueue') = Tasks(taskQueue) \cup {BucketTask("CREATE_BUCKET")}
    BY <1>0, <1>2, <2>1, TasksOfEnqueued, TasksOfWithState DEF RestoreWithoutMirror
  <2>3. inline'[TQ] = Idle /\ inline'[PQ] = inline[PQ]
    BY <1>0, <1>2, EndFacts DEF RestoreWithoutMirror
  <2>4. ListsInv' /\ HandsInv'
    BY <1>0, <1>1, <2>2, <2>3, RetryKeepsLists, HandsKept
  <2>5. QuietLists
    BY <1>1, <2>2, TaskNames DEF QuietLists
  <2> QED  BY <1>0, <1>1, <2>4, <2>5, QuietKeepsInv
<1>3. CASE restoreBucket
  <2>1. PICK failed \in SUBSET Path :
          DoneTask(EnqueuedAll(taskQueue, "RESTORE_FILE",
            {p \in Path : mirror[p] # Absent /\ (p \in failed \/ IsNewerOnMirror(p))}))
    BY <1>3 DEF restoreBucket
  <2> DEFINE Q == {p \in Path : mirror[p] # Absent /\ (p \in failed \/ IsNewerOnMirror(p))}
             list == EnqueuedAll(taskQueue, "RESTORE_FILE", Q)
  <2>2. list \in Seq(Element)
        /\ Tasks(list) = Tasks(taskQueue) \cup {Task("RESTORE_FILE", p) : p \in Q}
    BY <1>0, TasksOfEnqueuedAll
  <2>3. \A p \in Path : mirror[p] # Absent /\ local[p] = Absent => p \in Q
    BY DEF IsNewerOnMirror
  <2>4. DoneTask(list)
    BY <2>1
  <2> HIDE DEF Q, list
  <2>5. inline[TQ] # Idle /\ inline[TQ].task = BucketRestore
    BY <1>0, <1>3, IsFacts DEF restoreBucket, BucketRestore, BucketTask
  <2>6. /\ Tasks(taskQueue') \subseteq Tasks(list)
        /\ \A t \in Tasks(list) : t # BucketRestore => t \in Tasks(taskQueue')
    BY <1>0, <2>2, <2>4, <2>5, DoneTaskFacts
  <2>7. ListsInv' /\ HandsInv'
    BY <1>0, <1>1, <2>2, <2>4, <2>5, DoneKeepsLists, HandsKept
  <2>8. \A p \in Path : mirror[p] # Absent /\ local[p] = Absent =>
          Task("RESTORE_FILE", p) \in Tasks(taskQueue')
    <3>1. \A p : Task("RESTORE_FILE", p) # BucketRestore
      BY TaskNames
    <3> QED  BY <2>2, <2>3, <2>6, <3>1
  <2>9. \A t \in Tasks(list) : t \in Tasks(taskQueue) \/ t.type = "RESTORE_FILE"
    BY <2>2, TaskNames
  <2>10. QuietLists
    BY <1>1, <2>2, <2>6, <2>8, <2>9 DEF QuietLists
  <2> QED  BY <1>0, <1>1, <2>7, <2>10, QuietKeepsInv
<1>4. CASE \/ RestoreDone
           \/ RestoreCheck /\ DoneTask(taskQueue)
  <2>1. inline[TQ] # Idle /\ inline[TQ].task.type = "RESTORE_FILE" /\ P(TQ) \in Path
    BY <1>0, <1>4, IsFacts DEF RestoreDone, RestoreCheck, Is
  <2>2. toggler => local[P(TQ)] # Absent
    <3>1. CASE RestoreDone
      BY <1>0, <3>1 DEF RestoreDone, HandsInv
    <3>2. CASE RestoreCheck /\ DoneTask(taskQueue)
      <4>1. inline'[TQ] = Idle /\ inline[TQ] \in Execution
        BY <1>0, <3>2, DoneTaskFacts, IsFacts DEF RestoreCheck
      <4>2. inline' # [inline EXCEPT ![TQ].at = "read", ![TQ].val = mirror[P(TQ)]]
        BY <1>0, <4>1, TaskNames DEF TypeOK, Execution
      <4>3. ~IsNewerOnMirror(P(TQ))
        BY <3>2, <4>2 DEF RestoreCheck
      <4> QED  BY <4>3 DEF IsNewerOnMirror
    <3> QED  BY <1>4, <3>1, <3>2
  <2>3. DoneTask(taskQueue)
    BY <1>4 DEF RestoreDone
  <2>4. /\ Tasks(taskQueue') \subseteq Tasks(taskQueue)
        /\ \A t \in Tasks(taskQueue) : t # inline[TQ].task => t \in Tasks(taskQueue')
    BY <1>0, <2>3, DoneTaskFacts
  <2>5. ListsInv' /\ HandsInv'
    BY <1>0, <1>1, <2>1, <2>3, DoneKeepsLists, HandsKept
  <2>6. QuietLists
    BY <1>1, <2>1, <2>2, <2>4 DEF QuietLists, P
  <2> QED  BY <1>0, <1>1, <2>5, <2>6, QuietKeepsInv
<1>5. CASE RestoreCheck /\ ~DoneTask(taskQueue)
  <2>1. inline[TQ] \in Execution /\ inline[TQ] # Idle /\ P(TQ) \in Path /\ mirror[P(TQ)] # Absent
    BY <1>0, <1>5, IsFacts DEF RestoreCheck
  <2>2. inline' = [inline EXCEPT ![TQ].at = "read", ![TQ].val = mirror[P(TQ)]]
        /\ UNCHANGED taskQueue
    BY <1>5 DEF RestoreCheck
  <2>3. /\ inline'[TQ].task = inline[TQ].task /\ inline'[TQ].at = "read"
        /\ inline'[TQ].val = mirror[P(TQ)] /\ inline'[PQ] = inline[PQ]
    BY <1>0, <2>1, <2>2 DEF TypeOK, Execution
  <2>4. ListsInv'
    BY <1>0, <1>1, <2>1, <2>2, <2>3 DEF ListsInv
  <2>5. HandsInv'
    BY <1>0, <1>1, <2>1, <2>2, <2>3 DEF HandsInv, Is, P
  <2> QED  BY <1>0, <1>1, <2>2, <2>4, <2>5, QuietKeepsInv DEF QuietLists
<1>6. CASE NotifyBucketRestore
  <2>1. BucketTask("BUCKET_RESTORE") \in TaskID
    BY TaskIDs
  <2>2. Tasks(taskQueue') = Tasks(taskQueue) \cup {BucketTask("BUCKET_RESTORE")}
        /\ UNCHANGED inline
    BY <1>0, <1>6, <2>1, TasksOfEnqueued DEF NotifyBucketRestore
  <2>3. ListsInv' /\ HandsInv'
    BY <1>0, <1>1, <2>2, HandsKept DEF ListsInv
  <2>4. QuietLists
    BY <1>1, <2>2, TaskNames DEF QuietLists, BucketRestore
  <2> QED  BY <1>0, <1>1, <2>3, <2>4, QuietKeepsInv
<1> QED  BY <1>2, <1>3, <1>4, <1>5, <1>6

-------------------------------------------------------------------------------
(* The steps that change a content of the hub *)

\* With backup off a file is taken off the hub by the task that is there for it,
\* and no executor holds the content of a file that backup is to keep.
LEMMA HubLoses ==
  ASSUME MirrorInv, TypeOK', ListsInv', ~backup, NEW p0 \in Path,
         mirror' = [mirror EXCEPT ![p0] = Absent],
         UNCHANGED <<local, mirrorFile, backup, toggler>>,
         Tasks(taskQueue') \subseteq Tasks(taskQueue),
         Tasks(filePinningQueue') \subseteq Tasks(filePinningQueue),
         \A t \in Tasks(taskQueue) : t \in Tasks(taskQueue') \/ t = Task("REMOVE_ITEM", p0),
         \A q \in Lists : inline'[q] = inline[q] \/ inline'[q].at \notin {"read", "pushed"}
  PROVE  MirrorInv'
<1> USE QueueNames
<1>1. TypeOK /\ ListsInv /\ HandsInv /\ ContentInv
  BY InvParts
<1>2. toggler /\ mirror'[p0] = Absent /\ \A p \in Path : p # p0 => mirror'[p] = mirror[p]
  BY <1>1 DEF ContentInv, PhaseInv, TypeOK
<1>3. HandsInv'
  <2>1. \A at : ~Is(PQ, "PIN_FILE", at)
    BY <1>1, PhaseFacts DEF ContentInv
  <2> QED  BY <1>1, <2>1 DEF HandsInv, Is, P
<1>4. PhaseInv' /\ UploadInv' /\ RecordInv'
  BY <1>1, <1>2 DEF ContentInv, PhaseInv, UploadInv, RecordInv
<1>5. RestoreInv'
  <2>1. /\ BucketTask("BUCKET_RESTORE") # Task("REMOVE_ITEM", p0)
        /\ \A p : Task("RESTORE_FILE", p) # Task("REMOVE_ITEM", p0)
    BY TaskNames DEF BucketRestore
  <2> QED  BY <1>1, <1>2, <2>1 DEF ContentInv, RestoreInv
<1>6. RemoveInv'
  <2>1. /\ BackupOff # Task("REMOVE_ITEM", p0)
        /\ \A p : p # p0 => Task("REMOVE_ITEM", p) # Task("REMOVE_ITEM", p0)
    BY TaskNames
  <2> QED  BY <1>1, <1>2, <2>1 DEF ContentInv, RemoveInv
<1> QED  BY <1>3, <1>4, <1>5, <1>6 DEF MirrorInv

LEMMA DeleteKeepsInv ==
  ASSUME MirrorInv, RemoveDelete \/ Unpin
  PROVE  MirrorInv'
<1> USE QueueNames, StepNames
<1>0. TypeOK /\ ListsInv /\ PhaseInv /\ TypeOK' /\ taskQueue \in Seq(Element)
      /\ filePinningQueue \in Seq(Element)
  BY InvParts, AddRemoveType, PinType, ListTypes DEF ContentInv
<1>1. UNCHANGED <<local, mirrorFile, backup, toggler, goroutine>> /\ ~backup
  BY <1>0, PhaseFacts DEF RemoveDelete, Unpin, deleteFileFromRemote, schema, user
<1>2. CASE RemoveDelete
  <2>1. P(TQ) \in Path /\ inline[TQ] # Idle /\ inline[TQ].task = Task("REMOVE_ITEM", P(TQ))
    BY <1>0, <1>2, IsFacts DEF RemoveDelete
  <2>2. /\ mirror' = [mirror EXCEPT ![P(TQ)] = Absent]
        /\ DoneTask(taskQueue) /\ filePinningQueue' = filePinningQueue
    BY <1>2 DEF RemoveDelete, deleteFileFromRemote
  <2>3. /\ Tasks(taskQueue') \subseteq Tasks(taskQueue)
        /\ \A t \in Tasks(taskQueue) : t # inline[TQ].task => t \in Tasks(taskQueue')
    BY <1>0, <2>2, DoneTaskFacts
  <2>4. /\ ListsInv'
        /\ \A q \in Lists : inline'[q] = inline[q] \/ inline'[q].at \notin {"read", "pushed"}
    BY <1>0, <1>1, <2>1, <2>2, DoneKeepsLists
  <2> QED  BY <1>0, <1>1, <2>1, <2>2, <2>3, <2>4, HubLoses
<1>3. CASE Unpin
  <2>1. P(PQ) \in Path
    BY <1>0, <1>3, IsFacts DEF Unpin
  <2>2. /\ mirror' = [mirror EXCEPT ![P(PQ)] = Absent] /\ taskQueue' = taskQueue
        /\ DonePinning
    BY <1>3 DEF Unpin, deleteFileFromRemote
  <2>3. /\ Tasks(filePinningQueue') \subseteq Tasks(filePinningQueue)
        /\ inline'[PQ] = Idle /\ inline'[TQ] = inline[TQ]
    BY <1>0, <2>2, DonePinningFacts
  <2>4. /\ ListsInv'
        /\ \A q \in Lists : inline'[q] = inline[q] \/ inline'[q].at \notin {"read", "pushed"}
    BY <1>0, <1>1, <2>2, <2>3, TaskNames DEF ListsInv
  <2> QED  BY <1>0, <1>1, <2>1, <2>2, <2>3, <2>4, HubLoses
<1> QED  BY <1>2, <1>3

\* What is put on the hub is a file that its user still has, if that user never
\* removes one.
LEMMA HubGains ==
  ASSUME MirrorInv, PinPush \/ PinUnreadable
  PROVE  MirrorInv'
<1> USE QueueNames, StepNames
<1> DEFINE p0 == P(PQ)
<1>0. TypeOK /\ ListsInv /\ HandsInv /\ ContentInv /\ PhaseInv /\ TypeOK'
      /\ taskQueue \in Seq(Element) /\ filePinningQueue \in Seq(Element)
  BY InvParts, PinType, ListTypes DEF ContentInv
<1>1. inline[PQ] \in Execution /\ inline[PQ] # Idle /\ p0 \in Path
      /\ inline[PQ].task = PinOf(p0) /\ backup
  BY <1>0, IsFacts, PhaseFacts DEF PinPush, PinUnreadable, PinOf
<1>2. PinOf(p0) \in Tasks(filePinningQueue)
  BY <1>0, <1>1 DEF ListsInv
<1>3. PICK c : c # Absent /\ mirror' = [mirror EXCEPT ![p0] = c]
  <2>1. CASE PinPush
    BY <1>0, <2>1 DEF PinPush, PushToMirror, HandsInv, Is
  <2>2. CASE PinUnreadable
    BY <2>2, MirrorAssumption DEF PinUnreadable, PushToMirror
  <2> QED  BY <2>1, <2>2
<1>4. UNCHANGED <<local, mirrorFile, backup, toggler, goroutine, taskQueue>>
  BY DEF PinPush, PinUnreadable, PushToMirror, schema, user
<1>5. mirror'[p0] # Absent /\ \A p \in Path : p # p0 => mirror'[p] = mirror[p]
  BY <1>0, <1>1, <1>3 DEF TypeOK
<1>6. /\ Tasks(filePinningQueue') = Tasks(filePinningQueue)
      /\ inline'[TQ] = inline[TQ]
      /\ inline'[PQ] = Idle \/ (inline'[PQ].at = "pushed" /\ inline'[PQ].task = inline[PQ].task)
  <2>1. CASE PinPush
    BY <1>0, <1>1, <2>1, AtFacts DEF PinPush
  <2>2. CASE PinUnreadable
    BY <1>0, <2>2, RetryPinningFacts DEF PinUnreadable
  <2> QED  BY <2>1, <2>2
<1>7. ListsInv'
  BY <1>0, <1>1, <1>4, <1>6 DEF ListsInv
<1>8. HandsInv'
  <2>1. inline'[PQ].at = "pushed" => inline'[PQ].task.path = p0
    BY <1>6, TaskNames DEF P
  <2>2. /\ \A q \in Lists : inline'[q].at = "read" => inline'[q].val # Absent
        /\ inline'[PQ].at # "read"
    BY <1>0, <1>6, TaskNames DEF HandsInv
  <2>3. Is(TQ, "RESTORE_FILE", "read") => P(TQ) \in Path
    BY <1>0, IsFacts
  <2> HIDE DEF p0
  <2> QED  BY <1>0, <1>4, <1>5, <1>6, <2>1, <2>2, <2>3 DEF HandsInv, Is, P
<1> HIDE DEF p0
<1>9. PhaseInv' /\ UploadInv' /\ RecordInv' /\ RemoveInv'
  BY <1>0, <1>1, <1>4, <1>5, <1>6 DEF ContentInv, PhaseInv, UploadInv, RecordInv, RemoveInv
<1>10. RestoreInv'
  BY <1>0, <1>2, <1>4, <1>5, <1>6 DEF ContentInv, RestoreInv
<1> QED  BY <1>0, <1>7, <1>8, <1>9, <1>10 DEF MirrorInv

-------------------------------------------------------------------------------
(* The steps that change a content of the local bucket *)

\* What is put into the local bucket is on the hub already, or backup is off.
LEMMA RestoredKeepsInv ==
  ASSUME MirrorInv, RestorePush \/ RestoreUnreadable
  PROVE  MirrorInv'
<1> USE QueueNames, StepNames
<1> DEFINE p0 == P(TQ)
<1>0. TypeOK /\ ListsInv /\ HandsInv /\ ContentInv /\ PhaseInv /\ TypeOK'
      /\ taskQueue \in Seq(Element) /\ filePinningQueue \in Seq(Element)
  BY InvParts, RestoreType, ListTypes DEF ContentInv
<1>1. inline[TQ] \in Execution /\ inline[TQ] # Idle /\ p0 \in Path
      /\ inline[TQ].task = Task("RESTORE_FILE", p0)
  BY <1>0, IsFacts DEF RestorePush, RestoreUnreadable
<1>2. backup => mirror[p0] # Absent
  BY <1>0 DEF RestorePush, RestoreUnreadable, HandsInv
<1>3. PICK c : c # Absent /\ local' = [local EXCEPT ![p0] = c]
  <2>1. CASE RestorePush
    BY <1>0, <2>1 DEF RestorePush, HandsInv, Is
  <2>2. CASE RestoreUnreadable
    BY <2>2, MirrorAssumption DEF RestoreUnreadable
  <2> QED  BY <2>1, <2>2
<1>4. UNCHANGED <<mirror, mirrorFile, backup, toggler, goroutine, filePinningQueue>>
  BY DEF RestorePush, RestoreUnreadable, lists, schema, user
<1>5. local'[p0] # Absent /\ \A p \in Path : p # p0 => local'[p] = local[p]
  BY <1>0, <1>1, <1>3 DEF TypeOK
<1>6. /\ Tasks(taskQueue') = Tasks(taskQueue)
      /\ inline'[PQ] = inline[PQ]
      /\ inline'[TQ] = Idle \/ (inline'[TQ].at = "pushed" /\ inline'[TQ].task = inline[TQ].task)
  <2>1. CASE RestorePush
    BY <1>0, <1>1, <2>1, AtFacts DEF RestorePush, lists
  <2>2. CASE RestoreUnreadable
    BY <1>0, <2>2, RetryTaskFacts DEF RestoreUnreadable
  <2> QED  BY <2>1, <2>2
<1>7. ListsInv'
  BY <1>0, <1>1, <1>4, <1>6 DEF ListsInv
<1>8. HandsInv'
  <2>1. inline'[TQ].at = "pushed" => inline'[TQ].task.path = p0
    BY <1>6, TaskNames DEF P
  <2>2. /\ \A q \in Lists : inline'[q].at = "read" => inline'[q].val # Absent
        /\ inline'[TQ].at # "read"
    BY <1>0, <1>6, TaskNames DEF HandsInv
  <2> HIDE DEF p0
  <2> QED  BY <1>0, <1>4, <1>5, <1>6, <2>1, <2>2 DEF HandsInv, Is, P
<1> HIDE DEF p0
<1>9. PhaseInv' /\ UploadInv' /\ RecordInv' /\ RemoveInv'
  BY <1>0, <1>1, <1>2, <1>4, <1>5, <1>6
  DEF ContentInv, PhaseInv, UploadInv, RecordInv, RemoveInv
<1>10. RestoreInv'
  BY <1>0, <1>4, <1>5, <1>6 DEF ContentInv, RestoreInv
<1> QED  BY <1>0, <1>7, <1>8, <1>9, <1>10 DEF MirrorInv

LEMMA UploadKeepsInv ==
  ASSUME MirrorInv, backup, NEW p0 \in Path, UploadFile(p0)
  PROVE  MirrorInv'
<1> USE QueueNames, StepNames
<1>0. TypeOK /\ ListsInv /\ HandsInv /\ ContentInv /\ PhaseInv /\ TypeOK'
      /\ taskQueue \in Seq(Element)
  BY InvParts, UserType, ListTypes DEF ContentInv
<1>1. AddOf(p0) \in TaskID
  BY TaskIDs DEF AddOf
<1>2. /\ Tasks(taskQueue') = Tasks(taskQueue) \cup {AddOf(p0)}
      /\ UNCHANGED <<mirror, mirrorFile, backup, toggler, goroutine, filePinningQueue, inline>>
  BY <1>0, <1>1, TasksOfEnqueued DEF UploadFile, AddOf, schema
<1>3. local'[p0] # Absent /\ \A p \in Path : p # p0 => local'[p] = local[p]
  <2>1. saves[p0] + 1 \in 1 .. MaxVersion
    BY <1>0, MirrorAssumption DEF UploadFile, TypeOK
  <2> QED  BY <1>0, <2>1, MirrorAssumption DEF UploadFile, TypeOK
<1>4. ListsInv'
  BY <1>0, <1>2 DEF ListsInv
<1>5. HandsInv'
  BY <1>0, <1>2, <1>3, IsFacts DEF HandsInv, Is, P
<1>6. PhaseInv' /\ UploadInv' /\ RecordInv' /\ RemoveInv'
  <2>1. AddOf(p0).type \in TaskTypes(backup)
    BY TaskNames DEF TaskTypes
  <2> QED  BY <1>0, <1>2, <1>3, <2>1 DEF ContentInv, PhaseInv, UploadInv, RecordInv, RemoveInv
<1>7. RestoreInv'
  <2>1. \A p : AddOf(p) = AddOf(p0) => p = p0
    BY TaskNames
  <2> QED  BY <1>0, <1>2, <1>3, <2>1 DEF ContentInv, RestoreInv
<1> QED  BY <1>0, <1>4, <1>5, <1>6, <1>7 DEF MirrorInv

LEMMA RemoveKeepsInv ==
  ASSUME MirrorInv, ~toggler, NEW p0 \in Path, RemoveDirOrFile(p0)
  PROVE  MirrorInv'
<1>0. TypeOK /\ ListsInv /\ HandsInv /\ ContentInv /\ PhaseInv /\ TypeOK'
  BY InvParts, UserType DEF ContentInv
<1>1. /\ UNCHANGED <<mirror, mirrorFile, backup, toggler, goroutine, taskQueue,
                     filePinningQueue, inline>>
      /\ \A p \in Path : local'[p] # Absent => local[p] # Absent
  BY <1>0 DEF RemoveDirOrFile, TypeOK, schema, lists
<1>2. ListsInv' /\ HandsInv'
  BY <1>0, <1>1 DEF ListsInv, HandsInv, Is, P
<1>3. PhaseInv' /\ UploadInv' /\ RecordInv' /\ RestoreInv' /\ RemoveInv'
  BY <1>0, <1>1 DEF ContentInv, PhaseInv, UploadInv, RecordInv, RestoreInv, RemoveInv
<1> QED  BY <1>0, <1>2, <1>3 DEF MirrorInv

-------------------------------------------------------------------------------
(* Turning backup on and off *)

LEMMA OffEnumerateKeepsInv ==
  ASSUME MirrorInv, OffEnumerate
  PROVE  MirrorInv'
<1> USE QueueNames, StepNames
<1> DEFINE list == EnqueuedAll(taskQueue, "REMOVE_ITEM", LocalFiles)
<1>0. TypeOK /\ ListsInv /\ HandsInv /\ ContentInv /\ PhaseInv /\ TypeOK'
      /\ taskQueue \in Seq(Element) /\ LocalFiles \in SUBSET Path
  BY InvParts, BucketTaskType, ListTypes DEF ContentInv, LocalFiles
<1>1. list \in Seq(Element)
      /\ Tasks(list) = Tasks(taskQueue) \cup {Task("REMOVE_ITEM", p) : p \in LocalFiles}
  BY <1>0, TasksOfEnqueuedAll
<1>2. DoneTask(list) /\ inline[TQ] # Idle /\ inline[TQ].task = BackupOff /\ ~backup
  BY <1>0, IsFacts, PhaseFacts DEF OffEnumerate, BackupOff, BucketTask
<1> HIDE DEF list
<1>3. UNCHANGED <<local, mirror, mirrorFile, backup, toggler, goroutine, filePinningQueue>>
  BY DEF OffEnumerate, content, schema, user
<1>4. /\ Tasks(taskQueue') \subseteq Tasks(list)
      /\ \A t \in Tasks(list) : t # BackupOff => t \in Tasks(taskQueue')
  BY <1>0, <1>1, <1>2, DoneTaskFacts
<1>5. ListsInv' /\ HandsInv'
  BY <1>0, <1>1, <1>2, <1>3, DoneKeepsLists, HandsKept
<1>6. toggler
  BY <1>0, <1>2 DEF PhaseInv
<1>7. PhaseInv'
  <2>1. \A t \in Tasks(list) : t.type \in TaskTypes(backup)
    BY <1>0, <1>1, <1>2, TaskNames DEF PhaseInv, TaskTypes
  <2> QED  BY <1>0, <1>3, <1>4, <2>1 DEF PhaseInv
<1>8. UploadInv' /\ RecordInv'
  BY <1>2, <1>3, <1>6 DEF UploadInv, RecordInv
<1>9. RestoreInv'
  <2>1. /\ BucketRestore # BackupOff
        /\ \A p : Task("RESTORE_FILE", p) # BackupOff
        /\ \A p : AddOf(p) \in Tasks(list) => AddOf(p) \in Tasks(taskQueue)
    BY <1>1, TaskNames
  <2> QED  BY <1>0, <1>1, <1>3, <1>4, <2>1 DEF ContentInv, RestoreInv, BucketRestore
<1>10. RemoveInv'
  <2>1. \A p : Task("REMOVE_ITEM", p) # BackupOff
    BY TaskNames
  <2>2. \A p \in Path : local[p] # Absent => Task("REMOVE_ITEM", p) \in Tasks(taskQueue')
    BY <1>1, <1>4, <2>1 DEF LocalFiles
  <2> QED  BY <1>0, <1>2, <1>3, <2>2 DEF ContentInv, RemoveInv
<1> QED  BY <1>0, <1>5, <1>7, <1>8, <1>9, <1>10 DEF MirrorInv

LEMMA OnEnumerateKeepsInv ==
  ASSUME MirrorInv, OnEnumerate
  PROVE  MirrorInv'
<1> USE QueueNames, StepNames
<1> DEFINE list == EnqueuedAll(taskQueue, "ADD_ITEM", LocalFiles)
<1>0. TypeOK /\ ListsInv /\ HandsInv /\ ContentInv /\ PhaseInv /\ TypeOK'
      /\ taskQueue \in Seq(Element) /\ LocalFiles \in SUBSET Path
  BY InvParts, BucketTaskType, ListTypes DEF ContentInv, LocalFiles
<1>1. list \in Seq(Element)
      /\ Tasks(list) = Tasks(taskQueue) \cup {AddOf(p) : p \in LocalFiles}
  BY <1>0, TasksOfEnqueuedAll DEF AddOf
<1>2. taskQueue' = Without(list, BackupOn) /\ goroutine' = "idle" /\ backup
  BY <1>0, PhaseFacts DEF OnEnumerate, OnDone, BackupOn
<1> HIDE DEF list
<1>3. UNCHANGED <<local, mirror, mirrorFile, backup, toggler, inline, filePinningQueue>>
  BY DEF OnEnumerate, content, schema, user
<1>4. /\ Tasks(taskQueue') \subseteq Tasks(list)
      /\ \A t \in Tasks(list) : t # BackupOn => t \in Tasks(taskQueue')
  BY <1>1, <1>2, TasksOfWithout
<1>5. ListsInv' /\ HandsInv'
  BY <1>0, <1>1, <1>2, <1>3, <1>4, HandsKept DEF ListsInv
<1>6. PhaseInv' /\ RecordInv' /\ RemoveInv'
  <2>1. \A t \in Tasks(list) : t.type \in TaskTypes(backup)
    BY <1>0, <1>1, <1>2, TaskNames DEF PhaseInv, TaskTypes
  <2> QED  BY <1>0, <1>2, <1>3, <1>4, <2>1 DEF ContentInv, PhaseInv, RecordInv, RemoveInv
<1>7. UploadInv'
  <2>1. \A p : AddOf(p) # BackupOn
    BY TaskNames
  <2>2. \A p \in Path : local[p] # Absent => AddOf(p) \in Tasks(taskQueue')
    BY <1>1, <1>4, <2>1 DEF LocalFiles
  <2> QED  BY <1>3, <2>2 DEF UploadInv
<1>8. RestoreInv'
  <2>1. /\ BucketRestore # BackupOn
        /\ \A p : Task("RESTORE_FILE", p) # BackupOn
        /\ \A t \in {AddOf(p) : p \in LocalFiles} : local[t.path] # Absent
    BY TaskNames DEF LocalFiles
  <2>2. \A p : AddOf(p).path = p
    BY TaskNames
  <2> QED  BY <1>0, <1>1, <1>3, <1>4, <2>1, <2>2 DEF ContentInv, RestoreInv, BucketRestore
<1> QED  BY <1>0, <1>5, <1>6, <1>7, <1>8 DEF MirrorInv

LEMMA ToggleKeepsInv ==
  ASSUME MirrorInv, toggler, Drained, ToggleBucketBackup
  PROVE  MirrorInv'
<1> USE QueueNames, StepNames
<1>0. TypeOK /\ ListsInv /\ HandsInv /\ ContentInv /\ TypeOK'
      /\ taskQueue \in Seq(Element) /\ filePinningQueue \in Seq(Element)
  BY InvParts, UserType, ListTypes
<1>1. Tasks(taskQueue) = {} /\ Tasks(filePinningQueue) = {}
  BY <1>0, ListFacts DEF Drained
<1>2. inline[TQ] = Idle /\ inline[PQ] = Idle /\ goroutine = "idle"
  BY <1>0, <1>1 DEF ListsInv
<1>3. UNCHANGED <<local, mirror, mirrorFile, toggler, filePinningQueue, inline, goroutine>>
      /\ backup' = ~backup
  BY DEF ToggleBucketBackup, content, user
<1>4. BackupOn \in TaskID /\ BackupOff \in TaskID
  BY TaskIDs DEF BackupOn, BackupOff
<1>5. Tasks(taskQueue') = {IF backup' THEN BackupOn ELSE BackupOff}
  <2>1. \A t \in TaskID : Tasks(Enqueued(taskQueue, t)) = {t}
    BY <1>0, <1>1, TasksOfEnqueued
  <2>2. taskQueue' = Enqueued(taskQueue, IF backup' THEN BackupOn ELSE BackupOff)
    <3>1. CASE backup'
      BY <3>1 DEF ToggleBucketBackup, BackupOn
    <3>2. CASE ~backup'
      BY <3>2 DEF ToggleBucketBackup, BackupOff
    <3> QED  BY <3>1, <3>2
  <2> QED  BY <1>4, <2>1, <2>2
<1>6. ListsInv' /\ HandsInv'
  BY <1>2, <1>3, TaskNames DEF ListsInv, HandsInv, Is
<1>7. PhaseInv' /\ RecordInv'
  <2>1. (IF backup' THEN BackupOn ELSE BackupOff).type \in TaskTypes(backup')
    BY TaskNames DEF TaskTypes
  <2> QED  BY <1>1, <1>3, <1>5, <2>1 DEF PhaseInv, RecordInv
<1>8. \A p \in Path : mirror[p] # Absent => local[p] # Absent
  BY <1>0, <1>1 DEF ContentInv, RestoreInv
<1>9. UploadInv' /\ RemoveInv'
  BY <1>3, <1>5, <1>8 DEF UploadInv, RemoveInv
<1>10. RestoreInv'
  <2>1. \A p : AddOf(p) # BackupOn /\ AddOf(p) # BackupOff
    BY TaskNames
  <2> QED  BY <1>1, <1>3, <1>5, <1>8, <2>1 DEF RestoreInv
<1> QED  BY <1>0, <1>6, <1>7, <1>9, <1>10 DEF MirrorInv

-------------------------------------------------------------------------------
(* The theorems *)

LEMMA InitInv == Init => MirrorInv
<1> SUFFICES ASSUME Init  PROVE MirrorInv
  OBVIOUS
<1> USE QueueNames
<1>1. TypeOK
  BY InitType
<1>2. /\ inline[TQ] = Idle /\ inline[PQ] = Idle /\ goroutine = "idle" /\ backup
      /\ Tasks(filePinningQueue) = {}
  BY DEF Init, Tasks
<1>3. ListsInv /\ HandsInv /\ RemoveInv
  BY <1>2, TaskNames DEF ListsInv, HandsInv, RemoveInv, Is
<1>4. CASE CreatedBucket
  <2>1. Tasks(taskQueue) = {BucketTask("CREATE_BUCKET"), BucketRestore}
    BY <1>4 DEF CreatedBucket, Tasks, New, BucketRestore
  <2>2. \A p \in Path : local[p] = Absent /\ mirror[p] = Absent /\ mirrorFile[p] = "none"
    BY <1>4 DEF CreatedBucket
  <2>3. \A p : AddOf(p) \notin Tasks(taskQueue)
    BY <2>1, TaskNames
  <2>4. PhaseInv
    BY <1>2, <2>1, TaskNames DEF PhaseInv, TaskTypes
  <2> QED  BY <1>1, <1>2, <1>3, <2>2, <2>3, <2>4 DEF MirrorInv, UploadInv, RecordInv, RestoreInv
<1>5. CASE StartedBucket
  <2>1. Tasks(taskQueue) = {BucketRestore, BackupOn}
    BY <1>5 DEF StartedBucket, Tasks, New, BucketRestore, BackupOn
  <2>2. \A p \in Path : mirror[p] # Absent
    BY <1>5, MirrorAssumption DEF StartedBucket
  <2>3. \A p : AddOf(p) \notin Tasks(taskQueue)
    BY <2>1, TaskNames
  <2>4. PhaseInv
    BY <1>2, <2>1, TaskNames DEF PhaseInv, TaskTypes
  <2> QED
    BY <1>1, <1>2, <1>3, <2>1, <2>2, <2>3, <2>4
    DEF MirrorInv, UploadInv, RecordInv, RestoreInv, BucketRestore
<1> QED  BY <1>4, <1>5 DEF Init

LEMMA NextInv == MirrorInv /\ [UserNext]_vars => MirrorInv'
<1> SUFFICES ASSUME MirrorInv, [UserNext]_vars  PROVE MirrorInv'
  OBVIOUS
<1>1. CASE UNCHANGED vars
  BY <1>1
  DEF vars, content, schema, lists, user, MirrorInv, TypeOK, ListsInv, PhaseInv, HandsInv,
      UploadInv, RecordInv, RestoreInv, RemoveInv, Is, P
<1>2. CASE Execute
  BY <1>2, FlagKeepsInv, AddPinKeepsInv, DeleteKeepsInv, PinKeepsInv, HubGains,
     CheckKeepsInv, OffEnumerateKeepsInv, OnEnumerateKeepsInv, RestoreKeepsInv,
     RestoredKeepsInv
  DEF Execute
<1>3. CASE Loops /\ ~Execute
  BY <1>3, LoopKeepsInv DEF Loops
<1>4. CASE EditNext
  BY <1>4, RestoreKeepsInv, UploadKeepsInv, RemoveKeepsInv
  DEF EditNext, MirrorInv, PhaseInv
<1>5. CASE PatientNext
  BY <1>5, RestoreKeepsInv, UploadKeepsInv, ToggleKeepsInv DEF PatientNext
<1> QED  BY <1>1, <1>2, <1>3, <1>4, <1>5 DEF UserNext

LEMMA UserInvariance == UserSpec => []MirrorInv
<1> QED  BY InitInv, NextInv, PTL DEF UserSpec

\* Whatever the user does and whatever fails, the contents, records and lists of
\* a bucket are of their types: a retry, a drop or a bulk enqueue leaves nothing
\* malformed behind (queue.go:16-28, task-executors.go).
THEOREM MirrorTypeCorrect == Spec => []TypeOK
<1> QED  BY InitType, NextType, PTL DEF Spec

\* With backup left on, a bucket whose lists are empty has no local file that is
\* not on the hub, for any number of files and of saves.
THEOREM SavedFilesReachHub == UserSpec => []SettledFilesAreOnHub
<1>1. MirrorInv => SettledFilesAreOnHub
  <2> SUFFICES ASSUME MirrorInv, Drained, ~toggler, NEW p \in Path, local[p] # Absent
      PROVE  mirror[p] # Absent
    BY DEF SettledFilesAreOnHub
  <2>1. Tasks(taskQueue) = {} /\ Tasks(filePinningQueue) = {}
    BY ListFacts DEF Drained, MirrorInv, TypeOK
  <2> QED  BY <2>1 DEF MirrorInv, PhaseInv, UploadInv
<1> QED  BY <1>1, UserInvariance, PTL

\* With backup left on, the record of a file says that it is backed up only when
\* the hub has a copy (task-executors.go:105-109).
THEOREM RecordsAreTrue == UserSpec => []BackedUpIsOnHub
<1>1. MirrorInv => BackedUpIsOnHub
  BY DEF MirrorInv, RecordInv, BackedUpIsOnHub
<1> QED  BY <1>1, UserInvariance, PTL

\* Of a user who turns backup on and off when the lists are empty, the hub has
\* every local file or none when they are empty again (task-executors.go:171-227).
THEOREM TogglesAreObeyed == UserSpec => []SettledBackupIsObeyed
<1>1. MirrorInv => SettledBackupIsObeyed
  <2> SUFFICES ASSUME MirrorInv, Drained, toggler, NEW p \in Path, local[p] # Absent
      PROVE  backup <=> mirror[p] # Absent
    BY DEF SettledBackupIsObeyed
  <2>1. Tasks(taskQueue) = {} /\ Tasks(filePinningQueue) = {}
    BY ListFacts DEF Drained, MirrorInv, TypeOK
  <2>2. backup \in BOOLEAN
    BY DEF MirrorInv, TypeOK
  <2> QED  BY <2>1, <2>2 DEF MirrorInv, UploadInv, RemoveInv
<1> QED  BY <1>1, UserInvariance, PTL

\* While backup is left on no step takes a file's copy off the hub: the tasks that
\* delete one are never in a list (task-executors.go:70-95, 131-139).
THEOREM HubCopiesAreKept == UserSpec => HubKeepsFiles
<1>1. MirrorInv /\ [UserNext]_vars =>
        [~toggler => \A p \in Path : mirror[p] # Absent => mirror'[p] # Absent]_vars
  <2> SUFFICES ASSUME MirrorInv, UserNext, ~toggler, NEW p \in Path, mirror[p] # Absent
      PROVE  mirror'[p] # Absent
    BY DEF MirrorInv
  <2>1. TypeOK /\ ListsInv /\ PhaseInv /\ HandsInv /\ backup
    BY DEF MirrorInv, PhaseInv
  <2>2. CASE PinPush
    BY <2>1, <2>2 DEF PinPush, PushToMirror, HandsInv, Is, TypeOK, PQ, Lists
  <2>3. CASE PinUnreadable
    BY <2>1, <2>3, MirrorAssumption DEF PinUnreadable, PushToMirror, TypeOK
  <2>4. ~RemoveDelete /\ ~Unpin
    BY <2>1, PhaseFacts DEF RemoveDelete, Unpin
  <2>5. CASE Loops /\ ~PinPush /\ ~PinUnreadable
    <3>1. UNCHANGED mirror
      BY <2>4, <2>5
      DEF Loops, Execute, BeginTask, BeginPinning, BeginBackupOn, FailTask, FailPinning,
          FailBackupOn, AddFlag, AddPin, RemoveSpawn, RemoveUnset, PinRead, PinFlag,
          CreateMirror, OffCheck, OffEnumerate, OnCheck, OnEnumerate, RestoreWithoutMirror,
          restoreBucket, RestoreCheck, RestorePush, RestoreUnreadable, RestoreDone, content
    <3> QED  BY <3>1
  <2>6. CASE EditNext
    BY <2>6 DEF EditNext, NotifyBucketRestore, UploadFile, RemoveDirOrFile, content
  <2> QED  BY <2>2, <2>3, <2>5, <2>6 DEF UserNext, PatientNext
<1> QED  BY <1>1, UserInvariance, PTL DEF UserSpec, HubKeepsFiles

-------------------------------------------------------------------------------
(* The tasks implement a backup service: each step of a loop, an executor or  *)
(* the user is one of its steps or none                                       *)

\* The variables of the service that are no variables here.
OnHub == {p \in Path : mirror[p] # Absent}
Coming == {p \in Path : Is(TQ, "RESTORE_FILE", "read") /\ p = P(TQ)}
Promise == Drained => LocalFiles \cap OnHub = IF backup THEN LocalFiles ELSE {}

\* Empty lists owe nothing to the hub, so that it holds what backup says.
LEMMA PromiseIsKept == MirrorInv => Promise
<1> SUFFICES ASSUME MirrorInv, Drained
             PROVE  LocalFiles \cap OnHub = IF backup THEN LocalFiles ELSE {}
  BY DEF Promise
<1>1. Tasks(taskQueue) = {} /\ Tasks(filePinningQueue) = {}
  BY ListFacts DEF Drained, MirrorInv, TypeOK
<1>2. backup \in BOOLEAN
  BY DEF MirrorInv, TypeOK
<1>3. CASE backup
  BY <1>1, <1>3 DEF MirrorInv, UploadInv, LocalFiles, OnHub
<1>4. CASE ~backup
  BY <1>1, <1>4 DEF MirrorInv, RemoveInv, LocalFiles, OnHub
<1> QED  BY <1>2, <1>3, <1>4

\* The steps of the service, told of the contents of the two buckets.
ServiceStep ==
  \/ UNCHANGED <<LocalFiles, OnHub, backup>> /\ Coming' \in SUBSET Coming
  \/ Drained /\ backup' = ~backup /\ UNCHANGED <<LocalFiles, OnHub, Coming>>
  \/ \E f \in Path :
       \/ backup /\ LocalFiles' = LocalFiles \cup {f} /\ UNCHANGED <<OnHub, backup, Coming>>
       \/ backup /\ LocalFiles' = LocalFiles \ {f} /\ UNCHANGED <<OnHub, backup, Coming>>
       \/ backup /\ OnHub' = OnHub \cup {f} /\ UNCHANGED <<LocalFiles, backup, Coming>>
       \/ ~backup /\ OnHub' = OnHub \ {f} /\ UNCHANGED <<LocalFiles, backup, Coming>>
       \/ f \in OnHub /\ Coming' = Coming \cup {f} /\ UNCHANGED <<LocalFiles, OnHub, backup>>
       \/ /\ f \in OnHub \cup Coming
          /\ LocalFiles' = LocalFiles \cup {f} /\ Coming' = Coming \ {f}
          /\ UNCHANGED <<OnHub, backup>>

\* Together with the promise each of them is a step of the service.
LEMMA StepIsServiceNext ==
  ASSUME ServiceStep, Promise'
  PROVE  Service!Next
BY DEF ServiceStep, Promise, OnHub, Coming, Service!Next, Service!Save, Service!Remove,
       Service!Turn, Service!Upload, Service!Delete, Service!Find, Service!Restore,
       Service!Work, Service!Obeyed

\* Only a RESTORE_FILE that has read the hub's copy has a file coming.
LEMMA ComingStays ==
  /\ inline'[TQ] = inline[TQ] => Coming' = Coming
  /\ inline'[TQ].at # "read" => Coming' = {}
  /\ inline[TQ].at # "read" => Coming = {}
BY DEF Coming, Is, P

\* A step that leaves the contents alone.
LEMMA WorkStep ==
  ASSUME UNCHANGED <<local, mirror, backup>>,
         inline'[TQ] = inline[TQ] \/ inline'[TQ].at # "read"
  PROVE  ServiceStep
BY ComingStays DEF ServiceStep, LocalFiles, OnHub

\* Loops that begin a task, and executions that fail.
LEMMA LoopSteps ==
  ASSUME MirrorInv,
         \/ BeginTask \/ BeginPinning \/ BeginBackupOn
         \/ FailTask \/ FailPinning \/ FailBackupOn
  PROVE  ServiceStep
<1> USE QueueNames, TaskNames
<1>0. TypeOK /\ taskQueue \in Seq(Element) /\ filePinningQueue \in Seq(Element)
      /\ "taskQueue" = TQ /\ "filePinningQueue" = PQ
  BY ListTypes DEF MirrorInv
<1>1. UNCHANGED <<local, mirror, backup>>
  BY DEF BeginTask, BeginPinning, BeginBackupOn, FailTask, FailPinning, FailBackupOn,
         content, schema
<1>2. CASE BeginTask
  BY <1>0, <1>1, <1>2, BeginFacts, WorkStep DEF BeginTask
<1>3. CASE BeginPinning
  BY <1>0, <1>1, <1>3, BeginFacts, WorkStep DEF BeginPinning
<1>4. CASE BeginBackupOn \/ FailBackupOn
  BY <1>1, <1>4, WorkStep DEF BeginBackupOn, FailBackupOn
<1>5. CASE FailTask
  BY <1>0, <1>1, <1>5, RetryTaskFacts, WorkStep DEF FailTask
<1>6. CASE FailPinning
  BY <1>0, <1>1, <1>6, RetryPinningFacts, WorkStep DEF FailPinning
<1> QED  BY <1>2, <1>3, <1>4, <1>5, <1>6

\* Executors that leave the contents alone.
LEMMA QuietSteps ==
  ASSUME MirrorInv,
         \/ AddFlag \/ AddPin \/ RemoveSpawn \/ RemoveUnset \/ PinRead \/ PinFlag
         \/ CreateMirror \/ OffCheck \/ OffEnumerate \/ OnCheck \/ OnEnumerate
         \/ RestoreWithoutMirror \/ restoreBucket \/ RestoreDone
  PROVE  ServiceStep
<1> USE QueueNames, TaskNames, StepNames
<1>0. TypeOK
  BY DEF MirrorInv
<1>1. UNCHANGED <<local, mirror, backup>>
  BY DEF AddFlag, AddPin, RemoveSpawn, RemoveUnset, PinRead, PinFlag, CreateMirror, OffCheck,
         OffEnumerate, OnCheck, OnEnumerate, RestoreWithoutMirror, restoreBucket, RestoreDone,
         content, schema
<1>2. ASSUME inline' = [inline EXCEPT ![TQ] = Idle]  PROVE ServiceStep
  BY <1>0, <1>1, <1>2, EndFacts, WorkStep
<1>3. ASSUME NEW q \in Lists, NEW type \in FileTypes \cup BucketTypes, NEW from, Is(q, type, from),
             NEW at \in Steps, at # "read", At(q, at)
      PROVE  ServiceStep
  <2>1. inline[q] \in Execution
    BY <1>0, <1>3, IsFacts
  <2>2. inline'[q].at = at /\ \A r \in Lists : r # q => inline'[r] = inline[r]
    BY <1>0, <1>3, <2>1, AtFacts
  <2> QED  BY <1>1, <1>3, <2>2, WorkStep
<1>4. TQ \in Lists /\ PQ \in Lists
  OBVIOUS
<1>5. /\ "ADD_ITEM" \in FileTypes /\ "REMOVE_ITEM" \in FileTypes
      /\ "TOGGLE_BACKUP_OFF" \in BucketTypes
  BY DEF FileTypes, BucketTypes
<1>6. CASE AddFlag
  BY <1>3, <1>4, <1>5, <1>6 DEF AddFlag, Steps
<1>7. CASE RemoveSpawn \/ RemoveUnset
  BY <1>3, <1>4, <1>5, <1>7 DEF RemoveSpawn, RemoveUnset, Steps
<1>8. CASE OffCheck
  BY <1>2, <1>3, <1>4, <1>5, <1>8 DEF OffCheck, Steps, DoneTask
<1>9. CASE PinRead
  BY <1>0, <1>1, <1>9, WorkStep DEF PinRead, TypeOK
<1>10. CASE PinFlag
  BY <1>0, <1>1, <1>10, DonePinningFacts, RetryPinningFacts, WorkStep DEF PinFlag
<1>11. CASE OnCheck \/ OnEnumerate
  BY <1>1, <1>11, WorkStep DEF OnCheck, OnEnumerate
<1>12. CASE \/ AddPin \/ CreateMirror \/ OffEnumerate \/ RestoreWithoutMirror
            \/ restoreBucket \/ RestoreDone
  BY <1>2, <1>12 DEF AddPin, CreateMirror, OffEnumerate, RestoreWithoutMirror, restoreBucket,
     RestoreDone, DoneTask, RetryTask
<1> QED  BY <1>6, <1>7, <1>8, <1>9, <1>10, <1>11, <1>12

\* Executors that put a copy on the hub, or take one off it.
LEMMA HubSteps ==
  ASSUME MirrorInv, PinPush \/ PinUnreadable \/ RemoveDelete \/ Unpin
  PROVE  ServiceStep
<1> USE QueueNames, TaskNames, StepNames
<1>0. TypeOK /\ ListsInv /\ PhaseInv /\ HandsInv
  BY DEF MirrorInv
<1>1. "PIN_FILE" \in FileTypes /\ "UNPIN_FILE" \in FileTypes /\ "REMOVE_ITEM" \in FileTypes
  BY DEF FileTypes
<1>2. ASSUME NEW f \in Path, NEW c, c # Absent, PushToMirror(f, c),
             inline'[TQ] = inline[TQ], backup
      PROVE  ServiceStep
  <2>1. OnHub' = OnHub \cup {f} /\ UNCHANGED <<LocalFiles, backup>>
    BY <1>0, <1>2 DEF PushToMirror, OnHub, LocalFiles, schema, TypeOK
  <2> QED  BY <1>2, <2>1, ComingStays DEF ServiceStep
<1>3. ASSUME NEW f \in Path, deleteFileFromRemote(f), Coming' = Coming, backup' = backup, ~backup
      PROVE  ServiceStep
  <2>1. OnHub' = OnHub \ {f} /\ UNCHANGED LocalFiles
    BY <1>0, <1>3 DEF deleteFileFromRemote, OnHub, LocalFiles, TypeOK
  <2> QED  BY <1>3, <2>1 DEF ServiceStep
<1>4. CASE PinPush
  <2>1. P(PQ) \in Path /\ inline[PQ] \in Execution /\ backup /\ inline[PQ].val # Absent
    BY <1>0, <1>1, <1>4, IsFacts, PhaseFacts DEF PinPush, HandsInv, Is
  <2>2. inline'[TQ] = inline[TQ]
    BY <1>0, <1>4, <2>1, AtFacts DEF PinPush, Steps
  <2> QED  BY <1>2, <1>4, <2>1, <2>2 DEF PinPush
<1>5. CASE PinUnreadable
  <2>1. P(PQ) \in Path /\ backup /\ Empty # Absent
    BY <1>0, <1>1, <1>5, IsFacts, PhaseFacts, MirrorAssumption DEF PinUnreadable
  <2>2. inline'[TQ] = inline[TQ]
    BY <1>0, <1>5, RetryPinningFacts DEF PinUnreadable
  <2> QED  BY <1>2, <1>5, <2>1, <2>2 DEF PinUnreadable
<1>6. CASE RemoveDelete
  <2>1. P(TQ) \in Path /\ ~backup
    BY <1>0, <1>1, <1>6, IsFacts, PhaseFacts DEF RemoveDelete
  <2>2. inline[TQ].at = "unset" /\ inline'[TQ].at # "read"
    BY <1>0, <1>6, EndFacts DEF RemoveDelete, DoneTask, Is
  <2> QED  BY <1>3, <1>6, <2>1, <2>2, ComingStays DEF RemoveDelete, schema
<1>7. CASE Unpin
  <2>1. P(PQ) \in Path /\ ~backup
    BY <1>0, <1>1, <1>7, IsFacts, PhaseFacts DEF Unpin
  <2>2. inline'[TQ] = inline[TQ]
    BY <1>0, <1>7, DonePinningFacts DEF Unpin
  <2> QED  BY <1>3, <1>7, <2>1, <2>2, ComingStays DEF Unpin, schema
<1> QED  BY <1>4, <1>5, <1>6, <1>7

\* A download: what was found on the hub is put here, however late.
LEMMA RestoreSteps ==
  ASSUME MirrorInv, RestoreCheck \/ RestorePush \/ RestoreUnreadable
  PROVE  ServiceStep
<1> USE QueueNames, TaskNames, StepNames
<1>0. TypeOK /\ HandsInv /\ "RESTORE_FILE" \in FileTypes
  BY DEF MirrorInv, FileTypes
<1>1. P(TQ) \in Path /\ inline[TQ] \in Execution
  BY <1>0, IsFacts DEF RestoreCheck, RestorePush, RestoreUnreadable
<1>2. ASSUME NEW c, c # Absent, local' = [local EXCEPT ![P(TQ)] = c],
             UNCHANGED <<mirror, backup>>
      PROVE  LocalFiles' = LocalFiles \cup {P(TQ)} /\ UNCHANGED <<OnHub, backup>>
  BY <1>0, <1>1, <1>2 DEF LocalFiles, OnHub, TypeOK
<1>3. CASE RestoreCheck
  <2>1. UNCHANGED <<local, mirror, backup>> /\ P(TQ) \in OnHub /\ Coming = {}
    BY <1>1, <1>3, ComingStays DEF RestoreCheck, content, schema, OnHub, Is
  <2>2. CASE DoneTask(taskQueue)
    BY <1>0, <2>1, <2>2, EndFacts, WorkStep DEF DoneTask
  <2>3. CASE inline' = [inline EXCEPT ![TQ].at = "read", ![TQ].val = mirror[P(TQ)]]
    <3>1. inline'[TQ].at = "read" /\ inline'[TQ].task = inline[TQ].task
      BY <1>0, <1>1, <2>3 DEF TypeOK, Execution
    <3>2. inline[TQ].task.type = "RESTORE_FILE"
      BY <1>3 DEF RestoreCheck, Is
    <3>3. Coming' = {P(TQ)}
      BY <1>1, <3>1, <3>2 DEF Coming, Is, P
    <3>4. UNCHANGED <<LocalFiles, OnHub>>
      BY <2>1 DEF LocalFiles, OnHub
    <3> QED  BY <1>1, <2>1, <3>3, <3>4 DEF ServiceStep
  <2> QED  BY <1>3, <2>2, <2>3 DEF RestoreCheck
<1>4. CASE RestorePush
  <2>1. inline[TQ].val # Absent /\ Coming = {P(TQ)}
    BY <1>0, <1>1, <1>4 DEF RestorePush, HandsInv, Is, Coming
  <2>2. Coming' = {}
    BY <1>0, <1>1, <1>4, AtFacts, ComingStays DEF RestorePush, Steps
  <2>3. LocalFiles' = LocalFiles \cup {P(TQ)} /\ UNCHANGED <<OnHub, backup>>
    BY <1>2, <1>4, <2>1 DEF RestorePush, schema
  <2> QED  BY <1>1, <2>1, <2>2, <2>3 DEF ServiceStep
<1>5. CASE RestoreUnreadable
  <2>1. P(TQ) \in OnHub /\ Coming = {}
    BY <1>1, <1>5, ComingStays DEF RestoreUnreadable, OnHub, Is
  <2>2. Coming' = {}
    BY <1>0, <1>5, RetryTaskFacts, ComingStays DEF RestoreUnreadable
  <2>3. LocalFiles' = LocalFiles \cup {P(TQ)} /\ UNCHANGED <<OnHub, backup>>
    BY <1>2, <1>5, MirrorAssumption DEF RestoreUnreadable, schema
  <2> QED  BY <1>1, <2>1, <2>2, <2>3 DEF ServiceStep
<1> QED  BY <1>3, <1>4, <1>5

\* The user saves, removes and toggles.
LEMMA UserSteps ==
  ASSUME MirrorInv, EditNext \/ PatientNext
  PROVE  ServiceStep
<1>0. TypeOK /\ (~toggler => backup)
  BY DEF MirrorInv, PhaseInv
<1>1. CASE NotifyBucketRestore
  BY <1>1, WorkStep DEF NotifyBucketRestore, content, schema
<1>2. ASSUME NEW p \in Path, UploadFile(p), backup  PROVE ServiceStep
  <2>1. saves[p] + 1 # Absent
    BY <1>0, <1>2, MirrorAssumption DEF UploadFile, TypeOK
  <2>2. LocalFiles' = LocalFiles \cup {p} /\ UNCHANGED <<OnHub, backup, Coming>>
    BY <1>0, <1>2, <2>1, ComingStays DEF UploadFile, LocalFiles, OnHub, TypeOK, schema
  <2> QED  BY <1>2, <2>2 DEF ServiceStep
<1>3. ASSUME NEW p \in Path, RemoveDirOrFile(p), backup  PROVE ServiceStep
  <2>1. LocalFiles' = LocalFiles \ {p} /\ UNCHANGED <<OnHub, backup, Coming>>
    BY <1>0, <1>3, ComingStays DEF RemoveDirOrFile, LocalFiles, OnHub, TypeOK, schema
  <2> QED  BY <1>3, <2>1 DEF ServiceStep
<1>4. CASE Drained /\ ToggleBucketBackup
  <2>1. backup' = ~backup /\ UNCHANGED <<LocalFiles, OnHub, Coming>>
    BY <1>4, ComingStays DEF ToggleBucketBackup, LocalFiles, OnHub, content
  <2> QED  BY <1>4, <2>1 DEF ServiceStep
<1> QED  BY <1>0, <1>1, <1>2, <1>3, <1>4 DEF EditNext, PatientNext

\* With the lists, the loops and the executors, failures and retries included, the
\* backup of a bucket implements a service without them: it puts files on the hub
\* while backup is on and takes them off while it is off, brings back only what it
\* has found there, and has done what the flag says whenever both lists are empty
\* (task-executors.go:45-289, restore.go:19-64).
THEOREM ImplementsBackupService == UserSpec => ServiceSpec
<1>1. Init => Service!Init
  <2> SUFFICES ASSUME Init  PROVE Service!Init
    OBVIOUS
  <2>1. Coming = {}
    BY ComingStays, QueueNames, TaskNames DEF Init
  <2>2. backup = TRUE /\ Drained = FALSE
    BY DEF Init, CreatedBucket, StartedBucket, Drained
  <2> QED  BY <2>1, <2>2 DEF Service!Init, LocalFiles, Coming
<1>2. Promise' /\ MirrorInv /\ [UserNext]_vars => [Service!Next]_(Service!vars)
  <2> SUFFICES ASSUME Promise', MirrorInv, [UserNext]_vars
               PROVE  [Service!Next]_(Service!vars)
    OBVIOUS
  <2>1. CASE UserNext
    <3>1. ServiceStep
      BY <2>1, LoopSteps, QuietSteps, HubSteps, RestoreSteps, UserSteps
      DEF UserNext, Loops, Execute
    <3> QED  BY <3>1, StepIsServiceNext
  <2>2. CASE UNCHANGED vars
    BY <2>2 DEF vars, content, schema, lists, Service!vars, LocalFiles, Drained, Is, P
  <2> QED  BY <2>1, <2>2
<1> QED
  BY <1>1, <1>2, PromiseIsKept, UserInvariance, PTL DEF UserSpec, ServiceSpec, Service!Spec

===============================================================================
