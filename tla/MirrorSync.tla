------------------------------ MODULE MirrorSync ------------------------------
(***************************************************************************)
(* What the tasks of the synchronizer do to one bucket: the local bucket,  *)
(* its mirror on the hub, the MirrorFile records and the bucket's schema.  *)
(* The queue machinery is the one of Synchronizer, seen through the live   *)
(* tasks of each list (finished ones no longer matter to isTaskEnqueued).  *)
(*                                                                         *)
(* Abstractions.  A file's content is the number of the save it came from. *)
(* UpdatedAt is the time of the push into a bucket, so of the two copies   *)
(* of a path only which was pushed last is kept (mirrorNewer).  Calls to   *)
(* buckets and single operations on the thread model are atomic; any of    *)
(* them may fail.  Search-index tasks and file events are left out.  The   *)
(* parallel BACKUP_ON task may be retried before its pass has ended.       *)
(***************************************************************************)
EXTENDS Naturals, Sequences, FiniteSets, SequencesExt

CONSTANTS
  Path,        \* the files of the bucket
  MaxVersion,  \* bound of the model: saves of one file
  Absent,      \* the content of a path that does not exist
  Empty        \* what is pushed when the source file cannot be read

ASSUME MirrorAssumption ==
  /\ MaxVersion \in Nat \ {0} /\ IsFiniteSet(Path)
  /\ Absent # Empty /\ Absent \notin 1 .. MaxVersion

VARIABLES
  local,        \* content of each path in the local bucket
  mirror,       \* content of each path in the mirror bucket
  mirrorNewer,  \* UpdatedAt of the mirror's copy is the later one
  mirrorFile,   \* MirrorFile record: Backup and BackupInProgress
  backup,       \* Backup of the bucket's schema
  remote,       \* RemoteDbID of the schema is set: the mirror bucket exists
  taskQueue, filePinningQueue,  \* live tasks, in list order
  inline,       \* the task that each loop is executing itself
  goroutine,    \* progress of the BACKUP_ON task
  intent,       \* history: what the user last saved at, or removed from, a path
  saves,        \* history: saves of each path
  toggler       \* what kind of user this is: one who turns backup on and off

content == <<local, mirror, mirrorNewer, mirrorFile>>
schema == <<backup, remote>>
lists == <<taskQueue, filePinningQueue>>
user == <<intent, saves, toggler>>
vars == <<content, schema, lists, inline, goroutine, user>>

Version == 1 .. MaxVersion
FileTypes == {"ADD_ITEM", "REMOVE_ITEM", "RESTORE_FILE", "PIN_FILE", "UNPIN_FILE"}
BucketTypes ==
  {"CREATE_BUCKET", "TOGGLE_BACKUP_ON", "TOGGLE_BACKUP_OFF", "BUCKET_RESTORE"}
NoPath == "bucket"

Task(type, p) == [type |-> type, path |-> p]
BucketTask(type) == Task(type, NoPath)
TaskID == [type : FileTypes, path : Path] \cup [type : BucketTypes, path : {NoPath}]
Element == [task : TaskID, state : {"QUEUED", "PENDING"}]

Idle == [task |-> BucketTask("none"), at |-> "idle", val |-> Absent]
Steps == {"begin", "flagged", "spawned", "unset", "checked", "read", "pushed"}
Execution == [task : TaskID, at : Steps, val : Version \cup {Absent, Empty}]
Lists == {"taskQueue", "filePinningQueue"}

TypeOK ==
  /\ local \in [Path -> Version \cup {Absent, Empty}]
  /\ mirror \in [Path -> Version \cup {Absent, Empty}]
  /\ mirrorNewer \in [Path -> BOOLEAN]
  /\ mirrorFile \in [Path -> {"none", "inProgress", "backedUp", "unset"}]
  /\ backup \in BOOLEAN /\ remote \in BOOLEAN
  /\ taskQueue \in Seq(Element) /\ filePinningQueue \in Seq(Element)
  /\ inline \in [Lists -> Execution \cup {Idle}]
  /\ goroutine \in {"idle", "begin", "enumerate"}
  /\ intent \in [Path -> Version \cup {Absent}]
  /\ saves \in [Path -> 0 .. MaxVersion]
  /\ toggler \in BOOLEAN

-------------------------------------------------------------------------------
(* Lists of live tasks *)

New(t) == [task |-> t, state |-> "QUEUED"]
IsEnqueued(list, t) == \E i \in DOMAIN list : list[i].task = t

Enqueued(list, t) == IF IsEnqueued(list, t) THEN list ELSE Append(list, New(t))
EnqueuedAtFront(list, t) ==
  IF IsEnqueued(list, t) THEN list ELSE <<New(t)>> \o list

\* One enqueueTask for every path of P, which are visited in one fixed order.
EnqueuedAll(list, type, P) ==
  LET fresh == {p \in P : ~IsEnqueued(list, Task(type, p))}
      order == SetToSeq(fresh)
  IN list \o [i \in DOMAIN order |-> New(Task(type, order[i]))]

WithState(list, t, s) ==
  [i \in DOMAIN list |->
     IF list[i].task = t THEN [list[i] EXCEPT !.state = s] ELSE list[i]]

\* A list holds a task at most once.
Without(list, t) ==
  IF IsEnqueued(list, t)
  THEN RemoveAt(list, CHOOSE i \in DOMAIN list : list[i].task = t) ELSE list

-------------------------------------------------------------------------------
(* The loops: the first QUEUED task of the list that is not parallel begins; *)
(* its error puts it back and ends the pass, so the next begins at the front *)

InlineReady(list) ==
  {i \in DOMAIN list :
     list[i].state = "QUEUED" /\ list[i].task.type # "TOGGLE_BACKUP_ON"}

BeginInline(q, list) ==
  /\ inline[q] = Idle
  /\ \E i \in InlineReady(list) :
       /\ \A j \in InlineReady(list) : i <= j
       /\ inline' = [inline EXCEPT ![q] =
            [task |-> list[i].task, at |-> "begin", val |-> Absent]]

BeginTask ==
  /\ BeginInline("taskQueue", taskQueue)
  /\ taskQueue' = WithState(taskQueue, inline'["taskQueue"].task, "PENDING")
  /\ UNCHANGED <<content, schema, filePinningQueue, goroutine, user>>

BeginPinning ==
  /\ BeginInline("filePinningQueue", filePinningQueue)
  /\ filePinningQueue' =
       WithState(filePinningQueue, inline'["filePinningQueue"].task, "PENDING")
  /\ UNCHANGED <<content, schema, taskQueue, goroutine, user>>

\* The pass reaches the BACKUP_ON task after those in front of it.
BeginBackupOn ==
  /\ \E i \in DOMAIN taskQueue :
       /\ taskQueue[i] = New(BucketTask("TOGGLE_BACKUP_ON"))
       /\ \A j \in 1 .. i - 1 : taskQueue[j].state # "QUEUED"
       /\ inline["taskQueue"] # Idle =>
            \A j \in 1 .. i - 1 : taskQueue[j].task # inline["taskQueue"].task
  /\ goroutine' = "begin"
  /\ taskQueue' = WithState(taskQueue, BucketTask("TOGGLE_BACKUP_ON"), "PENDING")
  /\ UNCHANGED <<content, schema, filePinningQueue, inline, user>>

Is(q, type, at) == inline[q].task.type = type /\ inline[q].at = at
At(q, at) == inline' = [inline EXCEPT ![q].at = at]
P(q) == inline[q].task.path
TQ == "taskQueue"
PQ == "filePinningQueue"

\* The task ends well; list is its queue with what it has enqueued last.
DoneTask(list) ==
  /\ taskQueue' = Without(list, inline[TQ].task)
  /\ inline' = [inline EXCEPT ![TQ] = Idle]
RetryTask ==
  /\ taskQueue' = WithState(taskQueue, inline[TQ].task, "QUEUED")
  /\ inline' = [inline EXCEPT ![TQ] = Idle]
DonePinning ==
  /\ filePinningQueue' = Without(filePinningQueue, inline[PQ].task)
  /\ inline' = [inline EXCEPT ![PQ] = Idle]

RetryPinning ==
  /\ filePinningQueue' = WithState(filePinningQueue, inline[PQ].task, "QUEUED")
  /\ inline' = [inline EXCEPT ![PQ] = Idle]

\* Any step of an executor may return an error: the task is retried.
FailTask ==
  /\ inline[TQ] # Idle
  /\ RetryTask
  /\ UNCHANGED <<content, schema, filePinningQueue, goroutine, user>>

\* Mutant: a failed task is not retried.
MutantFailPinning ==
  /\ inline[PQ] # Idle
  /\ DonePinning
  /\ UNCHANGED <<content, schema, taskQueue, goroutine, user>>

FailPinning ==
  /\ inline[PQ] # Idle
  /\ RetryPinning
  /\ UNCHANGED <<content, schema, taskQueue, goroutine, user>>

FailBackupOn ==
  /\ goroutine # "idle"
  /\ goroutine' = "idle"
  /\ taskQueue' = WithState(taskQueue, BucketTask("TOGGLE_BACKUP_ON"), "QUEUED")
  /\ UNCHANGED <<content, schema, filePinningQueue, inline, user>>

-------------------------------------------------------------------------------
(* processAddItem: the file is pinned whether or not backup is on; an error of *)
(* the look-up of its record is taken for a record that does not exist         *)

\* Mutant: the record is written as if the upload had been done.
MutantAddFlag ==
  /\ Is(TQ, "ADD_ITEM", "begin") /\ At(TQ, "flagged")
  /\ mirrorFile' = [mirrorFile EXCEPT ![P(TQ)] = "backedUp"]
  /\ UNCHANGED <<local, mirror, mirrorNewer, schema, lists, goroutine, user>>

AddFlag ==
  /\ Is(TQ, "ADD_ITEM", "begin") /\ At(TQ, "flagged")
  /\ \E found \in {FALSE, mirrorFile[P(TQ)] # "none"} :
       mirrorFile' = IF backup /\ ~found
                     THEN [mirrorFile EXCEPT ![P(TQ)] = "inProgress"] ELSE mirrorFile
  /\ UNCHANGED <<local, mirror, mirrorNewer, schema, lists, goroutine, user>>

\* Mutant: the task is given the bucket for its path.
MutantAddPin ==
  /\ Is(TQ, "ADD_ITEM", "flagged")
  /\ filePinningQueue' = Enqueued(filePinningQueue, Task("PIN_FILE", NoPath))
  /\ DoneTask(taskQueue)
  /\ UNCHANGED <<content, schema, goroutine, user>>

AddPin ==
  /\ Is(TQ, "ADD_ITEM", "flagged")
  /\ filePinningQueue' = Enqueued(filePinningQueue, Task("PIN_FILE", P(TQ)))
  /\ DoneTask(taskQueue)
  /\ UNCHANGED <<content, schema, goroutine, user>>

(* processRemoveItem *)

RemoveSpawn ==
  /\ Is(TQ, "REMOVE_ITEM", "begin") /\ At(TQ, "spawned")
  /\ filePinningQueue' = Enqueued(filePinningQueue, Task("UNPIN_FILE", P(TQ)))
  /\ UNCHANGED <<content, schema, taskQueue, goroutine, user>>

RemoveUnset ==
  /\ Is(TQ, "REMOVE_ITEM", "spawned") /\ At(TQ, "unset")
  /\ mirrorFile' = IF mirrorFile[P(TQ)] = "none" THEN mirrorFile
                   ELSE [mirrorFile EXCEPT ![P(TQ)] = "unset"]
  /\ UNCHANGED <<local, mirror, mirrorNewer, schema, lists, goroutine, user>>

deleteFileFromRemote(p) ==
  /\ remote
  /\ mirror' = [mirror EXCEPT ![p] = Absent]
  /\ UNCHANGED <<local, mirrorNewer, mirrorFile>>

RemoveDelete ==
  /\ Is(TQ, "REMOVE_ITEM", "unset")
  /\ deleteFileFromRemote(P(TQ))
  /\ DoneTask(taskQueue)
  /\ UNCHANGED <<schema, filePinningQueue, goroutine, user>>

(* processUnpinFile *)

Unpin ==
  /\ Is(PQ, "UNPIN_FILE", "begin")
  /\ deleteFileFromRemote(P(PQ))
  /\ DonePinning
  /\ UNCHANGED <<schema, taskQueue, goroutine, user>>

(* processPinFile: the upload streams the local file; if GetFile fails the    *)
(* pipe just ends, and the mirror gets an empty file before the error is seen *)

PinRead ==
  /\ Is(PQ, "PIN_FILE", "begin") /\ remote /\ local[P(PQ)] # Absent
  /\ inline' = [inline EXCEPT ![PQ].at = "read", ![PQ].val = local[P(PQ)]]
  /\ UNCHANGED <<content, schema, lists, goroutine, user>>

PushToMirror(p, c) ==
  /\ mirror' = [mirror EXCEPT ![p] = c]
  /\ mirrorNewer' = [mirrorNewer EXCEPT ![p] = TRUE]
  /\ UNCHANGED <<local, mirrorFile, schema, taskQueue, goroutine, user>>

PinPush ==
  /\ Is(PQ, "PIN_FILE", "read")
  /\ PushToMirror(P(PQ), inline[PQ].val)
  /\ At(PQ, "pushed")
  /\ UNCHANGED filePinningQueue

PinUnreadable ==
  /\ Is(PQ, "PIN_FILE", "begin") /\ remote
  /\ PushToMirror(P(PQ), Empty)
  /\ RetryPinning

\* The error of setMirrorFileBackup is not looked at.
PinFlag ==
  /\ Is(PQ, "PIN_FILE", "pushed")
  /\ mirrorFile' \in {mirrorFile, [mirrorFile EXCEPT ![P(PQ)] = "backedUp"]}
  /\ DonePinning \/ RetryPinning
  /\ UNCHANGED <<local, mirror, mirrorNewer, schema, taskQueue, goroutine, user>>

(* processCreateBucket: an error of createMirrorBucket is swallowed, one of   *)
(* CreateMirrorBucket or addBucketListener is not                             *)

CreateMirror ==
  /\ Is(TQ, "CREATE_BUCKET", "begin")
  /\ remote' \in {remote, TRUE}
  /\ DoneTask(taskQueue) \/ RetryTask
  /\ UNCHANGED <<content, backup, filePinningQueue, goroutine, user>>

(* processBucketBackupOff and processBucketBackupOn: the flag is looked at  *)
(* first, then the thread is (de)replicated and every local file enqueued   *)

LocalFiles == {p \in Path : local[p] # Absent}

OffCheck ==
  /\ Is(TQ, "TOGGLE_BACKUP_OFF", "begin")
  /\ IF backup THEN DoneTask(taskQueue)
               ELSE At(TQ, "checked") /\ UNCHANGED taskQueue
  /\ UNCHANGED <<content, schema, filePinningQueue, goroutine, user>>

\* Mutant: only files that are recorded as backed up are removed.
MutantOffEnumerate ==
  /\ Is(TQ, "TOGGLE_BACKUP_OFF", "checked")
  /\ DoneTask(EnqueuedAll(taskQueue, "REMOVE_ITEM",
                {p \in LocalFiles : mirrorFile[p] = "backedUp"}))
  /\ UNCHANGED <<content, schema, filePinningQueue, goroutine, user>>

OffEnumerate ==
  /\ Is(TQ, "TOGGLE_BACKUP_OFF", "checked")
  /\ DoneTask(EnqueuedAll(taskQueue, "REMOVE_ITEM", LocalFiles))
  /\ UNCHANGED <<content, schema, filePinningQueue, goroutine, user>>

OnDone(list) ==
  /\ goroutine' = "idle"
  /\ taskQueue' = Without(list, BucketTask("TOGGLE_BACKUP_ON"))

OnCheck ==
  /\ goroutine = "begin"
  /\ IF backup THEN goroutine' = "enumerate" /\ UNCHANGED taskQueue
               ELSE OnDone(taskQueue)
  /\ UNCHANGED <<content, schema, filePinningQueue, inline, user>>

\* Mutant: the work of the other toggle.
MutantOnEnumerate ==
  /\ goroutine = "enumerate"
  /\ OnDone(EnqueuedAll(taskQueue, "REMOVE_ITEM", LocalFiles))
  /\ UNCHANGED <<content, schema, filePinningQueue, inline, user>>

OnEnumerate ==
  /\ goroutine = "enumerate"
  /\ OnDone(EnqueuedAll(taskQueue, "ADD_ITEM", LocalFiles))
  /\ UNCHANGED <<content, schema, filePinningQueue, inline, user>>

(* processBucketRestoreTask *)

IsNewerOnMirror(p) == local[p] = Absent \/ mirrorNewer[p]

\* Mutant: CREATE_BUCKET goes behind the task that waits for it.
MutantRestoreWithoutMirror ==
  /\ Is(TQ, "BUCKET_RESTORE", "begin") /\ ~remote
  /\ taskQueue' = WithState(Enqueued(taskQueue, BucketTask("CREATE_BUCKET")),
                            inline[TQ].task, "QUEUED")
  /\ inline' = [inline EXCEPT ![TQ] = Idle]
  /\ UNCHANGED <<content, schema, filePinningQueue, goroutine, user>>

RestoreWithoutMirror ==
  /\ Is(TQ, "BUCKET_RESTORE", "begin") /\ ~remote
  /\ taskQueue' = WithState(EnqueuedAtFront(taskQueue, BucketTask("CREATE_BUCKET")),
                            inline[TQ].task, "QUEUED")
  /\ inline' = [inline EXCEPT ![TQ] = Idle]
  /\ UNCHANGED <<content, schema, filePinningQueue, goroutine, user>>

\* An error of FileExists is taken for a path that does not exist.
restoreBucket ==
  /\ Is(TQ, "BUCKET_RESTORE", "begin") /\ remote
  /\ \E failed \in SUBSET Path :
       DoneTask(EnqueuedAll(taskQueue, "RESTORE_FILE",
         {p \in Path : mirror[p] # Absent /\ (p \in failed \/ IsNewerOnMirror(p))}))
  /\ UNCHANGED <<content, schema, filePinningQueue, goroutine, user>>

(* processRestoreFile: a path that the mirror no longer has is an error; an  *)
(* error of the local UpdatedAt is taken for a path that does not exist      *)

RestoreCheck ==
  /\ Is(TQ, "RESTORE_FILE", "begin") /\ mirror[P(TQ)] # Absent
  /\ \E newer \in {IsNewerOnMirror(P(TQ)), TRUE} :
       IF newer
       THEN /\ inline' = [inline EXCEPT ![TQ].at = "read", ![TQ].val = mirror[P(TQ)]]
            /\ UNCHANGED taskQueue
       ELSE DoneTask(taskQueue)
  /\ UNCHANGED <<content, schema, filePinningQueue, goroutine, user>>

RestorePush ==
  /\ Is(TQ, "RESTORE_FILE", "read")
  /\ local' = [local EXCEPT ![P(TQ)] = inline[TQ].val]
  /\ mirrorNewer' = [mirrorNewer EXCEPT ![P(TQ)] = FALSE]
  /\ At(TQ, "pushed")
  /\ UNCHANGED <<mirror, mirrorFile, schema, lists, goroutine, user>>

\* The download streams in the same way as the upload.
RestoreUnreadable ==
  /\ Is(TQ, "RESTORE_FILE", "begin") /\ mirror[P(TQ)] # Absent
  /\ local' = [local EXCEPT ![P(TQ)] = Empty]
  /\ mirrorNewer' = [mirrorNewer EXCEPT ![P(TQ)] = FALSE]
  /\ RetryTask
  /\ UNCHANGED <<mirror, mirrorFile, schema, filePinningQueue, goroutine, user>>

RestoreDone ==
  /\ Is(TQ, "RESTORE_FILE", "pushed")
  /\ DoneTask(taskQueue)
  /\ UNCHANGED <<content, schema, filePinningQueue, goroutine, user>>

-------------------------------------------------------------------------------
(* The user and the other callers of Notify* *)

\* Bucket.UploadFile, then OnUploadFile of the notifier.
UploadFile(p) ==
  /\ saves[p] < MaxVersion
  /\ saves' = [saves EXCEPT ![p] = @ + 1]
  /\ intent' = [intent EXCEPT ![p] = saves[p] + 1]
  /\ local' = [local EXCEPT ![p] = saves[p] + 1]
  /\ mirrorNewer' = [mirrorNewer EXCEPT ![p] = FALSE]
  /\ taskQueue' = Enqueued(taskQueue, Task("ADD_ITEM", p))
  /\ UNCHANGED <<mirror, mirrorFile, schema, filePinningQueue, inline, goroutine,
                 toggler>>

\* RemoveDirOrFile: Bucket.DeleteDirOrFile notifies nobody.
RemoveDirOrFile(p) ==
  /\ local[p] # Absent
  /\ local' = [local EXCEPT ![p] = Absent]
  /\ intent' = [intent EXCEPT ![p] = Absent]
  /\ UNCHANGED <<mirror, mirrorNewer, mirrorFile, schema, lists, inline,
                 goroutine, saves, toggler>>

ToggleBucketBackup ==
  /\ backup' = ~backup
  /\ taskQueue' = Enqueued(taskQueue, BucketTask(
       IF backup' THEN "TOGGLE_BACKUP_ON" ELSE "TOGGLE_BACKUP_OFF"))
  /\ UNCHANGED <<content, remote, filePinningQueue, inline, goroutine, user>>

\* BucketBackupRestore and every event of the bucket's thread listener.
NotifyBucketRestore ==
  /\ ~IsEnqueued(taskQueue, BucketTask("BUCKET_RESTORE"))
  /\ taskQueue' = Enqueued(taskQueue, BucketTask("BUCKET_RESTORE"))
  /\ UNCHANGED <<content, schema, filePinningQueue, inline, goroutine, user>>

-------------------------------------------------------------------------------
\* A bucket that createBucket has just created.
CreatedBucket ==
  /\ local = [p \in Path |-> Absent] /\ mirror = local
  /\ remote = FALSE
  /\ mirrorFile = [p \in Path |-> "none"]
  /\ taskQueue = <<New(BucketTask("CREATE_BUCKET")), New(BucketTask("BUCKET_RESTORE"))>>

\* A bucket found by initialize: each file backed up earlier, and on this
\* device or, after a restore of the keys, only on the hub.
StartedBucket ==
  /\ local \in [Path -> {Absent, 1}] /\ mirror = [p \in Path |-> 1]
  /\ remote = TRUE
  /\ mirrorFile = [p \in Path |-> "backedUp"]
  /\ taskQueue = <<New(BucketTask("BUCKET_RESTORE")), New(BucketTask("TOGGLE_BACKUP_ON"))>>

Init ==
  /\ CreatedBucket \/ StartedBucket
  /\ mirrorNewer = [p \in Path |-> TRUE]
  /\ backup = TRUE
  /\ filePinningQueue = <<>>
  /\ inline = [q \in Lists |-> Idle]
  /\ goroutine = "idle"
  /\ intent = mirror
  /\ saves = [p \in Path |-> IF mirror[p] = Absent THEN 0 ELSE 1]
  /\ toggler \in BOOLEAN

Execute ==
  \/ AddFlag \/ AddPin \/ RemoveSpawn \/ RemoveUnset \/ RemoveDelete
  \/ Unpin \/ PinRead \/ PinPush \/ PinUnreadable \/ PinFlag \/ CreateMirror
  \/ OffCheck \/ OffEnumerate \/ OnCheck \/ OnEnumerate
  \/ RestoreWithoutMirror \/ restoreBucket
  \/ RestoreCheck \/ RestorePush \/ RestoreUnreadable \/ RestoreDone

Loops ==
  \/ BeginTask \/ BeginPinning \/ BeginBackupOn
  \/ FailTask \/ FailPinning \/ FailBackupOn \/ Execute

Next ==
  \/ Loops \/ NotifyBucketRestore \/ ToggleBucketBackup
  \/ \E p \in Path : UploadFile(p) \/ RemoveDirOrFile(p)

Spec == Init /\ [][Next]_vars

-------------------------------------------------------------------------------
Drained == taskQueue = <<>> /\ filePinningQueue = <<>>

\* Two kinds of users.  One leaves backup on, and saves, removes and restores
\* files; the other lets the lists drain before turning backup on or off again,
\* and saves nothing while it is off.
EditNext ==
  /\ ~toggler
  /\ NotifyBucketRestore \/ \E p \in Path : UploadFile(p) \/ RemoveDirOrFile(p)

PatientNext ==
  /\ toggler
  /\ \/ NotifyBucketRestore
     \/ Drained /\ ToggleBucketBackup
     \/ backup /\ \E p \in Path : UploadFile(p)

UserNext == Loops \/ EditNext \/ PatientNext
UserSpec == Init /\ [][UserNext]_vars

\* With backup on, a settled bucket has no local file that is not on the hub,
\* whatever failed, was retried or was dropped as a duplicate (queue.go:16-28,
\* task-executors.go:63-65 and 97-130).
SettledFilesAreOnHub ==
  Drained /\ ~toggler => \A p \in Path : local[p] # Absent => mirror[p] # Absent

\* With backup left on, a file shown as backed up has a copy on the hub: the
\* record is written after the upload and before the task leaves its list
\* (task-executors.go:105-109).
BackedUpIsOnHub ==
  ~toggler => \A p \in Path : mirrorFile[p] = "backedUp" => mirror[p] # Absent

\* While backup is on no task takes a file's copy off the hub, so that what was
\* once uploaded can be restored on another device.
HubKeepsFiles ==
  [][~toggler => \A p \in Path : mirror[p] # Absent => mirror'[p] # Absent]_vars

\* Once the work of a toggle is done the hub has a copy of each local file if
\* backup is on and none if it is off: the tasks of the two lists that pin,
\* unpin and delete one file cannot end in the wrong order (171-227).
SettledBackupIsObeyed ==
  Drained /\ toggler => \A p \in Path : local[p] # Absent => (backup <=> mirror[p] # Absent)

\* The tasks and lists implement a backup that can be described without them: a
\* step that is retried, dropped as a duplicate or done twice is a step of it, or
\* none, and when both lists are empty its promise is kept.
Service == INSTANCE BackupService WITH
  File <- Path,
  here <- LocalFiles,
  hub <- {p \in Path : mirror[p] # Absent},
  on <- backup,
  coming <- {p \in Path : Is(TQ, "RESTORE_FILE", "read") /\ p = P(TQ)},
  settled <- Drained
ServiceSpec == Service!Spec

\* Liveness: the loops and executors go on, and what is retried on the hub
\* succeeds some time.
Fairness ==
  /\ WF_vars(BeginTask) /\ WF_vars(BeginPinning) /\ WF_vars(BeginBackupOn)
  /\ WF_vars(Execute)
  /\ SF_vars(AddFlag) /\ SF_vars(AddPin) /\ SF_vars(restoreBucket)
  /\ SF_vars(RestoreWithoutMirror) /\ SF_vars(CreateMirror /\ remote' /\ DoneTask(taskQueue))
  /\ SF_vars(RestoreCheck) /\ SF_vars(OnCheck)
  /\ SF_vars(RestorePush) /\ SF_vars(RestoreDone) /\ SF_vars(OnEnumerate)
  /\ SF_vars(PinRead) /\ SF_vars(PinPush) /\ SF_vars(PinFlag /\ DonePinning)
SaveNext == Loops \/ NotifyBucketRestore \/ \E p \in Path : UploadFile(p)
SaveInit == Init /\ ~toggler
SaveSpec == SaveInit /\ [][SaveNext]_vars
SaveFairSpec == SaveSpec /\ Fairness

\* A saved file gets to the hub although every step of the way can fail, the
\* mirror bucket may not exist yet and failing tasks block their list.
SavedGetsToHub ==
  \A p \in Path : local[p] # Absent ~> mirror[p] # Absent

-------------------------------------------------------------------------------
(* What comments of the code say and the code does not do *)

\* synchronizer.go:108, NotifyItemAdded: "Notify Textile synchronizer that an
\* add item operation needs to be synced": of a file with contents on both sides
\* the hub has the last save.
LatestSaveIsOnHub ==
  Drained => \A p \in Path :
    local[p] \in Version /\ mirror[p] \in Version => mirror[p] = local[p]

\* restore.go:58: "do not overwrite: mirror is not newer".
RestoreKeepsNewer ==
  \A p \in Path : intent[p] # Absent /\ local[p] \in Version => local[p] = intent[p]

\* restore.go:33: "restore bucket by downloading files to the local from the
\* mirror bucket".
RestoreDownloads == Drained => \A p \in Path : local[p] # Empty

\* services_fs.go:702, RemoveDirOrFile: "Removes a file or directory from a
\* bucket".
RemovedStaysRemoved ==
  \A p \in Path : intent[p] = Absent => local[p] = Absent

===============================================================================
