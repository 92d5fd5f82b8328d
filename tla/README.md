# Space daemon: a verification development

TLA+ modules that model parts of the Space daemon as its Go source has them, TLC
configurations that check them on small instances, and TLAPS proofs of theorems
about them. Line numbers refer to the commit the modules were translated from;
paths are relative to the repository.

    tlc -config SyncProgress.cfg MCSynchronizer.tla     # a model-checking run
    tlapm SynchronizerProofs.tla                        # the proofs of a module

`PROJECT.json` maps each definition to its lines and lists runs, mutants (a
changed definition for each property, which must break it), hazards and theorems.

## 1. The system

The daemon keeps a user's files in *buckets* (Textile buckets over a local IPFS
node and threads database), and backs each of them up in a *mirror bucket* on a
remote hub. A gRPC server, a FUSE drive and a folder watcher are its clients.

| component | code | state | operations and interactions | what is hard | what makes it correct |
|---|---|---|---|---|---|
| Task queue | `core/textile/sync/{synchronizer,queue,task}.go` | two lists of tasks, a hash map by task ID, `syncNeeded` and shutdown channels, the queue saved in the store | `Notify*` from any goroutine; one loop per list runs passes; executors enqueue more tasks; `Shutdown` saves, `RestoreQueue` reads back | unlocked lists and map, goroutines that outlive their pass, retries, crash and restart | no accepted task is lost, none runs twice at once, order, retry budget, termination |
| Task executors, mirror | `sync/{task-executors,pinning,restore,mirror}.go` | local and mirror bucket, MirrorFile records, the bucket schema | run by the loops; talk to the hub | every call may fail; backup flag changes meanwhile; two lists work on one file | hub and local copy agree once the lists are empty; records do not promise what is not there |
| Secure bucket client | `secure_bucket_client.go`, `bucket/crypto` | temp files, channels, the file cache in the store | encrypts and decrypts; races three sources for each download | five kinds of goroutines over unbuffered channels and a mutex | the caller gets the whole right file or an error, and gets it |
| Client lifecycle | `core/textile/client.go`, `account.go` | running, initialized, sync-initialized, connected, force-restore flags; channels | health check every 3 or 60 s creates synchronizer, initializes, connects; `RemoveKeys`, `RestoreDB`, `DisableSync`, `Shutdown` from other goroutines | flags without locks, one-shot signals, a second synchronizer after `DisableSync` | one running synchronizer; waiting callers are woken |
| Bucket factory and model | `bucket_factory.go`, `model/` | bucket schemas and records in the metathread | create, toggle, join, restore | read-modify-write of whole records | no lost update; a bucket found is usable |
| Listeners | `listener.go`, `event_handler.go` | map of thread listeners | one goroutine per bucket; each event is a `NotifyBucketRestore` | concurrent additions, `Close` | one listener per thread, all closed |
| Hub auth, keychain, vault | `hub/`, `core/keychain`, `core/vault`, `services_{keypair,vault}.go` | private key and mnemonic in the key ring, public key and token in the store, private key in memory | generate, import, delete, back up, recover; token by a challenge | writes in several steps without a lock, beside the health check; a token that outlives its key | what is restored is what the client is initialized for; the client gets healthy again |
| Mailbox and sharing | `mailbox.go`, `sharing.go`, `services_sharing.go`, `model/{sent,received}_file.go` | records of the owner and of the invitee, roles on the hub, messages | share, unshare, accept, reject | nothing is a transaction; two handlers decide at once | who can read a file is listed; an acceptance without an error is complete; one decision |
| Adding items | `services_fs.go:434-700`, `grpc/handlers.go:196-260` | a goroutine per path that counts, a producer, the handler, the notifier; four channels | counts a tree, uploads it path by path, streams a result for each | the client goes away, an upload fails, the tree changes | nothing missing without an error, progress fits totals, no goroutine is left |
| Search index | `core/search`, `model/search.go` | embedded index | add, delete, query | - | follows the files |
| Open files, watcher | `core/sync`, `core/watcher`, `services_fs.go` | temp files, records of them in the store (two keys each), what the watcher last saw | open copies out and records, watcher events push back, start adds the recorded copies | failures between the steps, edits during an upload, restarts | nothing half copied gets out; a visible edit is pushed or reported |
| FUSE drive | `core/space/fuse`, `core/libfuse`, `core/fsds` | mount state, also in the store | mount, unmount, shutdown | two sources of truth | stored and real state agree |
| Application | `app/app.go`, `cmd/` | list of started components | start, run, shut down in reverse | an error half way | what was started is stopped |
| Store, events, gRPC, IPFS node, config | `core/store`, `grpc`, `core/ipfs`, ... | - | translation and I/O | - | - |

Interactions that matter: gRPC handlers, listeners, the loops themselves and the
client's `initialize` all call `Notify*`; `Bucket.UploadFile` calls the notifier,
which calls `NotifyItemAdded`; the executors call the buckets, whose downloads go
through the secure bucket client; a download that never returns therefore stops a
synchronizer loop.

## 2. Modules

| module | models | lines of code |
|---|---|---|
| `Synchronizer` | the task queue | `synchronizer.go`, `queue.go`, `task.go`, `client.go:160-192` |
| `TaskPool` | what the queue promises, abstractly; `Synchronizer` is checked and proved to implement it (`PoolSpec`) | - |
| `MirrorSync` | what the executors do to one bucket and its mirror | `task-executors.go`, `pinning.go`, `restore.go`, parts of `mirror.go`, `model/` |
| `BackupService` | what the backup of a bucket promises, abstractly; `MirrorSync` is checked and proved to implement it (`ServiceSpec`) | - |
| `PullFile` | one `GetFile`: `PullPath`, the race, the pipe, the decrypter | `secure_bucket_client.go:125-163, 295-456`, `decrypter.go` |
| `FileCache` | the cache by CID, concurrent `GetFile` calls and pushes | `secure_bucket_client.go:406-556` |
| `Keychain` | the places a key and the hub tokens are kept in, and the steps that write them | `keychain.go`, `hub_auth.go` |
| `Account` | the client's health check over `Keychain`, and the calls that create, restore, back up and remove the key | `client.go`, `account.go`, `services_keypair.go`, `services_vault.go`, `vault.go` |
| `Buckets` | records, threads and buckets of an account: find, create, restore, join, toggle | `bucket_factory.go`, `model/buckets.go`, `utils.go`, `client.go:389-445, 624-637` |
| `Sharing` | one owner and one invitee: roles, records, messages, decisions | `services_sharing.go`, `sharing.go`, `mailbox.go`, `received_file.go`, `sent_file.go` |
| `OpenFiles` | a file opened with a program, the watcher, restarts | `services_fs.go:299-392`, `sync/sync.go`, `sync/fs.go`, `watcher.go` |
| `AddItems` | one call of that name: counting, uploading, streaming | `services_fs.go:421-700`, `fs_utils.go`, `handlers.go:196-259` |
| `MCSynchronizer`, `MCBuckets`, `MCSharing`, `MCAddItems` | instances for TLC; the others need none | - |
| `SynchronizerProofs`, `MirrorProofs`, `GetFileProofs` (about `PullFile` and `FileCache`), `AccountProofs`, `BucketsProofs`, `SharingProofs`, `OpenFilesProofs`, `AddItemsProofs` | theorems | - |

### Synchronizer

`heap` holds the Task of each address, `queue` the two lists of addresses,
`queueHashMap` an address per ID: two list elements may be one object, which is
what `RestoreQueue` produces. `pc` is the place of each loop: `select`, in a pass
(`visit`, `inline` while it executes a task itself, `join`, `sweep`), `shutdown`
(it called `Shutdown` on itself) or `exited`. `curr` is the position of the element
of the pass; a push to the front moves it. `phase` and `todo` are the progress of
`executeTask` on an object, whichever goroutine runs it. `notifying` is a caller
between `isTaskEnqueued` and `PushBack`. `store` survives `Restart` and `Crash`.

An executor is abstracted to what the queue sees of it: it enqueues `Spawns[id]` one
by one, may at any time fail, and one with `FrontSpawns` may push a task at the
front and fail. `MirrorSync` has the executors themselves.

Data races: `parallelTaskCount++` and `--` may overwrite each other
(`VisitParallel`, `ReturnParallel`). A torn operation on a `list.List`, and Go's
fatal error for concurrent map writes (a crash, which may come at any time anyway),
are not modelled. A send on a closed `syncNeeded` is a crash as well.

Left out: mutexes (only `RestoreQueue`, before `Start`, contends), logging,
`dequeueTask` (never called), `Retries` of tasks without `MaxRetries` (never read).

### MirrorSync

`local` and `mirror` hold the content of each path, which is the number of the save
it came from (`Empty`: what is pushed when a read fails and its pipe just ends).
`mirrorNewer` is the outcome of comparing the two `UpdatedAt`, which are times of
pushes. `mirrorFile`, `backup` and `remote` are the record and the schema's flags.
`inline` is the task each loop executes, with the step it has reached and the
content it has read; `goroutine` is the parallel TOGGLE_BACKUP_ON. `toggler` is
chosen at the start: one user leaves backup on and saves, removes and restores
files, the other toggles backup when the lists have drained (`UserSpec`). The lists hold
the live tasks only: a finished task is invisible to `isTaskEnqueued`. The moment in
which a failing task is FAILED belongs to `Synchronizer`.
`intent` and `saves` are history variables of what the user did.

A call to a bucket, and a read of the model followed by one write, are one step;
every step of an executor may fail (`FailTask`, `FailPinning`, `FailBackupOn`), and
the errors that the code ignores are alternatives of the action (`AddFlag`,
`PinFlag`, `restoreBucket`, `RestoreCheck`). The bucket's lock excludes nothing
between tasks: each `getBucket` makes a new instance with a lock of its own
(`bucket/bucket.go:92`).

### PullFile and FileCache

In `PullFile` each goroutine has a state variable; a send and its receive on an
unbuffered channel are one action, and a blocked sender is just a state. The mutex
needs no variable: it is held by a puller in `offer` or `report`. `Crashed` is the
condition under which Go panics for a send on a closed channel; nothing happens
after it. `Fault` names the calls that may fail besides the pullers.

In `FileCache` the race is the choice of the source; what matters is the order of
the pull, the look-up of the CID and the write to the cache.

### Keychain and Account

`ring`, `pub` and `privKey` are the three places a key is kept in, each written in a
step of its own (`StoreRing`, `StorePub`, `CacheKey`); `token` tells whether the store
holds hub tokens that have not expired, whosever they are. `KeychainInit` allows what
a crash between two of these steps leaves, so that crashes need no action.

`loop` is the place of the health-check loop and `call[c]` that of each handler. The
flags are variables of their own since no lock guards them; `healthcheckMutex` is
held by a health check or by RestoreDB. A send on `onHealthy` does not block: it
reaches `waiter` or nobody (`EndHealthcheck`). `keypairDeleted` and `shuttingDown`
are handed over when the loop is in its `select`. `initialize` is one call that
reads the key when it begins (`Buckets` has what it does); a synchronizer is a number
(`Synchronizer` shows that stopping one returns). `down = "panic"` is a send on a
channel that Shutdown has closed, after which nothing happens.

### Buckets

`meta` is the collection of bucket records in the metathread, `stored` whether the
store knows that thread, `threads` and `roots` which bucket threads are here and which
hold a bucket. `hubMeta` and `hubThreads` are what had been replicated when the device
was lost (`LoseDevice`), which `RestoreDB` finds again. `proc[p]` is the operation of a
goroutine: its place between two calls, the record it has read (`rec`), the thread it
has made (`db`) and the buckets it has still to see to (`todo`). Places with a 2 belong
to the second `getOrCreateBucketContext` of `createBucket`. Every call may fail
(`Fails`), and an error of `FindBucket` counts as not found (`FindNoBucket`).

### Sharing

`job[s]` is the progress of a handler of the owner: the records (`sent`), the roles
(`roles`), the message (`inbox`), path after path. `call[c]` is that of the invitee, who
stores the files of an invitation in `received` one by one and keeps an error. A
revocation is looked at whenever messages are fetched (`DeleteReceivedFiles`).

### OpenFiles

A content is a number, the larger the later it was written. `record` and `reverse` are
the two store entries of a copy, `watched` what the watcher last saw of it, `handler`
the one event that is being handled, `todo` the entries that `Start` has still to
add. The daemon serves gRPC before it watches (`serving`, `up`), which is the order of
`app.go:186-198`. `settled` is a history variable: contents that were pushed or given
up with an error.

### AddItems

`counter[n]` is the goroutine `getTotals` starts for a path, `listing[f]` the paths one
call of it is for, `sum[f]` what its collecting goroutine has received and `summed` the
calls that have returned: a goroutine of a folder is the caller of the next `getTotals`.
`producer` is the goroutine that uploads; its `left` is the stack of recursive `addItems`
calls, flattened: the paths of a folder come before what follows the folder. The handler
(`stage`) takes a result, offers it to `notifier` or drops it when `ctxDone`. `stream` is
what was sent. The user may delete from the tree at any time, so that a path that was
counted is gone when it is to be uploaded. The upload itself is `UploadFile` of
`MirrorSync`, where its notification to the synchronizer is.

## 3. Runs

| run | instance | checks |
|---|---|---|
| `SyncProgress` | 3 IDs (BUCKET_RESTORE pushing CREATE_BUCKET in front, a parallel one with budget), 3 objects, fairness | `TypeOK`, `RunningTaskIsListed`, `ExclusiveInline`, `EveryTaskEnds`, `HeadOfLine` |
| `SyncRestart` | 2 IDs, 3 objects, shutdown, crash, restart | `DropsOnlyForListedTask`, `RetryBudget`, `ShutdownIsReceived`, `PoolSpec` |
| `MirrorEdit` | 1 path, 3 saves, both users | `TypeOK`, `SettledFilesAreOnHub`, `BackedUpIsOnHub`, `SettledBackupIsObeyed`, `ServiceSpec` |
| `MirrorProgress` | 1 path, 1 save, fairness | `SavedGetsToHub` |
| `PullFile` | 3 sources, all faults, fairness | `TypeOK`, `PullSuccessIsSafe`, `NilMeansDelivered`, `Returns` |
| `CacheQuiet` | 2 calls, 3 versions, no push while caching | `CacheTypeOK`, `CacheIsExact`, `ReadsAreCurrent` |
| `Account` | 2 keys, 1 handler, 2 synchronizers, unhealthy after 2 failures, fairness | `TypeOK`, `RestoredIsInitialized`, `GetsHealthy`, `HubWaiterIsAnswered` |
| `Buckets` | 2 buckets, 2 goroutines, 3 threads, a crash or a lost device | `TypeOK`, `RestoreBringsKeysBack`, `InitializedIsUsable`, `KeyIsConstant` |
| `Sharing` | 2 paths, 1 handler of the owner, 2 of the invitee, 2 messages | `TypeOK`, `SharedIsListed`, `AcceptedIsRecorded`, `OneDecision` |
| `OpenFiles` | 2 temp files, 1 handler, 3 contents, fairness | `TypeOK`, `HalfCopiesStayHome`, `EditIsPushed` |
| `AddItems` | 5 nodes: a folder with a file and a folder with a file, named twice, and a file beside it, or nothing; fairness | `TypeOK`, `StreamIsTruthful`, `AddItemsReturns` |
| `SyncRestore` | as `SyncRestart` | violated: `RestoresTheQueue` |

**Bounds.** `Obj` bounds the tasks that are on lists or in the hash map at one time;
an object that is neither is reused. Three suffice for a duplicate of each
kind, one task behind another, and a spawned task. With all objects in use an
enqueue is blocked until one is free; in the progress runs that happens only while
a loop can still free one. `MaxParallelTasks = 1` makes the limit bite.
`MaxSavedTasks` exists because aliased copies could be saved again and again;
2 allows the case that loses a task. `MaxVersion` bounds saves; a second save is
enough to be older or newer than another, a third for one more in flight. Paths
are independent in `MirrorSync` but for their place in the lists, so one path is
enough for the content properties; order among tasks is checked in `Synchronizer`.
`Addresses` and `Names` are symmetries, used only in runs without liveness.

Two keys make a key of the past and one of the present; the limit of failed health
checks is 2 instead of 3 to have one failure below and one at it. One handler runs
beside the health-check loop in `Account`, because `RestoredIsInitialized` does not hold
of two: a removal of the keys that was called before a restore, and is still at work when
the restore returns, clears what the restore has set (`client.go:568-573`). Nothing in the
code promises otherwise.
`Buckets` has the bucket every client needs with all its operations and one more
(`mcAsked` lists which operation is asked for which bucket); three threads are one for
each record and one that is made twice; one fault is a crash or a lost device. In
`Sharing` two paths are the least for an invitation that is half stored, and two
messages an invitation and its revocation, or two invitations for one file.
In `OpenFiles` the third content is an edit during the upload of another; a daemon
can stop and start any number of times.

In `AddItems` two levels of folders make one `getTotals` wait for another, and a folder
named twice is what `RemoveDuplicates` is for; an empty request gets no response at all;
every node may be deleted, and every upload fail, at any time.

**What the passing runs show.** A pass that ends with an error leaves goroutines
running, and a task to be retried is for a moment FAILED so that a duplicate is let
in: still no list drops a running task, two tasks that may not be parallel never
overlap, and list order is kept, also when BUCKET_RESTORE puts CREATE_BUCKET in
front of the pass. The retry budget holds across restarts. Shutdown finds both loops
there to take their messages and saves the lists when both are gone, so with fair loops
it returns. With backup on nothing a
task does takes a file off the hub; a settled local file has a copy there. A user
who lets the lists drain between toggles gets what the last toggle says, although
pinning and deletion of one file are on different lists. In `GetFile` the copied
temp file is complete whenever `nil` is returned, and `nil` means delivered.

A restore of a key that returns no error leaves the client initialized for that key,
whatever the health check was doing for the one before; a client that is left alone
gets healthy, and a waiter for it is told, whatever was left half done. No bucket ever
gets another encryption key, a forced restore that succeeds has every key the hub had,
and an initialized client has its default bucket in a thread it can open, unless an
error was taken for "not found" on the way (`misled`). Whoever can read a file is in
the owner's list, an acceptance without an error has recorded all files, and an
invitation that no two handlers had at once has one decision. No half copied file is
pushed or handed out, also after a restart, and an edit that the watcher can see is
pushed or reported as an error.

`AddItems` streams to a client that stays what happened, an error for whatever is
missing of a tree nobody touched, and numbers that add up to the totals counted
beforehand; it ends with all its goroutines also when the client goes away, because the
`break` leaves the `select` and not the loop. In a tree that changes meanwhile the
progress may differ from the totals: a folder deleted after its own result gets a second
one.

**Fairness.** `LoopsGoOn`: goroutines are scheduled, and a loop in its `select` is
woken at least by its 30 s timer (`synchronizer.go:223`). `HubRecovers`: a task that
is retried for ever succeeds some time, an assumption about the network (strong
fairness, as each attempt may fail). `StopsGoOn` (only of `CtxFairSpec`): strong fairness of a send to a
loop that is in its `select` again and again; Go's `select` chooses uniformly among
ready cases. Nothing is assumed of the callers. `MirrorSync!Fairness` is the same
per step of the path from a save to the hub: an executor goes on, and each step that
may fail succeeds some time; faults, saves and restores have none. `PullFile!FairSpec`:
goroutines go on and each puller returns; that a fault occurs is never assumed.
`Account!Fairness`: the loop goes on, because its timer of 3 or 60 s fires
(`client.go:284-299`) and a goroutine that waits for the mutex gets it; `initialize`,
the challenge and the connection, tried again by each check, succeed some time; a call
that has failed to restore goes on to release the mutex. `OpenFiles!FairSpec`: the
watcher looks at each file every 100 ms (strong, since it sends one event at a time)
and the handler of an event ends. `AddItems!Fairness`: each goroutine goes on, and a
look at the disk and an upload end.

## 4. Where code and comments disagree

The run `SyncRestore` shows one (see `findings` in `PROJECT.json`): `RestoreQueue`
enqueues the address of its loop variable, so that a saved queue of several tasks
comes back as copies of the last one (`queue.go:96-102`, go 1.14).

The modules state more that TLC refutes in the same way when they are named in a
configuration, as `INVARIANT`, or as `PROPERTY` when they are temporal (the
specification to use is given):

| property | module, specification | what happens |
|---|---|---|
| `SkippedIsInProcessOrFinished` | `Synchronizer`, `Spec` | a task saved while a goroutine executes it is restored PENDING and skipped for ever |
| `CancelBreaksTheLoops` | `Synchronizer`, `CtxFairSpec` | a loop whose context is done calls `Shutdown`, which waits for that loop |
| `LatestSaveIsOnHub` | `MirrorSync`, `Spec` | a save made while PIN_FILE or ADD_ITEM of the path is PENDING is dropped as a duplicate, and the hub keeps the older content |
| `RestoreKeepsNewer` | `MirrorSync`, `SaveSpec` | a save between the look at the timestamps and the download is overwritten |
| `RemovedStaysRemoved` | `MirrorSync`, `UserSpec` | a removed file comes back with the next restore |
| `RestoreDownloads` | `MirrorSync`, `SaveSpec` | a failed download leaves an empty file as the newest version |
| `GetFilePulls` | `PullFile`, `FairSpec` | a second source that delivers at nearly the same time sends under the mutex after the only receive; the deferred function waits for the mutex for ever |
| `ReturnsTheError` | `PullFile`, `Spec` | without room for temp files the error is sent on a closed channel |
| `MailboxIsThere` | `Account`, `Spec` | a removal of the keys that fails after the mailbox's directory is gone leaves the flag that it is there; no check connects any more |
| `PublicKeyIsInUse`, `BackupPairs` | `Account`, `Spec` | an error between the steps of `storeKeyPair` leaves keys of two pairs, and a backup of a private key with another mnemonic |
| `InitializedHasKey` | `Account`, `Spec` | the check that `RemoveKeys` wakes initializes the client again before the key is gone |
| `OneSynchronizer`, `NoSendOnClosed` | `Account`, `Spec` | a check between `DisableSync` and that Shutdown starts a second synchronizer; a repeated `DeleteAccount` sends on a closed channel |
| `AnyRestoreBringsKeysBack` | `Buckets`, `Spec` | a health check between the keys and `RestoreDB` makes an empty metathread |
| `InitializedHasDefault` | `Buckets`, `Spec` | an error of `FindBucket` is taken for "not found", and the bucket is made in a thread its record does not name |
| `RecordedIsMade` | `Buckets`, `Spec` | a lookup of a name nobody created leaves a record without a bucket, on which `listBuckets` fails |
| `MirrorIsKept` | `Buckets`, `Spec` | a toggle that read the record before saves it without its mirror |
| `RevokedIsFound` | `Sharing`, `Spec` | the query for revoked files compares the bucket's name with its key |
| `DecidedIsComplete` | `Sharing`, `Spec` | an acceptance that failed half-way counts as accepted and cannot be retried |
| `AcceptedIsNotPending`, `AcceptedIsShared` | `Sharing`, `Spec` | a second invitation for a file finds the record of the first |
| `ListedIsShared`, `InvitedHasRole` | `Sharing`, `Spec` | records outlive roles; a share and an unshare at once |
| `UpdatesArePushed`, `HandedOutIsWatched` | `OpenFiles`, `Spec` | an edit before the copy is watched, or while the daemon is down, is never seen; a copy whose `AddFile` failed is handed out unwatched |
| `ReverseHasRecord` | `OpenFiles`, `Spec` | `removeFileInfo` stops between its two keys |
| `NothingIsOverwritten`, `CleaningKeepsFile` | `OpenFiles`, `Spec` | each copy pushes over what another pushed; deleting a copy deletes the file |

and `ReadsAreCurrent` fails under `FileCache!Spec`: a push between the pull and the
look-up of the cache key stores the old file under the new CID. Its passing run is
restricted to the pushes that avoid this.

## 5. Proofs

Every safety property and every action property of the passing runs is proved. Each
section names what makes the property inductive.

### Synchronizer

`SynchronizerProofs` proves, for every set of IDs, objects and callers, every assignment
of lists, budgets and spawned tasks, and any bounds:

| theorem | property | argument |
|---|---|---|
| `TypeCorrect` | `TypeOK` | inductive by itself |
| `RunningTasksAreListed` | `RunningTaskIsListed` | part of `ListInv` |
| `DropsAreCovered` | `DropsOnlyForListedTask` | part of `ListInv` |
| `InlineTasksExclude` | `ExclusiveInline` | from `ExclusionInv` |
| `RetriesStayInBudget` | `RetryBudget` | from `BudgetInv` |
| `TasksKeepTheirOrder` | `HeadOfLine` | from `OrderInv`, in one lifetime of the process (`RunSpec`) |
| `ShutdownsAreReceived` | `ShutdownIsReceived` | `StopInv`: the place of each loop at each stage of the client's call |
| `ImplementsTaskPool` | `PoolSpec` | step by step, under `ListInv` |

`ListInv` joins the type invariant with the two properties about lists. They need
each other: a sweep removes only finished objects (lemma `SweepListed`, which rests
on `RemoveElementIsList`), and a running object is not finished; a new task is
placed on an address that no list and no map entry uses, so it disturbs neither. The
restore is the delicate case: `Pushed` keeps at least the first element of each ID,
so every entry of the new hash map is listed (`RestoreListed`).

`ExclusiveInline` is not inductive. `ExclusionInv` adds `HomeInv` (a running object is
on the list of its ID, and an object on a list belongs to it) and `InlineInv` (a
running object that may not be parallel is the current element of a loop that is at
`inline`): two such objects of one list are then one.

`RetryBudget` speaks of listed tasks; `BudgetInv` claims the same of every Task in
memory and in the store, since a saved task comes back with its `Retries`. It is
inductive together with `PhaseInv`: a body runs only on a PENDING task and a failed
execution has left FAILED, so an attempt is counted only when one was left.

`HeadOfLine` speaks of one step of a pass; `OrderInv` says of every pass that is to go on
(`GoesOn`: it is between two elements, or waits for one that may still succeed) that what
it has left behind and may not be parallel is done (`InOrder`). A pass steps over an
element that is not QUEUED; `BusyInv` (PENDING or FAILED means being executed) and
`ExclusionInv` make it a done one, since the pass would be waiting for one that is being
executed. A push to the front would break the order, and `FrontAssumption` is why it does
not: the task that pushes there may not be parallel and pushes to its own list
(`task-executors.go:241-244`), so that it is the one the pass waits for, and it returns an
error, which ends the pass. `BusyInv` is false after a restart, which brings back PENDING tasks
that nobody executes (`SkippedIsInProcessOrFinished` in section 4), and with it the order:
hence `RunSpec`.

`ImplementsTaskPool` maps `outstanding` to the IDs of listed tasks that are not done,
`running` to the IDs being executed and `saved` to those in the store. An insertion
is `Submit` (the new address was on no list), a visit `Begin`, the end of an
execution `End` (`RunningTaskIsListed` makes its task outstanding until then), a
sweep a stutter, `storeQueue` `Save`, and a restart `Reopen`:
a list comes back empty or holding one saved task, however often.

`ShutdownIsReceived` says nothing of the stage between the two messages but that the
second loop is there; `StopInv` adds that the first has ended, and that while the context
is alive no loop calls Shutdown on itself, so that the client's messages are the only ones.

### MirrorSync

`MirrorProofs` proves, for any finite set of paths and any number of saves:

| theorem | property | argument |
|---|---|---|
| `MirrorTypeCorrect` | `TypeOK` (of `Spec`) | inductive by itself |
| `SavedFilesReachHub` | `SettledFilesAreOnHub` | `UploadInv`: a local file is on the hub or one of the lists has the task that puts it there |
| `RecordsAreTrue` | `BackedUpIsOnHub` | `RecordInv`: the record says so only after an upload, and nothing takes the copy away |
| `TogglesAreObeyed` | `SettledBackupIsObeyed` | `UploadInv`, `RestoreInv` and `RemoveInv`: what each list still owes |
| `HubCopiesAreKept` | `HubKeepsFiles` | `PhaseInv`: no task that deletes on the hub is in a list while backup is left on |
| `ImplementsBackupService` | `ServiceSpec` | step by step, under `MirrorInv` |

All but the first are of `UserSpec`, whose user toggles backup only when the lists are empty, and
come from one invariant, `MirrorInv`. Its centre is `PhaseInv`: tasks that put files on
the hub and tasks that take them off are never in the lists together, since the lists are
empty when the backup flag changes and each task enqueues tasks of its own kind only. An
executor works on what it has read before, so `HandsInv` says what it has in its hands at
each step, and `ListsInv` that its task stays listed until it is done; then the task that
`UploadInv` counts on cannot vanish without its work. `RestoreInv` is needed for the user
who toggles: a file that is only on the hub has a restore under way, so that when the lists
are empty, and backup may be turned off, every file on the hub is here as well; "off"
enumerates the local files (`pinning.go:147-177`) and thereby misses none on the hub.

`ImplementsBackupService` maps `here` and `hub` to the paths with a content in each bucket,
`on` to the schema's flag and `settled` to both lists being empty; tasks, records
and loops have no counterpart. A push is `Upload` and a deletion `Delete`, whose guards
(`on`, and its opposite) are `PhaseInv`, since an executor does not read the flag again
before it acts; enqueuing, retrying, failing and dropping a duplicate are `Work`. `coming` is
needed because RESTORE_FILE reads the hub's copy and then writes it here: the copy may have
left the hub in between, which `Restore` allows for a file that is coming and
for no other. That the promise holds whenever the work has settled is a part of the
abstract next-state relation (`settled' => Obeyed'`) and follows from `UploadInv` and
`RemoveInv`. The service does not say which files are uploaded, nor that they ever are:
the first is `SavedFilesReachHub`, the second `SavedGetsToHub`. `HubKeepsFiles` is a
theorem only: a run of its own would ask nothing that `ServiceSpec` does not.

### PullFile and FileCache

`GetFileProofs` proves `PullTypeCorrect` (`TypeOK`), `PullSuccessNeverPanics`
(`PullSuccessIsSafe`) and `NilIsNeverALie` (`NilMeansDelivered`) for any finite set of
pullers and any faults, from `PullInv`. `CountInv` ties `pendingFns` to the number of
pullers that have not reported, and keeps the two counters together below the number of
pullers; once a winner has reported, strictly, so that a race with a winner never counts as
failed. `RaceInv` says where the race, the collecting goroutine and the pullers are with
respect to each other: the channel is closed only when no puller offers on it. `FileInv`
follows the file: past its copy a puller has all of it, and `nil` needs the decrypter's
end of it.

It proves `CacheTypeCorrect` (`CacheTypeOK`), and `CacheStaysExact` (`CacheIsExact`) and
`ReadsStayCurrent` (`ReadsAreCurrent`) under `QuietSpec`, for any number of calls and any
`MaxVersion`.
`CallInv` says what a call holds at each of its places: a CID it asked for is one the
bucket had during the call, and a pulled file is the bucket's while it is being
cached, which is where the restriction on pushes is used. Without the restriction
(`Spec`), `CacheIsLateAtWorst` states what is left: under a CID the cache holds that
version or an older one, never a newer one. The pull comes before the look-up of the key,
so the content is never newer than its key (`HeldInv`).

### Account

`AccountProofs` proves `AccountTypeCorrect` (`TypeOK`) for any keys, handlers and bounds.
Starting a synchronizer takes a free number; `RoomInv` says that there is one, because a
client that may still start one has fewer running than there are numbers.

`RestoredStaysInitialized` proves `RestoredIsInitialized` under the hypothesis that
handlers are called one at a time (`OneAtATime`). `RestoreInv` says that a health check
holds the mutex at the places where it uses the flags, that a restore at its
`RestoreDB` holds it and has read the key that is stored, and that after a restore which
succeeded no health check is in the middle of an initialization for another key. The
hypothesis is not to be had from the code, which has no lock around a handler; TLC shows with two
handlers that the property needs it.

### Buckets

`BucketsProofs` proves, for any buckets, threads, goroutines and number of faults:

| theorem | property | argument |
|---|---|---|
| `TypeCorrect` | `TypeOK` | part of `BucketInv` |
| `KeysStay` | `KeyIsConstant` | every step but `LoseDevice` satisfies `KeysKept`, under `BucketInv` |
| `RestoresBringKeysBack` | `RestoreBringsKeysBack` | from `RestoreInv` |
| `DefaultBucketIsThere` | `InitializedIsUsable` | from `UsableInv`, under `BucketInv` |

`PlaceAt` says what a goroutine holds at the places where it uses it. Its heart is the
record read before a save: it has the key that the bucket has *now*, which other
goroutines can break only by changing a key. So the invariant of one goroutine needs
`KeysKept` of the steps of all others, and `KeysKept` of a save needs the invariant:
the two are proved together, step by step (lemma `Combine`). `RestoreInv` adds that
between a lost device and the return of the metathread only `RestoreDB` is at work,
which never makes an empty one; from then on `KeysKept` carries the keys of the hub.

`InitializedIsUsable` is about the moment `isInitialized` is set, and about the handlers
that save records afterwards. `UsableInv` says of each goroutine (`WorkAt`) what it has
made sure of so far: an initialization has met the default bucket or has it still to do,
and what it is about to make has no record; a goroutine that will save a record has one
that names its own thread or the shared one (`OwnOrShared`); and until the client is
initialized no handler that could replace a thread is at work. `Calm` is what a step of one
goroutine leaves to the others (`OthersWork`), so that each operation is looked at alone.
`misled`, which excuses the property, is set by an error of `FindBucket` only.

### Sharing and OpenFiles

`SharingProofs` proves, for any paths, handlers and length of the inbox:

| theorem | property | argument |
|---|---|---|
| `TypeCorrect` | `TypeOK` | inductive by itself |
| `SharedStaysListed` | `SharedIsListed` | `JobInv`: at its roles a job has recorded all its paths, and no step removes a record |
| `AcceptedStaysRecorded` | `AcceptedIsRecorded` | `StoredSoFar`: of the invitation a handler has, each path is still to do, recorded or revoked, as long as it has no error |
| `DecisionsStayOne` | `OneDecision` | `ClashInv` and `DecisionInv`: a handler that is alone with an invitation decides as its records say |

`OpenFilesProofs` proves `TypeCorrect` and `HalfCopiesStay` (`HalfCopiesStayHome`) for any
temp files, handlers and contents. The property speaks of what was pushed or handed
out; `KnownIsWhole` claims of every copy that anything could still push or hand out (a
record, a reverse key, the watcher, an `OpenFile` past its pull) that it is not a half
one, and a pull only ever writes a copy that nothing else knows.

### AddItems

`AddItemsProofs` proves `TypeCorrect` (`TypeOK`) and `NothingLostOrCountedTwice`
(`StreamIsTruthful`) for every tree and request, however many nodes the user deletes:

| part of the invariant | what it says |
|---|---|
| `SlotInv`, `StageInv` | where a result may be, and in which order the goroutines start and end |
| `CountInv` | whom each call of `getTotals` waits for: the goroutines of paths in its own folder |
| `TotalsInv` | in a tree nobody touched a call has collected the files and bytes of what its goroutines have gathered (`Gathered`), without an error |
| `AnswerInv` | what was uploaded has a result on its way or sent, as long as the client is there; what is called uploaded is in the bucket |
| `TodoInv` | in a tree nobody touched what is still to do, on its way and sent are apart (`OneResultInv`), and what is not in the bucket is still to do or covered by an error (`CoverInv`) |
| `StreamInv` | response `i` counts `i` files, and the bytes of the nodes named so far |

The totals are made by goroutines in any order and the progress by the uploads one after
the other; both are compared with the same set, `Asked`, which is what makes them agree:
all that was gathered when the last `getTotals` returns is `Asked` (`TotalsOfAsked`), the
nodes in the stream are distinct and part of it (`StreamedOnce`), and without an error
they are all of it.

Two things would need induction over data, which is not to be had, and are stated so that
they do not. *The tree*: `Below(S)` is the least set of nodes that contains `S` and what is
in it, so that a fact about all descendants is shown by naming a set that is closed
(`BelowIsLeast`); this gives that what is below a folder is the folder and what is below
its paths (`BelowKids`), that no folder is inside itself (`NoCycle`) and that paths of one
folder have nothing in common (`SiblingsApart`). *The sums of sizes*: the bytes of the
files are a set of pairs (`OneByOne`), and `Weight` is how many of them belong to a set of nodes; it
adds up over disjoint sets because cardinalities do (`WeightAddsUp`). That
`RemoveDuplicates` returns each path once (`RemoveDuplicatesIsASet`) follows from the
pigeonhole principle: of `c` first occurrences each has another number, below `c`, of
first occurrences before it.

"Nobody touched" is a hypothesis of the statements that need it, as in the property: after
a deletion the totals are those of another tree.

### Assumptions, and what is not proved

The assumptions are those of the modules. `SyncAssumption`: IDs, lists and budgets have
the types the code gives them, addresses are finitely many. `FrontAssumption`: see
`HeadOfLine` above; only that theorem uses it. `MirrorAssumption`, `PullAssumption`,
`CacheAssumption`, `AccountAssumption`, `BucketAssumption`, `SharingAssumption` and
`OpenAssumption`: paths and pullers are finitely many, bounds are numbers, the default bucket
is a bucket, and the values that stand for "nothing" are none of the others. `AddAssumption`:
nodes are finitely many, each is in a folder or at the top, a folder has no size of its own,
and a request names nodes at the top.

Only model-checked: all liveness (`EveryTaskEnds`, `SavedGetsToHub`, `Returns`,
`GetsHealthy`, `HubWaiterIsAnswered`, `EditIsPushed`, `AddItemsReturns`), since the prover
has no rules for fairness or `ENABLED`; and that the properties of section 4 are violated,
which a behaviour shows.

## 6. Plan

Done: the modules and theorems above. What is left is public links and resharing, which
add a second kind of received file to `Sharing`.

## 7. Not modelled

* Pure I/O and translation (gRPC, protobuf, configuration, embedded IPFS node and
  bucket daemon), cryptography (a file decrypts or does not), and third-party behaviour
  inside a call.
* The search index: its tasks are tasks like others in `Synchronizer`; what it holds is
  an embedded database.
* Public links, resharing by an invitee, listings and searches.
* The mailbox listener: a goroutine per connection that hands messages to
  notifications; a message that cannot be parsed, and a reconnect that leaves the
  earlier goroutine, are seen only with the hub's library.
* The map of thread listeners: what a listener does to the rest is the
  `NotifyBucketRestore` of `MirrorSync`, which may come at any time.
* The FUSE drive: its state is a kernel mount. The controller's comment
  (`controller.go:109`) says that the mount state is stored to remount after a restart;
  a graceful shutdown calls `Unmount`, which stores that it is not mounted, so that only a
  crash leaves a state to remount from.
* The application: a stack of components that are started in order and stopped in
  reverse, sequentially; `Account` and `OpenFiles` have the start, stop and crash of the
  parts they are about.

`PROJECT.json` lists every component with its status.
