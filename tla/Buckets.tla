------------------------------- MODULE Buckets -------------------------------
(***************************************************************************)
(* The buckets of an account: their records in the metathread, the threads *)
(* that hold them, and the code that finds, creates, restores, joins and   *)
(* toggles them while the client initializes (bucket_factory.go,           *)
(* model/buckets.go, utils.go).  No lock is held over two of its calls,    *)
(* and every change of a record reads, changes and saves all of it.        *)
(*                                                                         *)
(* Abstractions.  A bucket's random key is named by the thread its record  *)
(* was made for.  What a bucket thread on the hub holds is there at once;  *)
(* which threads and which records of the metathread are there is chosen   *)
(* when the device is lost (tasks of the synchronizer replicate them).     *)
(* The threads' daemon keeps slugs unique (the index of the collection).   *)
(* Two buckets of one name in a thread are not told apart.  The name of a  *)
(* thread that nothing holds any more is taken again.                      *)
(***************************************************************************)
EXTENDS Naturals

CONSTANTS
  Slug, defaultPersonalBucketSlug,
  Proc,       \* goroutines: the health check, gRPC handlers, the synchronizer
  Thread,     \* bucket threads of the account
  Shared,     \* a bucket thread of another user
  None,
  Asked,      \* bound of the model: operations and the slugs they are called for
  MaxFaults   \* bound of the model: crashes and lost devices

VARIABLES
  stored,     \* the store knows the metathread: it was joined or replicated
  meta,       \* BucketMetadata of the local metathread, or None
  hubMeta,    \* what its replica had of it when the device was lost, or None
  threads,    \* bucket threads on this device
  hubThreads, \* those that were replicated to the hub when the device was lost
  roots,      \* threads with a bucket in them
  proc,       \* what each goroutine is doing
  isInitialized,
  phase,      \* whether the keys are this device's, to be restored, restored
  misled,     \* history: an error of FindBucket was taken for "not found"
  faults

metas == <<stored, meta, hubMeta>>
data == <<threads, hubThreads, roots>>
mode == <<isInitialized, phase, misled, faults>>
vars == <<metas, data, proc, mode>>

Threads == Thread \cup {Shared}
Record == [db : Threads, key : Threads, mirror : BOOLEAN]
Collection == [Slug -> Record \cup {None}]
Empty == [s \in Slug |-> None]

ASSUME BucketAssumption ==
  /\ defaultPersonalBucketSlug \in Slug /\ MaxFaults \in Nat
  /\ None \notin Slug \cup Threads \cup Record \cup Collection

Idle == [op |-> "idle", at |-> "idle", slug |-> None, db |-> None, rec |-> None,
         todo |-> {}, creating |-> FALSE]
Ops == {"idle", "initialize", "RestoreDB", "create", "get", "toggle", "mirror", "join"}
Places == {"idle", "meta", "list", "restore", "addr", "read", "save", "joined",
           "find", "newdb", "record", "find2", "newdb2", "record2", "make"}

TypeOK ==
  /\ stored \in BOOLEAN
  /\ meta \in Collection \cup {None} /\ hubMeta \in Collection \cup {None}
  /\ threads \subseteq Threads /\ hubThreads \subseteq Threads
  /\ roots \subseteq Threads
  /\ proc \in [Proc -> [op : Ops, at : Places, slug : Slug \cup {None},
                        db : Threads \cup {None}, rec : Record \cup {None},
                        todo : SUBSET Slug, creating : BOOLEAN]]
  /\ isInitialized \in BOOLEAN
  /\ phase \in {"own", "lost", "restored", "raced"}
  /\ misled \in BOOLEAN /\ faults \in 0 .. MaxFaults

-------------------------------------------------------------------------------
Rec(s) == IF meta = None THEN None ELSE meta[s]
Listed == {s \in Slug : Rec(s) # None}

\* Mutant: RestoreDB does not set the flag.
MutantShouldForceRestore(p) == FALSE

shouldForceRestore(p) == proc[p].op = "RestoreDB"

To(p, at) == proc' = [proc EXCEPT ![p].at = at]
Stop(p) == proc' = [proc EXCEPT ![p] = Idle]
At(p, at) == proc[p].at = at

\* The place after the metathread was found.
First(op) ==
  CASE op \in {"initialize", "RestoreDB"} -> "list"
    [] op \in {"create", "get"} -> "find"
    [] op = "join" -> "addr"
    [] OTHER -> "read"

Begin(p, op, s) ==
  /\ proc[p] = Idle /\ <<op, s>> \in Asked
  /\ proc' = [proc EXCEPT ![p] = [Idle EXCEPT !.op = op, !.slug = s, !.creating = op = "create",
                                              !.at = IF stored THEN First(op) ELSE "meta"]]
  /\ UNCHANGED <<metas, data>>

Initializing(p) == proc[p].op \in {"initialize", "RestoreDB"}
Creates(p) == proc[p].creating /\ (Initializing(p) => proc[p].slug = defaultPersonalBucketSlug)

\* An error: createBucket goes on when its getBucket fails, restoreBuckets with
\* the next bucket unless it is forced, and everything else returns.
Fail(p) ==
  IF Creates(p) /\ proc[p].at \in {"find", "newdb", "record"}
  THEN To(p, "find2")
  ELSE IF proc[p].op = "initialize" /\ proc[p].at \in {"save", "joined"}
  THEN proc' = [proc EXCEPT ![p].at = "restore", ![p].todo = @ \ {proc[p].slug}]
  ELSE Stop(p)

Fails(p) ==
  /\ proc[p] # Idle /\ Fail(p)
  /\ UNCHANGED <<metas, data, mode>>

-------------------------------------------------------------------------------
(* FindOrCreateDeterministicThread, which every operation of the model calls *)

FoundMeta(p) ==
  /\ At(p, "meta") /\ stored
  /\ To(p, First(proc[p].op))
  /\ UNCHANGED <<metas, data, mode>>

\* NewDBFromAddr, or the error that there is one already; then the store.
JoinMeta(p) ==
  /\ At(p, "meta") /\ ~stored /\ hubMeta # None
  /\ meta' = IF meta = None THEN hubMeta ELSE meta
  /\ \/ stored' = TRUE /\ To(p, First(proc[p].op))
     \/ UNCHANGED stored /\ Stop(p)
  /\ UNCHANGED <<hubMeta, data, mode>>

\* NewDB: the hub has no replica, did not answer, or joining failed.
NewMeta(p) ==
  /\ At(p, "meta") /\ ~stored /\ ~shouldForceRestore(p)
  /\ meta' = IF meta = None THEN Empty ELSE meta
  /\ stored' \in BOOLEAN
  /\ To(p, First(proc[p].op))
  /\ UNCHANGED <<hubMeta, data, mode>>

-------------------------------------------------------------------------------
(* getOrCreateBucketContext; the second one of createBucket has its places 2 *)

\* Threads that something may still read.
Held ==
  LET records == {m[s] : m \in {meta, hubMeta} \ {None}, s \in Slug} \ {None} IN
  {r.db : r \in records} \cup {r.key : r \in records}
  \cup {proc[p].db : p \in Proc} \cup hubThreads \cup {Shared}

\* Any error of FindBucket counts as not found; until the metathread is stored
\* each FindBucket asks the hub first.
FindNoBucket(p) ==
  /\ proc[p].at \in {"find", "find2"} /\ (Rec(proc[p].slug) = None \/ ~stored)
  /\ To(p, IF At(p, "find") THEN "newdb" ELSE "newdb2")
  /\ misled' = (misled \/ Rec(proc[p].slug) # None)
  /\ UNCHANGED <<metas, data, isInitialized, phase, faults>>

NewDB(p) ==
  \E d \in Threads \ Held :
    /\ proc[p].at \in {"newdb", "newdb2"}
    /\ proc' = [proc EXCEPT ![p].at = IF At(p, "newdb") THEN "record" ELSE "record2",
                            ![p].db = d]
    /\ threads' = (threads \cap Held) \cup {d}
    /\ roots' = roots \cap Held
    /\ UNCHANGED <<metas, hubThreads, mode>>

\* Mutant of CreateBucket: an existing record is replaced.
MutantRecorded(s, d) ==
  [meta EXCEPT ![s] = [db |-> d, key |-> d, mirror |-> FALSE]]

\* Mutant: the record is made before its key is.
MutantKeyless(s, d) ==
  IF Rec(s) # None THEN meta
  ELSE [meta EXCEPT ![s] = [db |-> d, key |-> None, mirror |-> FALSE]]

\* CreateBucket of the model: one that is in the collection is left alone.
Recorded(s, d) ==
  IF Rec(s) # None THEN meta
  ELSE [meta EXCEPT ![s] = [db |-> d, key |-> d, mirror |-> FALSE]]

\* getBucket finds nothing in the new thread; createBucket uses its context,
\* whatever the record says.
CreateRecord(p) ==
  /\ proc[p].at \in {"record", "record2"}
  /\ meta' = Recorded(proc[p].slug, proc[p].db)
  /\ IF At(p, "record") THEN Fail(p) ELSE To(p, "make")
  /\ UNCHANGED <<stored, hubMeta, data, mode>>

-------------------------------------------------------------------------------
(* getBucket and createBucket, and what goes on when they return a bucket *)

\* initialize lists the buckets in some order and then creates the default one,
\* if it was not listed.
ToBucket(p, todo) ==
  \E s \in {CHOOSE t \in todo : proc[p].creating /\ t = defaultPersonalBucketSlug
                                   => todo = {t}} :
    proc' = [proc EXCEPT ![p] = [@ EXCEPT !.at = "find", !.slug = s, !.todo = todo,
                                          !.db = None, !.rec = None]]

Found(p) ==
  LET todo == proc[p].todo \ {proc[p].slug} IN
  IF Initializing(p) /\ todo # {} THEN ToBucket(p, todo) /\ UNCHANGED mode
  ELSE /\ Stop(p)
       /\ isInitialized' = (isInitialized \/ Initializing(p))
       /\ phase' = IF proc[p].op = "RestoreDB" /\ phase = "lost" THEN "restored" ELSE phase
       /\ UNCHANGED <<misled, faults>>

\* Mutant: a thread without the bucket will do.
MutantFindBucket(p) ==
  /\ At(p, "find") /\ Rec(proc[p].slug) # None
  /\ Found(p)
  /\ UNCHANGED <<metas, data>>

\* getBucket of a bucket that is recorded and in its thread.
FindBucket(p) ==
  /\ At(p, "find") /\ Rec(proc[p].slug) # None
  /\ Rec(proc[p].slug).db \in threads \cap roots
  /\ Found(p)
  /\ UNCHANGED <<metas, data>>

FindToCreate(p) ==
  /\ At(p, "find2") /\ Rec(proc[p].slug) # None
  /\ proc' = [proc EXCEPT ![p].at = "make", ![p].db = Rec(proc[p].slug).db]
  /\ UNCHANGED <<metas, data, mode>>

\* Create in the context, CreateBucket of the model, and the notifications.
MakeBucket(p) ==
  /\ At(p, "make") /\ proc[p].db \in threads
  /\ roots' = roots \cup {proc[p].db}
  /\ meta' = Recorded(proc[p].slug, proc[p].db)
  /\ Found(p)
  /\ UNCHANGED <<stored, hubMeta, threads, hubThreads>>

CreateBucket(c, s) ==
  isInitialized /\ Begin(c, "create", s) /\ UNCHANGED mode

\* GetBucket of any handler that takes the name of a bucket.
GetBucket(c, s) ==
  isInitialized /\ Begin(c, "get", s) /\ UNCHANGED mode

-------------------------------------------------------------------------------
(* initialize, by the health check or by RestoreDB, which exclude each other *)

\* The health check may see the keys of a restore before RestoreDB is called.
Initialize(p) ==
  /\ ~isInitialized /\ \A q \in Proc : ~Initializing(q)
  /\ Begin(p, "initialize", None)
  /\ phase' = IF phase = "lost" THEN "raced" ELSE phase
  /\ UNCHANGED <<isInitialized, misled, faults>>

RestoreDB(p) ==
  /\ ~isInitialized /\ phase = "lost" /\ \A q \in Proc : ~Initializing(q)
  /\ Begin(p, "RestoreDB", None)
  /\ UNCHANGED mode

\* restoreBuckets is done with the threads: on with listBuckets.
ToBuckets(p) ==
  LET todo == Listed \cup {defaultPersonalBucketSlug} IN
  \E creating \in {defaultPersonalBucketSlug \notin Listed} :
    \E s \in {CHOOSE t \in todo : creating /\ t = defaultPersonalBucketSlug
                                     => todo = {t}} :
      proc' = [proc EXCEPT ![p] = [@ EXCEPT !.at = "find", !.slug = s, !.todo = todo,
                                            !.creating = creating]]

ThreadsInitialized == \A s \in Listed : meta[s].db \in threads

restoreBuckets(p) ==
  /\ At(p, "list")
  /\ shouldForceRestore(p) => Listed # {}
  /\ IF ThreadsInitialized THEN ToBuckets(p)
     ELSE proc' = [proc EXCEPT ![p].at = "restore", ![p].todo = Listed]
  /\ UNCHANGED <<metas, data, mode>>

\* The thread is on the hub and can be joined; UpsertBucket reads the record.
JoinReplica(p, s) ==
  /\ At(p, "restore") /\ s \in proc[p].todo
  /\ Rec(s).db \in hubThreads \ threads
  /\ threads' = threads \cup {Rec(s).db}
  /\ proc' = [proc EXCEPT ![p] = [@ EXCEPT !.at = "save", !.slug = s, !.rec = Rec(s)]]
  /\ UNCHANGED <<metas, hubThreads, roots, mode>>

\* It is not, or the hub does not say so; or it cannot be joined, which is the
\* case of one that is here and which a forced restore does not forgive.
SkipReplica(p, s) ==
  /\ At(p, "restore") /\ s \in proc[p].todo
  /\ proc' = [proc EXCEPT ![p].todo = @ \ {s}]
  /\ UNCHANGED <<metas, data, mode>>

ListBuckets(p) ==
  /\ At(p, "restore") /\ proc[p].todo = {}
  /\ ToBuckets(p)
  /\ UNCHANGED <<metas, data, mode>>

-------------------------------------------------------------------------------
(* What reads a record, changes it and saves all of it: BucketBackupToggle,   *)
(* CreateMirrorBucket and UpsertBucket                                        *)

ToggleBucketBackup(c, s) ==
  isInitialized /\ Begin(c, "toggle", s) /\ UNCHANGED mode

processCreateBucket(p, s) ==
  /\ Rec(s) # None /\ \A q \in Proc : proc[q].op # "mirror"
  /\ Begin(p, "mirror", s)
  /\ UNCHANGED mode

JoinBucket(c, s) ==
  isInitialized /\ Begin(c, "join", s) /\ UNCHANGED mode

\* NewDBFromAddr fails for a thread that is here.
joinBucketViaAddress(c) ==
  /\ At(c, "addr") /\ Shared \notin threads
  /\ threads' = threads \cup {Shared}
  /\ To(c, "read")
  /\ UNCHANGED <<metas, hubThreads, roots, mode>>

\* The toggle changes a flag that no step here reads.
Changed(p, r) ==
  CASE proc[p].op = "toggle" -> r
    [] proc[p].op = "mirror" -> [r EXCEPT !.mirror = TRUE]
    [] proc[p].op = "join" -> [r EXCEPT !.db = Shared]

ReadBucket(p) ==
  /\ At(p, "read") /\ Rec(proc[p].slug) # None
  /\ proc' = [proc EXCEPT ![p].at = "save", ![p].rec = Changed(p, Rec(proc[p].slug))]
  /\ UNCHANGED <<metas, data, mode>>

\* UpsertBucket of a bucket that is new.
CreateJoined(c) ==
  /\ At(c, "read") /\ proc[c].op = "join" /\ Rec(proc[c].slug) = None
  /\ meta' = Recorded(proc[c].slug, Shared)
  /\ To(c, "joined")
  /\ UNCHANGED <<stored, hubMeta, data, mode>>

\* UpsertBucket does not look at the error of Save.  The toggle ends with a
\* GetBucket.
SaveBucket(p) ==
  /\ At(p, "save")
  /\ meta' \in {[meta EXCEPT ![proc[p].slug] = proc[p].rec]}
              \cup IF proc[p].op = "join" \/ Initializing(p) THEN {meta} ELSE {}
  /\ CASE proc[p].op = "mirror" -> Stop(p)
       [] proc[p].op = "toggle" -> proc' = [proc EXCEPT ![p].at = "find", ![p].rec = None]
       [] OTHER -> proc' = [proc EXCEPT ![p].at = "joined", ![p].rec = None]
  /\ UNCHANGED <<stored, hubMeta, data, mode>>

\* "Create bucket in buckets client in case it's not already there": what it
\* returns is not looked at.
CreateInJoined(p) ==
  /\ At(p, "joined")
  /\ roots' \in {roots, roots \cup {Rec(proc[p].slug).db}}
  /\ IF Initializing(p)
     THEN proc' = [proc EXCEPT ![p].at = "restore", ![p].todo = @ \ {proc[p].slug}]
     ELSE Stop(p)
  /\ UNCHANGED <<metas, threads, hubThreads, mode>>

-------------------------------------------------------------------------------
Restarted ==
  /\ faults < MaxFaults /\ faults' = faults + 1
  /\ proc' = [p \in Proc |-> Idle] /\ isInitialized' = FALSE

Crash == Restarted /\ UNCHANGED <<metas, data, phase, misled>>

\* The daemon is set up on another device, where the user restores the keys.
LoseDevice ==
  /\ Restarted /\ stored /\ Listed # {}
  /\ phase' = "lost"
  /\ hubMeta' \in {[s \in Slug |-> IF s \in sent THEN meta[s] ELSE None] : sent \in SUBSET Listed}
  /\ stored' = FALSE /\ meta' = None
  /\ threads' = {}
  /\ hubThreads' \in SUBSET threads
  /\ roots' = roots \cap (hubThreads' \cup {Shared})
  /\ UNCHANGED misled

Init ==
  /\ stored = FALSE /\ meta = None /\ hubMeta = None
  /\ threads = {} /\ hubThreads = {} /\ roots = {Shared}
  /\ proc = [p \in Proc |-> Idle]
  /\ isInitialized = FALSE /\ phase = "own" /\ misled = FALSE /\ faults = 0

Step(p) ==
  \/ FoundMeta(p) \/ JoinMeta(p) \/ NewMeta(p)
  \/ FindBucket(p) \/ FindNoBucket(p) \/ NewDB(p) \/ CreateRecord(p)
  \/ FindToCreate(p) \/ MakeBucket(p)
  \/ restoreBuckets(p) \/ ListBuckets(p)
  \/ \E s \in Slug : JoinReplica(p, s) \/ SkipReplica(p, s)
  \/ joinBucketViaAddress(p) \/ ReadBucket(p) \/ CreateJoined(p)
  \/ SaveBucket(p) \/ CreateInJoined(p)

Starts(p) ==
  \/ Initialize(p) \/ RestoreDB(p)
  \/ \E s \in Slug :
       \/ processCreateBucket(p, s)
       \/ CreateBucket(p, s) \/ GetBucket(p, s) \/ ToggleBucketBackup(p, s)
       \/ JoinBucket(p, s)

Next ==
  \/ \E p \in Proc : Step(p) \/ Fails(p) \/ Starts(p)
  \/ Crash \/ LoseDevice

Spec == Init /\ [][Next]_vars

-------------------------------------------------------------------------------
\* A bucket keeps the key its files are encrypted with, whatever creates,
\* restores, joins or toggles it at the same time, until the device is lost
\* (model/buckets.go:32-125, mirror_file.go:41-65): files are on the hub under it.
KeyIsConstant ==
  [][\A s \in Slug : Rec(s) # None /\ meta' # None =>
        Rec(s)' # None /\ Rec(s)'.key = Rec(s).key]_vars

\* A restore that returned no error has brought back the keys of the buckets
\* that the hub has, unless the health check came between the keys and RestoreDB
\* (client.go:624-637, utils.go:249-274).
RestoreBringsKeysBack ==
  phase = "restored" => \A s \in Slug :
    hubMeta[s] # None => Rec(s) # None /\ Rec(s).key = hubMeta[s].key

\* An initialized client has its default bucket, also on a new device and when
\* handlers create, join or toggle it at the same time (client.go:389-445).
InitializedIsUsable ==
  isInitialized /\ ~misled => /\ defaultPersonalBucketSlug \in Listed
                              /\ meta[defaultPersonalBucketSlug].db \in threads \cap roots

-------------------------------------------------------------------------------
(* What the comments of the code say and TLC refutes, with the shortest run. *)

\* "Initializes dbs from a backup.  Returns error if it can't initialize"
\* (client.go:624): a health check between the restore of the keys and RestoreDB
\* makes an empty metathread when the hub does not answer.
AnyRestoreBringsKeysBack ==
  phase # "own" /\ isInitialized => \A s \in Slug :
    hubMeta[s] # None => Rec(s) # None /\ Rec(s).key = hubMeta[s].key

\* An initialized client has its default bucket (client.go:389-410): an error of
\* FindBucket is taken for a bucket that is not there, and the bucket is made in
\* a thread that its record does not name.
InitializedHasDefault ==
  isInitialized => /\ defaultPersonalBucketSlug \in Listed
                   /\ meta[defaultPersonalBucketSlug].db \in threads \cap roots

\* "attempt [...] to initialize if it's not already initialized"
\* (client.go:447-448): listBuckets fails for a record without its bucket, which
\* is what a creation that stops half-way, or the lookup of a bucket nobody
\* created, leaves behind.
RecordedIsMade ==
  (\A p \in Proc : proc[p] = Idle) /\ phase = "own" =>
    \A s \in Listed : meta[s].db \in threads \cap roots

\* A bucket that has a mirror keeps it (mirror_file.go:41-65): a toggle or a join
\* that read the record before saves it without.
MirrorIsKept ==
  [][\A s \in Slug : Rec(s) # None /\ Rec(s).mirror /\ meta' # None => Rec(s)'.mirror]_vars

===============================================================================
