------------------------------- MODULE Account -------------------------------
(***************************************************************************)
(* The Textile client over the keychain: its health-check loop, and the    *)
(* calls that create, restore, remove and back up the user's key while the *)
(* loop runs.  Only the health check and RestoreDB share a lock; the flags *)
(* are plain fields that everybody writes.                                 *)
(*                                                                         *)
(* Abstractions.  initialize (buckets, metathread, search index) is one    *)
(* call that begins by reading the key and may fail; initKey is the key it *)
(* worked for.  A synchronizer is a number; that Shutdown of one returns   *)
(* is checked in Synchronizer.  The app has received Ready.  A failed      *)
(* health check counts up to the limit, the only value compared with.      *)
(***************************************************************************)
EXTENDS Keychain, FiniteSets

CONSTANTS
  Caller,   \* gRPC handlers that may run at the same time
  healthcheckFailuresBeforeUnhealthy,
  MaxSync   \* bound of the model: synchronizers at one time

ASSUME AccountAssumption ==
  /\ healthcheckFailuresBeforeUnhealthy \in Nat \ {0} /\ MaxSync \in Nat \ {0}
  /\ None \notin Key \cup Caller \cup {"loop"} /\ "loop" \notin Caller

VARIABLES
  isInitialized, isSyncInitialized, isConnectedToHub,
  failedHealthchecks,
  healthcheckMutex,  \* who holds it
  loop,              \* place of the health-check loop
  loopKey,           \* the key its present call has read
  mailbox,           \* it can be set up: its directory is there, or its flag is not
  sync, running,     \* tc.sync, and the synchronizers whose loops run
  call,              \* what each handler is doing
  waiter,            \* a handler in waitForTextileHub
  down,              \* progress of Shutdown, or a send on a closed channel
  restored,          \* history: the last call has restored a key
  initKey            \* history: the key isInitialized was last set for since then

flags == <<isInitialized, isSyncInitialized, isConnectedToHub>>
health == <<failedHealthchecks, waiter>>
looping == <<healthcheckMutex, loop, loopKey>>
syncs == <<sync, running>>
hub == <<token, mailbox>>
history == <<restored, initKey>>
vars == <<keys, hub, flags, health, looping, syncs, call, down, history>>

Limit == healthcheckFailuresBeforeUnhealthy
Sync == 1 .. MaxSync
Idle == [at |-> "idle", op |-> "none", key |-> None]
Ops == {"none", "generate", "restore", "delete", "backup"}
Places == {"idle", "ring", "pub", "cache", "lock", "init", "undo", "stop", "wait",
           "clear", "flags", "send", "db", "remove", "drop", "mnemonic"}
LoopPlaces == {"select", "lock", "init", "initializing", "hub", "challenge",
               "connect", "count", "ended"}

TypeOK ==
  /\ KeychainTypeOK
  /\ isInitialized \in BOOLEAN /\ isSyncInitialized \in BOOLEAN
  /\ isConnectedToHub \in BOOLEAN
  /\ failedHealthchecks \in 0 .. Limit
  /\ healthcheckMutex \in Caller \cup {None, "loop"}
  /\ loop \in LoopPlaces /\ loopKey \in KeyOrNone
  /\ sync \in Sync \cup {0} /\ running \subseteq Sync
  /\ call \in [Caller -> [at : Places, op : Ops, key : KeyOrNone]]
  /\ waiter \in {"idle", "wait"} /\ mailbox \in BOOLEAN
  /\ down \in {"up", "close", "done", "panic"}
  /\ initKey \in KeyOrNone /\ restored \in BOOLEAN

isRunning == down \in {"up", "close"}
IsHealthy == isInitialized /\ isConnectedToHub

-------------------------------------------------------------------------------
(* The health check *)

\* The timer of 3 or 60 seconds.
Wake ==
  /\ loop = "select"
  /\ loop' = "lock"
  /\ UNCHANGED <<keys, hub, flags, health, healthcheckMutex, loopKey, syncs,
                 call, down, history>>

initializeSync ==
  LET s == CHOOSE i \in Sync : i \notin running IN
  /\ sync' = s /\ running' = running \cup {s}
  /\ isSyncInitialized' = TRUE
  /\ UNCHANGED <<isInitialized, isConnectedToHub>>

BeginHealthcheck ==
  /\ loop = "lock" /\ healthcheckMutex = None
  /\ healthcheckMutex' = "loop"
  /\ IF isSyncInitialized THEN UNCHANGED <<flags, syncs>> ELSE initializeSync
  /\ loop' = IF isInitialized THEN "hub" ELSE "init"
  /\ UNCHANGED <<keys, hub, health, loopKey, call, down, history>>

\* restoreBuckets and listBuckets need the metathread, whose ID is derived
\* from the private key.
BeginInitialize ==
  /\ loop = "init"
  /\ loopKey' = GetStoredKeyPair
  /\ loop' = IF GetStoredKeyPair = None THEN "hub" ELSE "initializing"
  /\ CacheKeyPair
  /\ UNCHANGED <<ring, pub, hub, flags, health, healthcheckMutex, syncs, call,
                 down, history>>

\* The end of initialize for key k: one of those who wait for it is told.
Initialized(k) ==
  /\ isInitialized' = TRUE /\ initKey' = IF restored' THEN k ELSE None
  /\ UNCHANGED <<isSyncInitialized, isConnectedToHub>>

Waiting == {c \in Caller : call[c].at = "wait"}

InitializeSucceeds ==
  /\ loop = "initializing"
  /\ UNCHANGED restored /\ Initialized(loopKey)
  /\ loop' = "hub" /\ loopKey' = None
  /\ IF Waiting = {} THEN UNCHANGED call
     ELSE \E c \in Waiting : call' = [call EXCEPT ![c].at = "clear"]
  /\ UNCHANGED <<keys, hub, health, healthcheckMutex, syncs, down>>

InitializeFails ==
  /\ loop = "initializing"
  /\ loop' = "hub" /\ loopKey' = None
  /\ UNCHANGED <<keys, hub, flags, health, healthcheckMutex, syncs, call, down,
                 history>>

Disconnected ==
  /\ isConnectedToHub' = FALSE
  /\ loop' = "count" /\ loopKey' = None
  /\ UNCHANGED <<isInitialized, isSyncInitialized>>

\* checkHubConnection up to getHubCtx: cached tokens are taken whosever key
\* they were made for.
NoKeyForHub ==
  /\ loop = "hub" /\ GetStoredPublicKey = None
  /\ Disconnected
  /\ UNCHANGED <<keys, hub, health, healthcheckMutex, syncs, call, down, history>>

GetTokensWithCache ==
  /\ loop = "hub" /\ GetStoredPublicKey # None
  /\ IF token
     THEN loop' = "connect" /\ UNCHANGED <<privKey, loopKey>>
     ELSE /\ CacheKeyPair
          /\ loopKey' = GetStoredKeyPair
          /\ loop' = "challenge"
  /\ UNCHANGED <<ring, pub, hub, flags, health, healthcheckMutex, syncs, call,
                 down, history>>

getTokensThroughChallenge ==
  /\ loop = "challenge"
  /\ token' = TRUE
  /\ loop' = "connect" /\ loopKey' = None
  /\ UNCHANGED <<keys, mailbox, flags, health, healthcheckMutex, syncs, call, down, history>>

\* The mailbox is set up only when the flag says so; one that was set up is
\* opened, which fails when its directory is gone.
Connect ==
  /\ loop = "connect" /\ (mailbox \/ isConnectedToHub)
  /\ isConnectedToHub' = TRUE
  /\ loop' = "count"
  /\ UNCHANGED <<keys, hub, isInitialized, isSyncInitialized, health,
                 healthcheckMutex, loopKey, syncs, call, down, history>>

HubFails ==
  /\ loop = "challenge" \/ (loop = "connect" /\ ~isConnectedToHub)
  /\ Disconnected
  /\ UNCHANGED <<keys, hub, health, healthcheckMutex, syncs, call, down, history>>

\* Mutants: the count stops one before the limit; failures count on past what a
\* waiter is told at.
MutantCountFailure ==
  IF failedHealthchecks + 1 < Limit THEN failedHealthchecks + 1 ELSE failedHealthchecks
MutantCountOn == failedHealthchecks + 1

CountFailure == IF failedHealthchecks < Limit THEN failedHealthchecks + 1 ELSE Limit

\* The sends on onHealthy do not block: they reach who is waiting, or nobody.
EndHealthcheck ==
  /\ loop = "count"
  /\ IF IsHealthy \/ (CountFailure = Limit /\ waiter = "wait")
     THEN failedHealthchecks' = 0 /\ waiter' = "idle"
     ELSE failedHealthchecks' = CountFailure /\ UNCHANGED waiter
  /\ healthcheckMutex' = None
  /\ loop' = "select"
  /\ UNCHANGED <<keys, hub, flags, loopKey, syncs, call, down, history>>

waitForTextileHub ==
  /\ waiter = "idle" /\ ~IsHealthy /\ down = "up"
  /\ waiter' = "wait"
  /\ UNCHANGED <<keys, hub, flags, failedHealthchecks, looping, syncs, call,
                 down, history>>

-------------------------------------------------------------------------------
(* Storing a key: GenerateKeyPair, and the three calls that restore one.     *)
(* No key operation of services knows of the others.                         *)

Begin(c, op, at, k) ==
  /\ call[c].at = "idle" /\ down = "up"
  /\ call' = [call EXCEPT ![c] = [at |-> at, op |-> op, key |-> k]]
  /\ restored' = FALSE /\ initKey' = None
  /\ UNCHANGED <<health, looping, down>>

To(c, at) == call' = [call EXCEPT ![c].at = at]
End(c) == call' = [call EXCEPT ![c] = Idle]

\* Without force only when GetStoredPublicKey finds nothing.
GenerateKeyPair(c, k, useForce) ==
  /\ useForce \/ GetStoredPublicKey = None
  /\ Begin(c, "generate", "ring", k)
  /\ UNCHANGED <<keys, hub, flags, syncs>>

\* RestoreKeyPairFromMnemonic, RecoverKeysByLocalBackup, RecoverKeysByPassphrase.
RestoreKeyPair(c, k) ==
  /\ Begin(c, "restore", "ring", k)
  /\ UNCHANGED <<keys, hub, flags, syncs>>

StoreRing(c) ==
  /\ call[c].at = "ring"
  /\ RingSet(call[c].key) /\ To(c, "pub")
  /\ UNCHANGED <<hub, flags, health, looping, syncs, down, history>>

StorePub(c) ==
  /\ call[c].at = "pub"
  /\ PubSet(call[c].key) /\ To(c, "cache")
  /\ UNCHANGED <<hub, flags, health, looping, syncs, down, history>>

CacheKey(c) ==
  /\ call[c].at = "cache"
  /\ CacheSet(call[c].key)
  /\ IF call[c].op = "restore"
     THEN call' = [call EXCEPT ![c].at = "lock", ![c].key = None] ELSE End(c)
  /\ UNCHANGED <<hub, flags, health, looping, syncs, down, history>>

\* Mutant: RestoreDB does not take the lock of the health check.
MutantLockForRestore(c) ==
  /\ call[c].at = "lock"
  /\ call' = [call EXCEPT ![c].at = "init", ![c].key = GetStoredKeyPair]
  /\ CacheKeyPair
  /\ UNCHANGED <<ring, pub, hub, flags, health, looping, syncs, down, history>>

\* RestoreDB: initialize with shouldForceRestore, under the lock.
LockForRestore(c) ==
  /\ call[c].at = "lock" /\ healthcheckMutex = None
  /\ healthcheckMutex' = c
  /\ call' = [call EXCEPT ![c].at = "init", ![c].key = GetStoredKeyPair]
  /\ CacheKeyPair
  /\ UNCHANGED <<ring, pub, hub, flags, health, loop, loopKey, syncs, down,
                 history>>

Unlock(c) ==
  healthcheckMutex' = IF healthcheckMutex = c THEN None ELSE healthcheckMutex

RestoreSucceeds(c) ==
  /\ call[c].at = "init" /\ call[c].key # None
  /\ restored' = TRUE /\ Initialized(call[c].key)
  /\ Unlock(c)
  /\ IF Waiting = {} THEN End(c)
     ELSE \E d \in Waiting : call' = [call EXCEPT ![c] = Idle, ![d].at = "clear"]
  /\ UNCHANGED <<keys, hub, health, loop, loopKey, syncs, down>>

\* RestoreDB deletes the key that it could not use, and then so does its caller.
RestoreFails(c) ==
  /\ call[c].at = "init"
  /\ \E ok \in BOOLEAN : DeleteKeypair(ok)
  /\ Unlock(c) /\ call' = [call EXCEPT ![c].at = "undo", ![c].key = None]
  /\ UNCHANGED <<hub, flags, health, loop, loopKey, syncs, down, history>>

UndoRestore(c) ==
  /\ call[c].at = "undo"
  /\ \E ok \in BOOLEAN : DeleteKeypair(ok)
  /\ End(c)
  /\ UNCHANGED <<hub, flags, health, looping, syncs, down, history>>

-------------------------------------------------------------------------------
(* Removing it: DeleteAccount of the gRPC server goes on with DeleteKeypair *)

\* waitForTextileInit looks once, and then waits for the next signal.
AfterInit == IF isInitialized THEN "clear" ELSE "wait"

DeleteKeypairCall(c) ==
  /\ Begin(c, "delete", AfterInit, None)
  /\ UNCHANGED <<keys, hub, flags, syncs>>

\* The buckets are removed; DisableSync.
DeleteAccount(c) ==
  /\ isRunning /\ isInitialized /\ Cardinality(running) < MaxSync
  /\ Begin(c, "delete", "stop", None)
  /\ isSyncInitialized' = FALSE
  /\ UNCHANGED <<keys, hub, syncs, isInitialized, isConnectedToHub>>

\* Shutdown of whatever tc.sync is now; one that is shut down has closed the
\* channel it would be told on.
StopSync == running' = running \ {sync} /\ UNCHANGED sync

StopBackgroundJobs(c) ==
  /\ call[c].at = "stop"
  /\ StopSync
  /\ IF sync \in running THEN To(c, AfterInit) /\ UNCHANGED down
                         ELSE down' = "panic" /\ UNCHANGED call
  /\ UNCHANGED <<keys, hub, flags, health, looping, history>>

\* clearLocalMailbox leaves the flag in the store, if the mailbox was set up.
ClearTokens(c) ==
  /\ call[c].at = "clear"
  /\ token' = FALSE
  /\ \/ To(c, "flags") /\ mailbox' \in {mailbox, FALSE}
     \/ End(c) /\ UNCHANGED mailbox
  /\ UNCHANGED <<keys, flags, health, looping, syncs, down, history>>

ClearFlags(c) ==
  /\ call[c].at = "flags"
  /\ isInitialized' = FALSE /\ isConnectedToHub' = FALSE /\ initKey' = None
  /\ To(c, "send")
  /\ UNCHANGED <<keys, hub, isSyncInitialized, health, looping, syncs,
                 down, restored>>

\* Mutant: the loop that takes the message ends instead of checking.
MutantSendKeypairDeleted(c) ==
  /\ call[c].at = "send" /\ loop = "select"
  /\ loop' = "ended" /\ To(c, "db")
  /\ UNCHANGED <<keys, hub, flags, health, healthcheckMutex, loopKey, syncs, down,
                 history>>

\* The loop takes the message in its select and checks at once.  After Shutdown
\* the channel is closed, and a send on it ends the process.
SendKeypairDeleted(c) ==
  /\ call[c].at = "send"
  /\ \/ loop = "select" /\ loop' = "lock" /\ To(c, "db") /\ UNCHANGED down
     \/ down = "done" /\ down' = "panic" /\ UNCHANGED <<loop, call>>
  /\ UNCHANGED <<keys, hub, flags, health, healthcheckMutex, loopKey, syncs, history>>

DeleteMetathread(c) ==
  /\ call[c].at = "db" /\ GetStoredKeyPair # None
  /\ CacheKeyPair /\ To(c, "remove")
  /\ UNCHANGED <<ring, pub, hub, flags, health, looping, syncs, down, history>>

RemoveKey(c) ==
  /\ call[c].at = "remove"
  /\ \/ DeleteKeypair(TRUE) /\ To(c, "drop")
     \/ DeleteKeypair(FALSE) /\ End(c)
  /\ UNCHANGED <<hub, flags, health, looping, syncs, down, history>>

DropStore(c) ==
  /\ call[c].at = "drop"
  /\ DropAll /\ End(c)
  /\ mailbox' = TRUE
  /\ UNCHANGED <<flags, health, looping, syncs, down, history>>

\* A wait that times out, and any write or remote call that fails.
CallFails(c) ==
  /\ call[c].at \in {"ring", "pub", "wait", "clear", "flags", "db", "drop", "mnemonic"}
  /\ End(c)
  /\ UNCHANGED <<keys, hub, flags, health, looping, syncs, down, history>>

-------------------------------------------------------------------------------
(* BackupKeysByPassphrase: the private key, then the mnemonic *)

\* The session tokens come first, from the store or by a challenge.
BackupKeys(c) ==
  /\ GetStoredKeyPair # None
  /\ Begin(c, "backup", "mnemonic", GetStoredKeyPair)
  /\ CacheKeyPair /\ token' = TRUE
  /\ UNCHANGED <<ring, pub, mailbox, flags, syncs>>

\* What goes to the vault is the key of the call and the mnemonic of the ring.
StoreVault(c) ==
  /\ call[c].at = "mnemonic"
  /\ End(c)
  /\ UNCHANGED <<keys, hub, flags, health, looping, syncs, down, history>>

-------------------------------------------------------------------------------
(* Shutdown of the client by the app *)

\* The send on shuttingDown waits for the loop to be in its select.
Shutdown ==
  /\ down = "up" /\ loop = "select"
  /\ loop' = "ended" /\ down' = "close"
  /\ UNCHANGED <<keys, hub, flags, health, healthcheckMutex, loopKey, syncs, call,
                 history>>

\* Closing keypairDeleted fails whoever is sending on it; closing onHealthy
\* releases its waiter.  An error of Close of a client returns before the
\* synchronizer is shut down.
CloseChannels ==
  /\ down = "close"
  /\ isInitialized' = FALSE /\ isSyncInitialized' = FALSE
  /\ initKey' = None
  /\ UNCHANGED isConnectedToHub
  /\ waiter' = "idle"
  /\ \/ /\ UNCHANGED syncs
        /\ down' = IF \E c \in Caller : call[c].at = "send" THEN "panic" ELSE "done"
     \/ /\ StopSync
        /\ down' = IF sync \in running /\ \A c \in Caller : call[c].at # "send"
                   THEN "done" ELSE "panic"
  /\ UNCHANGED <<keys, hub, failedHealthchecks, looping, call, restored>>

-------------------------------------------------------------------------------
Init ==
  /\ KeychainInit /\ mailbox = TRUE
  /\ isInitialized = FALSE /\ isSyncInitialized = FALSE
  /\ isConnectedToHub = FALSE
  /\ failedHealthchecks = 0 /\ healthcheckMutex = None
  /\ loop = "lock" /\ loopKey = None
  /\ sync = 0 /\ running = {}
  /\ call = [c \in Caller |-> Idle]
  /\ waiter = "idle" /\ down = "up"
  /\ initKey = None /\ restored = FALSE

Alive == down # "panic"

Loop ==
  \/ Wake \/ BeginHealthcheck \/ BeginInitialize
  \/ InitializeSucceeds \/ InitializeFails \/ NoKeyForHub
  \/ GetTokensWithCache \/ getTokensThroughChallenge \/ Connect \/ HubFails
  \/ EndHealthcheck

Starts(c) ==
  \/ DeleteKeypairCall(c) \/ DeleteAccount(c) \/ BackupKeys(c)
  \/ \E k \in Key : RestoreKeyPair(c, k)
                    \/ \E f \in BOOLEAN : GenerateKeyPair(c, k, f)

Steps(c) ==
  \/ StoreRing(c) \/ StorePub(c) \/ CacheKey(c)
  \/ LockForRestore(c) \/ RestoreSucceeds(c) \/ RestoreFails(c) \/ UndoRestore(c)
  \/ StopBackgroundJobs(c) \/ ClearTokens(c) \/ ClearFlags(c)
  \/ SendKeypairDeleted(c) \/ DeleteMetathread(c) \/ RemoveKey(c) \/ DropStore(c)
  \/ StoreVault(c) \/ CallFails(c)

Ends == Shutdown \/ CloseChannels

Expire ==
  ExpireTokens /\ UNCHANGED <<mailbox, flags, health, looping, syncs, call, down, history>>

LoopStep == Alive /\ Loop
CallStep == Alive /\ \E c \in Caller : Steps(c)
EndStep == Alive /\ Ends
Others == Alive /\ (Expire \/ waitForTextileHub \/ \E c \in Caller : Starts(c))

Next == LoopStep \/ CallStep \/ EndStep \/ Others

Spec == Init /\ [][Next]_vars

-------------------------------------------------------------------------------
\* A restore that returned no error leaves the client initialized for the key
\* that was restored, whatever the health check was doing for an earlier key
\* (client.go:622-637, services_keypair.go:27-38, services_vault.go:42-101).
RestoredIsInitialized ==
  restored /\ isRunning => isInitialized /\ initKey = GetStoredKeyPair

\* Liveness: the loop goes on (its timer fires, and Go's mutex hands over to a
\* goroutine that waits), initialize returns, and what may fail at each attempt
\* (initialize, the hub) succeeds some time.  Nothing is assumed of the callers.
Fairness ==
  /\ SF_vars(LoopStep)
  /\ SF_vars(InitializeSucceeds) /\ SF_vars(getTokensThroughChallenge) /\ SF_vars(Connect)
  /\ \A c \in Caller : WF_vars(RestoreFails(c))
FairSpec == Spec /\ Fairness

\* Once the user leaves a key alone the client gets initialized and connected,
\* and does so again after every failure, whatever was removed, restored or left
\* half done before, but for the mailbox (client.go:271-304, 512-565).
LeftAlone ==
  /\ GetStoredKeyPair # None /\ down = "up" /\ mailbox
  /\ \A c \in Caller : call[c].at = "idle"
GetsHealthy == <>[]LeftAlone => []<>IsHealthy

\* Who waits for a healthy client is told, of success or of three failed checks,
\* without the help of its three-minute timeout (services.go:100-118): a send
\* that does not block reaches it.
HubWaiterIsAnswered == waiter = "wait" ~> waiter = "idle" \/ down # "up"

-------------------------------------------------------------------------------
(* What comments of the code say and the code does not do; TLC refutes each. *)

\* "setup mailbox" (client.go:309): a removal of the keys that fails after it has
\* removed the mailbox's directory leaves the flag that it is there, and no
\* health check connects to the hub any more, whatever key there is.
MailboxIsThere == (\A c \in Caller : call[c].at = "idle") => mailbox

NoCall == \A c \in Caller : call[c].at = "idle"

\* "Returns the public key currently in use" (keychain.go:166): a crash or an
\* error between the two steps of storeKeyPair leaves the store with another
\* public key than that of the private key.
PublicKeyIsInUse ==
  NoCall /\ GetStoredPublicKey # None => GetStoredPublicKey = GetStoredKeyPair

\* "securely store the current keypair" (services_vault.go:104): the private key
\* and the mnemonic that go to the vault are of two keys when storing a key has
\* failed between its steps.
BackupPairs ==
  \A c \in Caller : call[c].op = "backup" => ring \in {None, call[c].key}

\* "Tell the textile client to stop operations" (services_keypair.go:85): the
\* health check that RemoveKeys wakes may still find the key and initialize the
\* client again, which then stays initialized for a key that is gone.
InitializedHasKey == NoCall /\ isInitialized => GetStoredKeyPair # None

\* "stop backgroundjobs" (account.go:45): a health check between DisableSync and
\* that Shutdown starts a second synchronizer; the second is shut down, and the
\* loops of the first run on.
OneSynchronizer == NoCall => running \subseteq {sync}

\* "it gets enabled again during startup" (client.go:455): DeleteAccount that is
\* tried again before that, because DeleteKeypair failed, sends to loops that
\* have ended on a channel that is closed.
NoSendOnClosed == down # "panic"

===============================================================================
