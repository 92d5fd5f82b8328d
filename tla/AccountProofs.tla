----------------------------- MODULE AccountProofs -----------------------------
(***************************************************************************)
(* Theorems about Account, for any keys, any handlers, any limit of failed *)
(* health checks and any number of synchronizers.                          *)
(***************************************************************************)
EXTENDS Account, TLAPS, FiniteSetTheorems

CallState == [at : Places, op : Ops, key : KeyOrNone]

\* A client whose loop may still start a synchronizer has room for one: each
\* DisableSync is followed by one start at most.
RoomInv ==
  /\ ~isSyncInitialized /\ loop # "ended" => Cardinality(running) < MaxSync
  /\ down \in {"close", "done"} => loop = "ended"

TypeInv == TypeOK /\ RoomInv

-------------------------------------------------------------------------------
(* The parts a step may change *)

LEMMA StoredKeyType ==
  ASSUME KeychainTypeOK
  PROVE  GetStoredPublicKey \in KeyOrNone /\ GetStoredKeyPair \in KeyOrNone
BY DEF KeychainTypeOK, GetStoredPublicKey, GetStoredKeyPair, KeyOrNone

\* None of the ways to change keys leaves anything but keys.
LEMMA KeysType ==
  ASSUME KeychainTypeOK, token' \in BOOLEAN,
         \/ UNCHANGED keys
         \/ CacheKeyPair /\ UNCHANGED <<ring, pub>>
         \/ \E k \in KeyOrNone : RingSet(k) \/ PubSet(k) \/ CacheSet(k)
         \/ \E ok \in BOOLEAN : DeleteKeypair(ok)
         \/ DropAll
  PROVE  KeychainTypeOK'
BY StoredKeyType
DEF KeychainTypeOK, keys, KeyOrNone, CacheKeyPair, RingSet, PubSet, CacheSet, DeleteKeypair,
    DropAll

LEMMA CallType ==
  ASSUME TypeOK, NEW c \in Caller
  PROVE  /\ call[c] \in CallState
         /\ \A at \in Places : To(c, at) => call' \in [Caller -> CallState]
         /\ End(c) => call' \in [Caller -> CallState]
         /\ \A at \in Places, k \in KeyOrNone :
              call' = [call EXCEPT ![c].at = at, ![c].key = k] => call' \in [Caller -> CallState]
<1>1. call \in [Caller -> CallState]
  BY DEF TypeOK, CallState
<1>2. Idle \in CallState
  BY DEF Idle, CallState, Places, Ops, KeyOrNone
<1>3. ASSUME NEW at \in Places, To(c, at)  PROVE call' \in [Caller -> CallState]
  BY <1>1, <1>3 DEF To, CallState
<1>4. ASSUME NEW at \in Places, NEW k \in KeyOrNone,
             call' = [call EXCEPT ![c].at = at, ![c].key = k]
      PROVE  call' \in [Caller -> CallState]
  BY <1>1, <1>4 DEF CallState
<1> QED  BY <1>1, <1>2, <1>3, <1>4 DEF End

\* A synchronizer is stopped, or one that is not there is started.
LEMMA RunningFacts ==
  ASSUME running \subseteq Sync
  PROVE  /\ IsFiniteSet(running) /\ Cardinality(running) \in Nat
         /\ \A s : Cardinality(running \ {s}) <= Cardinality(running)
         /\ Cardinality(running) < MaxSync => \E i \in Sync : i \notin running
<1>1. IsFiniteSet(Sync) /\ Cardinality(Sync) = MaxSync
  BY AccountAssumption, FS_Interval DEF Sync
<1>2. IsFiniteSet(running) /\ Cardinality(running) \in Nat
  BY <1>1, FS_Subset, FS_CardinalityType
<1>3. \A s : Cardinality(running \ {s}) <= Cardinality(running)
  BY <1>2, FS_Subset
<1>4. Cardinality(running) < MaxSync => running # Sync
  BY <1>1, <1>2, AccountAssumption
<1> QED  BY <1>2, <1>3, <1>4

-------------------------------------------------------------------------------
(* Type correctness *)

LEMMA InitType == Init => TypeInv
<1> SUFFICES ASSUME Init  PROVE TypeInv
  OBVIOUS
<1>1. 0 \in 0 .. Limit /\ Cardinality({}) = 0 /\ 0 < MaxSync
  BY AccountAssumption, FS_EmptySet DEF Limit
<1>2. Idle \in CallState
  BY DEF Idle, CallState, Places, Ops, KeyOrNone
<1>3. call \in [Caller -> CallState]
  BY <1>2 DEF Init
<1>4. TypeOK
  BY <1>1, <1>3 DEF Init, TypeOK, CallState, KeychainInit, KeychainTypeOK, KeyOrNone, LoopPlaces
<1> QED  BY <1>1, <1>4 DEF TypeInv, RoomInv, Init

LEMMA LoopType ==
  ASSUME TypeInv, Loop
  PROVE  TypeInv'
<1> USE DEF keys, hub, flags, health, looping, syncs, history
<1>0. TypeOK /\ RoomInv /\ KeychainTypeOK /\ call \in [Caller -> CallState]
      /\ GetStoredKeyPair \in KeyOrNone /\ None \in KeyOrNone
  BY StoredKeyType DEF TypeInv, TypeOK, CallState, KeyOrNone
<1>1. CASE BeginHealthcheck
  <2>1. /\ sync' \in Sync \cup {0} /\ running' \subseteq Sync
        /\ isSyncInitialized' = TRUE /\ UNCHANGED <<isInitialized, isConnectedToHub>>
    <3>1. CASE isSyncInitialized
      BY <1>0, <1>1, <3>1 DEF BeginHealthcheck, TypeOK
    <3>2. CASE ~isSyncInitialized
      <4>1. \E i \in Sync : i \notin running
        BY <1>0, <1>1, <3>2, RunningFacts DEF BeginHealthcheck, RoomInv, TypeOK
      <4> QED  BY <1>0, <1>1, <3>2, <4>1 DEF BeginHealthcheck, initializeSync, TypeOK
    <3> QED  BY <1>0, <3>1, <3>2 DEF TypeOK
  <2>2. loop # "ended" /\ loop' \in {"hub", "init"}
    BY <1>1 DEF BeginHealthcheck
  <2> QED
    BY <1>0, <1>1, <2>1, <2>2
    DEF BeginHealthcheck, TypeInv, TypeOK, RoomInv, KeychainTypeOK, LoopPlaces
<1>2. CASE BeginInitialize
  <2>1. KeychainTypeOK'
    BY <1>0, <1>2, KeysType DEF BeginInitialize, KeychainTypeOK
  <2> QED  BY <1>0, <1>2, <2>1 DEF BeginInitialize, TypeInv, TypeOK, RoomInv, LoopPlaces
<1>3. CASE InitializeSucceeds
  <2>1. call' \in [Caller -> CallState]
    BY <1>0, <1>3 DEF InitializeSucceeds, CallState, Waiting, Places
  <2>2. /\ isInitialized' = TRUE /\ UNCHANGED <<isSyncInitialized, isConnectedToHub, running, down>>
        /\ initKey' \in KeyOrNone /\ restored' = restored /\ loop' = "hub" /\ loop # "ended"
    BY <1>0, <1>3 DEF InitializeSucceeds, Initialized, TypeOK
  <2> QED
    BY <1>0, <1>3, <2>1, <2>2
    DEF InitializeSucceeds, TypeInv, TypeOK, CallState, RoomInv, KeychainTypeOK, LoopPlaces
<1>4. CASE Wake \/ InitializeFails \/ Connect
  BY <1>0, <1>4
  DEF Wake, InitializeFails, Connect, TypeInv, TypeOK, RoomInv, KeychainTypeOK, LoopPlaces
<1>5. CASE NoKeyForHub \/ HubFails
  BY <1>0, <1>5
  DEF NoKeyForHub, HubFails, Disconnected, TypeInv, TypeOK, RoomInv, KeychainTypeOK, LoopPlaces
<1>6. CASE GetTokensWithCache
  <2>1. KeychainTypeOK' /\ loopKey' \in KeyOrNone /\ loop' \in {"connect", "challenge"}
    BY <1>0, <1>6, KeysType DEF GetTokensWithCache, KeychainTypeOK, TypeOK
  <2> QED  BY <1>0, <1>6, <2>1 DEF GetTokensWithCache, TypeInv, TypeOK, RoomInv, LoopPlaces
<1>7. CASE getTokensThroughChallenge
  BY <1>0, <1>7
  DEF getTokensThroughChallenge, TypeInv, TypeOK, RoomInv, KeychainTypeOK, LoopPlaces
<1>8. CASE EndHealthcheck
  <2>1. failedHealthchecks' \in 0 .. Limit /\ waiter' \in {"idle", "wait"}
    BY <1>0, <1>8, AccountAssumption DEF EndHealthcheck, CountFailure, Limit, TypeOK
  <2> QED
    BY <1>0, <1>8, <2>1 DEF EndHealthcheck, TypeInv, TypeOK, RoomInv, KeychainTypeOK, LoopPlaces
<1> QED  BY <1>1, <1>2, <1>3, <1>4, <1>5, <1>6, <1>7, <1>8 DEF Loop

LEMMA PlaceNames ==
  Places = {"idle", "ring", "pub", "cache", "lock", "init", "undo", "stop", "wait",
            "clear", "flags", "send", "db", "remove", "drop", "mnemonic"}
BY DEF Places

LEMMA StartType ==
  ASSUME TypeInv, NEW c \in Caller, Starts(c)
  PROVE  TypeInv'
<1> USE DEF keys, hub, flags, health, looping, syncs, history
<1>0. TypeOK /\ RoomInv /\ KeychainTypeOK /\ call \in [Caller -> CallState]
      /\ GetStoredKeyPair \in KeyOrNone /\ None \in KeyOrNone /\ Key \subseteq KeyOrNone
  BY StoredKeyType DEF TypeInv, TypeOK, CallState, KeyOrNone
<1>1. ASSUME NEW op \in Ops, NEW at \in Places, NEW k \in KeyOrNone, Begin(c, op, at, k)
      PROVE  /\ call' \in [Caller -> CallState] /\ restored' \in BOOLEAN /\ initKey' \in KeyOrNone
             /\ UNCHANGED <<failedHealthchecks, waiter, healthcheckMutex, loop, loopKey, down>>
  <2>1. [at |-> at, op |-> op, key |-> k] \in CallState
    BY DEF CallState
  <2> QED  BY <1>0, <1>1, <2>1 DEF Begin
<1>2. AfterInit \in Places /\ {"ring", "stop", "mnemonic"} \subseteq Places
      /\ {"generate", "restore", "delete", "backup"} \subseteq Ops
  BY DEF AfterInit, Places, Ops
<1>3. ASSUME NEW k \in Key, RestoreKeyPair(c, k) \/ \E f \in BOOLEAN : GenerateKeyPair(c, k, f)
      PROVE  TypeInv'
  <2>1. Begin(c, "restore", "ring", k) \/ Begin(c, "generate", "ring", k)
    BY <1>3 DEF RestoreKeyPair, GenerateKeyPair
  <2>2. UNCHANGED <<keys, hub, flags, syncs>>
    BY <1>3 DEF RestoreKeyPair, GenerateKeyPair
  <2>3. /\ call' \in [Caller -> CallState] /\ restored' \in BOOLEAN /\ initKey' \in KeyOrNone
        /\ UNCHANGED <<failedHealthchecks, waiter, healthcheckMutex, loop, loopKey, down>>
    BY <1>0, <1>1, <1>2, <2>1
  <2> QED  BY <1>0, <2>2, <2>3 DEF TypeInv, TypeOK, CallState, RoomInv, KeychainTypeOK
<1>4. CASE DeleteKeypairCall(c)
  <2>1. /\ call' \in [Caller -> CallState] /\ restored' \in BOOLEAN /\ initKey' \in KeyOrNone
        /\ UNCHANGED <<failedHealthchecks, waiter, healthcheckMutex, loop, loopKey, down>>
    BY <1>0, <1>1, <1>2, <1>4 DEF DeleteKeypairCall
  <2> QED
    BY <1>0, <1>4, <2>1 DEF DeleteKeypairCall, TypeInv, TypeOK, CallState, RoomInv, KeychainTypeOK
<1>5. CASE DeleteAccount(c)
  <2>1. /\ call' \in [Caller -> CallState] /\ restored' \in BOOLEAN /\ initKey' \in KeyOrNone
        /\ UNCHANGED <<failedHealthchecks, waiter, healthcheckMutex, loop, loopKey, down>>
    BY <1>0, <1>1, <1>2, <1>5 DEF DeleteAccount
  <2> QED
    BY <1>0, <1>5, <2>1 DEF DeleteAccount, TypeInv, TypeOK, CallState, RoomInv, KeychainTypeOK
<1>6. CASE BackupKeys(c)
  <2>1. /\ call' \in [Caller -> CallState] /\ restored' \in BOOLEAN /\ initKey' \in KeyOrNone
        /\ UNCHANGED <<failedHealthchecks, waiter, healthcheckMutex, loop, loopKey, down>>
    BY <1>0, <1>1, <1>2, <1>6 DEF BackupKeys
  <2>2. KeychainTypeOK'
    BY <1>0, <1>6, KeysType DEF BackupKeys, KeychainTypeOK
  <2> QED  BY <1>0, <1>6, <2>1, <2>2 DEF BackupKeys, TypeInv, TypeOK, CallState, RoomInv
<1> QED  BY <1>3, <1>4, <1>5, <1>6 DEF Starts

\* The steps that store, restore and back up a key.
LEMMA StoreType ==
  ASSUME TypeInv, NEW c \in Caller,
         \/ StoreRing(c) \/ StorePub(c) \/ CacheKey(c) \/ StoreVault(c)
         \/ LockForRestore(c) \/ RestoreSucceeds(c) \/ RestoreFails(c) \/ UndoRestore(c)
  PROVE  TypeInv'
<1> USE PlaceNames, CallType DEF keys, hub, flags, health, looping, syncs, history
<1>0. TypeOK /\ RoomInv /\ KeychainTypeOK /\ call \in [Caller -> CallState]
      /\ GetStoredKeyPair \in KeyOrNone /\ None \in KeyOrNone
      /\ call[c] \in CallState /\ call[c].key \in KeyOrNone
  BY StoredKeyType DEF TypeInv, TypeOK, CallState, KeyOrNone
<1>1. CASE StoreRing(c) \/ StorePub(c) \/ StoreVault(c)
  <2>1. KeychainTypeOK' /\ call' \in [Caller -> CallState]
    BY <1>0, <1>1, KeysType DEF StoreRing, StorePub, StoreVault, KeychainTypeOK
  <2> QED
    BY <1>0, <1>1, <2>1 DEF StoreRing, StorePub, StoreVault, TypeInv, TypeOK, CallState, RoomInv
<1>2. CASE CacheKey(c)
  <2>1. KeychainTypeOK' /\ call' \in [Caller -> CallState]
    BY <1>0, <1>2, KeysType DEF CacheKey, KeychainTypeOK
  <2> QED  BY <1>0, <1>2, <2>1 DEF CacheKey, TypeInv, TypeOK, CallState, RoomInv
<1>3. CASE LockForRestore(c)
  <2>1. KeychainTypeOK' /\ call' \in [Caller -> CallState]
    BY <1>0, <1>3, KeysType DEF LockForRestore, KeychainTypeOK
  <2> QED  BY <1>0, <1>3, <2>1 DEF LockForRestore, TypeInv, TypeOK, CallState, RoomInv
<1>4. CASE RestoreSucceeds(c)
  <2>1. call' \in [Caller -> CallState]
    <3>1. CASE Waiting = {}
      BY <1>0, <1>4, <3>1 DEF RestoreSucceeds
    <3>2. CASE Waiting # {}
      <4>1. Idle \in CallState /\ "clear" \in Places
        BY DEF Idle, CallState, Ops, KeyOrNone
      <4>2. PICK d \in Caller : call' = [call EXCEPT ![c] = Idle, ![d].at = "clear"]
        BY <1>4, <3>2 DEF RestoreSucceeds, Waiting
      <4>3. call' = [[call EXCEPT ![c] = Idle] EXCEPT ![d].at = "clear"]
        BY <4>2
      <4>4. [call EXCEPT ![c] = Idle] \in [Caller -> CallState]
        BY <1>0, <4>1
      <4> QED  BY <4>1, <4>3, <4>4 DEF CallState
    <3> QED  BY <3>1, <3>2
  <2>2. /\ restored' \in BOOLEAN /\ initKey' \in KeyOrNone /\ isInitialized' \in BOOLEAN
        /\ UNCHANGED <<isSyncInitialized, isConnectedToHub>>
        /\ healthcheckMutex' \in {None, healthcheckMutex}
    BY <1>0, <1>4 DEF RestoreSucceeds, Initialized, Unlock
  <2> QED
    BY <1>0, <1>4, <2>1, <2>2
    DEF RestoreSucceeds, TypeInv, TypeOK, CallState, RoomInv, KeychainTypeOK
<1>5. CASE RestoreFails(c)
  <2>1. KeychainTypeOK' /\ call' \in [Caller -> CallState]
    BY <1>0, <1>5, KeysType DEF RestoreFails, KeychainTypeOK
  <2> QED  BY <1>0, <1>5, <2>1 DEF RestoreFails, Unlock, TypeInv, TypeOK, CallState, RoomInv
<1>6. CASE UndoRestore(c)
  <2>1. KeychainTypeOK' /\ call' \in [Caller -> CallState]
    BY <1>0, <1>6, KeysType DEF UndoRestore, KeychainTypeOK
  <2> QED  BY <1>0, <1>6, <2>1 DEF UndoRestore, TypeInv, TypeOK, CallState, RoomInv
<1> QED  BY <1>1, <1>2, <1>3, <1>4, <1>5, <1>6

\* The steps that remove one, and those that fail.
LEMMA RemoveType ==
  ASSUME TypeInv, NEW c \in Caller,
         \/ StopBackgroundJobs(c) \/ ClearTokens(c) \/ ClearFlags(c) \/ SendKeypairDeleted(c)
         \/ DeleteMetathread(c) \/ RemoveKey(c) \/ DropStore(c) \/ CallFails(c)
  PROVE  TypeInv'
<1> USE PlaceNames, CallType DEF keys, hub, flags, health, looping, syncs, history
<1>0. TypeOK /\ RoomInv /\ KeychainTypeOK /\ call \in [Caller -> CallState]
      /\ None \in KeyOrNone /\ running \subseteq Sync /\ AfterInit \in Places
  BY DEF TypeInv, TypeOK, CallState, KeyOrNone, AfterInit
<1>1. CASE StopBackgroundJobs(c)
  <2>1. call' \in [Caller -> CallState] /\ down' \in {down, "panic"} /\ UNCHANGED sync
        /\ running' = running \ {sync}
    BY <1>0, <1>1 DEF StopBackgroundJobs, StopSync
  <2>2. Cardinality(running') <= Cardinality(running) /\ MaxSync \in Nat
        /\ Cardinality(running) \in Nat /\ Cardinality(running') \in Nat
    <3>1. IsFiniteSet(running) /\ running' \subseteq running
      BY <1>0, <2>1, RunningFacts
    <3>2. IsFiniteSet(running') /\ Cardinality(running') <= Cardinality(running)
      BY <3>1, FS_Subset
    <3> QED  BY <3>1, <3>2, AccountAssumption, FS_CardinalityType
  <2>3. RoomInv'
    BY <1>0, <1>1, <2>1, <2>2 DEF StopBackgroundJobs, RoomInv
  <2>4. TypeOK'
    BY <1>0, <1>1, <2>1 DEF StopBackgroundJobs, TypeOK, CallState, KeychainTypeOK
  <2> QED  BY <2>3, <2>4 DEF TypeInv
<1>2. CASE ClearTokens(c)
  <2>1. KeychainTypeOK' /\ call' \in [Caller -> CallState] /\ mailbox' \in BOOLEAN
    BY <1>0, <1>2 DEF ClearTokens, KeychainTypeOK, TypeOK
  <2> QED  BY <1>0, <1>2, <2>1 DEF ClearTokens, TypeInv, TypeOK, CallState, RoomInv
<1>3. CASE ClearFlags(c)
  BY <1>0, <1>3 DEF ClearFlags, TypeInv, TypeOK, CallState, RoomInv, KeychainTypeOK
<1>4. CASE SendKeypairDeleted(c)
  <2>1. /\ call' \in [Caller -> CallState] /\ loop' \in LoopPlaces
        /\ \/ loop = "select" /\ loop' = "lock" /\ UNCHANGED down
           \/ down' = "panic" /\ UNCHANGED loop
    BY <1>0, <1>4 DEF SendKeypairDeleted, TypeOK, LoopPlaces
  <2> QED
    BY <1>0, <1>4, <2>1
    DEF SendKeypairDeleted, TypeInv, TypeOK, CallState, RoomInv, KeychainTypeOK
<1>5. CASE DeleteMetathread(c)
  <2>1. KeychainTypeOK' /\ call' \in [Caller -> CallState]
    BY <1>0, <1>5, KeysType DEF DeleteMetathread, KeychainTypeOK
  <2> QED  BY <1>0, <1>5, <2>1 DEF DeleteMetathread, TypeInv, TypeOK, CallState, RoomInv
<1>6. CASE RemoveKey(c)
  <2>1. KeychainTypeOK' /\ call' \in [Caller -> CallState]
    BY <1>0, <1>6, KeysType DEF RemoveKey, KeychainTypeOK
  <2> QED  BY <1>0, <1>6, <2>1 DEF RemoveKey, TypeInv, TypeOK, CallState, RoomInv
<1>7. CASE DropStore(c)
  <2>1. KeychainTypeOK' /\ call' \in [Caller -> CallState]
    BY <1>0, <1>7, KeysType DEF DropStore, DropAll
  <2> QED  BY <1>0, <1>7, <2>1 DEF DropStore, TypeInv, TypeOK, CallState, RoomInv
<1>8. CASE CallFails(c)
  <2>1. call' \in [Caller -> CallState]
    BY <1>0, <1>8 DEF CallFails
  <2>2. UNCHANGED <<keys, hub, flags, health, looping, syncs, down, history>>
    BY <1>8 DEF CallFails
  <2>3. RoomInv' /\ KeychainTypeOK'
    BY <1>0, <2>2 DEF RoomInv, KeychainTypeOK
  <2> QED  BY <1>0, <2>1, <2>2, <2>3 DEF TypeInv, TypeOK, CallState
<1> QED  BY <1>1, <1>2, <1>3, <1>4, <1>5, <1>6, <1>7, <1>8

LEMMA EndType ==
  ASSUME TypeInv, Shutdown \/ CloseChannels \/ Expire \/ waitForTextileHub
  PROVE  TypeInv'
<1> USE DEF keys, hub, flags, health, looping, syncs, history
<1>0. TypeOK /\ RoomInv /\ KeychainTypeOK
  BY DEF TypeInv, TypeOK
<1>1. CASE Shutdown
  BY <1>0, <1>1 DEF Shutdown, TypeInv, TypeOK, RoomInv, LoopPlaces, KeychainTypeOK
<1>2. CASE CloseChannels
  <2>1. /\ down' \in {"done", "panic"} /\ loop' = loop /\ loop = "ended"
        /\ sync' = sync /\ running' \in {running, running \ {sync}}
        /\ isInitialized' = FALSE /\ isSyncInitialized' = FALSE
    BY <1>0, <1>2 DEF CloseChannels, StopSync, RoomInv
  <2>2. /\ UNCHANGED <<ring, pub, privKey, token, mailbox, failedHealthchecks, healthcheckMutex,
                       loopKey, call, restored, isConnectedToHub>>
        /\ waiter' = "idle" /\ initKey' = None
    BY <1>2 DEF CloseChannels
  <2>3. KeychainTypeOK' /\ initKey' \in KeyOrNone /\ running' \subseteq Sync
    BY <1>0, <2>1, <2>2 DEF TypeOK, KeychainTypeOK, KeyOrNone
  <2>4. TypeOK'
    BY <1>0, <2>1, <2>2, <2>3 DEF TypeOK
  <2>5. RoomInv'
    BY <2>1 DEF RoomInv
  <2> QED  BY <2>4, <2>5 DEF TypeInv
<1>3. CASE Expire \/ waitForTextileHub
  BY <1>0, <1>3
  DEF Expire, ExpireTokens, waitForTextileHub, TypeInv, TypeOK, RoomInv, KeychainTypeOK
<1> QED  BY <1>1, <1>2, <1>3

LEMMA NextType == TypeInv /\ [Next]_vars => TypeInv'
<1> SUFFICES ASSUME TypeInv, [Next]_vars  PROVE TypeInv'
  OBVIOUS
<1>1. CASE UNCHANGED vars
  BY <1>1
  DEF vars, keys, hub, flags, health, looping, syncs, history, TypeInv, TypeOK, RoomInv,
      KeychainTypeOK
<1>2. CASE CallStep
  BY <1>2, StoreType, RemoveType DEF CallStep, Steps
<1>3. CASE LoopStep \/ EndStep \/ Others
  BY <1>3, LoopType, EndType, StartType DEF LoopStep, EndStep, Ends, Others
<1> QED  BY <1>1, <1>2, <1>3 DEF Next

-------------------------------------------------------------------------------
(* A restore: between the lock and the result the stored key stays what      *)
(* RestoreDB has read, and afterwards no health check initializes the client *)
(* for another one, as long as no second handler is at work                  *)

OneAtATime ==
  \A c, d \in Caller : call[c].at # "idle" /\ call[d].at # "idle" => c = d

Checking == {"init", "initializing", "hub", "challenge", "connect", "count"}

RestoreInv ==
  /\ TypeInv
  /\ loop \in Checking <=> healthcheckMutex = "loop"
  /\ \A c \in Caller : call[c].at = "init" =>
       healthcheckMutex = c /\ call[c].key = GetStoredKeyPair
  /\ restored => \A c \in Caller : call[c].at = "idle"
  /\ restored /\ isRunning =>
       /\ isInitialized /\ initKey = GetStoredKeyPair
       /\ loop \notin {"init", "initializing"}

\* Filling the cache does not change what it is filled with.
LEMMA CacheKeepsKey ==
  ASSUME CacheKeyPair, UNCHANGED <<ring, pub>>
  PROVE  GetStoredKeyPair' = GetStoredKeyPair
BY DEF CacheKeyPair, GetStoredKeyPair, GetStoredPublicKey

LEMMA SameKeepsKey ==
  ASSUME UNCHANGED <<ring, pub, privKey>>  PROVE GetStoredKeyPair' = GetStoredKeyPair
BY DEF GetStoredKeyPair, GetStoredPublicKey

\* The loop changes no key, takes the lock for as long as it checks, and finds a
\* client that was restored initialized.
LEMMA LoopKeepsRestoreInv ==
  ASSUME RestoreInv, Loop
  PROVE  RestoreInv'
<1> USE DEF keys, hub, flags, health, looping, syncs, history
<1>0. TypeInv' /\ TypeOK /\ call \in [Caller -> CallState]
      /\ \A c \in Caller : c # "loop" /\ c # None
  BY LoopType, AccountAssumption DEF RestoreInv, TypeInv, TypeOK, CallState
<1>1. GetStoredKeyPair' = GetStoredKeyPair /\ UNCHANGED <<down, restored>>
  BY CacheKeepsKey, SameKeepsKey
  DEF Loop, Wake, BeginHealthcheck, BeginInitialize, InitializeSucceeds, InitializeFails,
      NoKeyForHub, GetTokensWithCache, getTokensThroughChallenge, Connect, HubFails,
      EndHealthcheck
<1>2. CASE BeginHealthcheck
  <2>1. /\ healthcheckMutex = None /\ healthcheckMutex' = "loop" /\ UNCHANGED <<call, initKey>>
        /\ loop' = IF isInitialized THEN "hub" ELSE "init"
        /\ isInitialized' = isInitialized
    BY <1>2 DEF BeginHealthcheck, initializeSync
  <2> QED  BY <1>0, <1>1, <2>1 DEF RestoreInv, Checking, isRunning
<1>3. CASE InitializeSucceeds
  <2>1. /\ loop = "initializing" /\ loop' = "hub" /\ UNCHANGED healthcheckMutex
    BY <1>3 DEF InitializeSucceeds
  <2>2. \A c \in Caller : call'[c].at = "init" => call'[c] = call[c]
    <3>1. CASE Waiting = {}
      BY <1>3, <3>1 DEF InitializeSucceeds
    <3>2. CASE Waiting # {}
      <4>1. PICK d \in Caller : call' = [call EXCEPT ![d].at = "clear"]
        BY <1>3, <3>2 DEF InitializeSucceeds, Waiting
      <4> QED  BY <1>0, <4>1 DEF CallState
    <3> QED  BY <3>1, <3>2
  <2>3. ~restored \/ ~isRunning
    BY <2>1 DEF RestoreInv
  <2>4. restored => \A c \in Caller : call'[c].at = "idle"
    <3>1. restored => Waiting = {}
      BY DEF RestoreInv, Waiting
    <3> QED  BY <1>3, <3>1 DEF InitializeSucceeds, RestoreInv
  <2> QED
    BY <1>0, <1>1, <2>1, <2>2, <2>3, <2>4 DEF RestoreInv, Checking, isRunning
<1>4. CASE Wake \/ BeginInitialize \/ InitializeFails
  <2>1. UNCHANGED <<call, initKey, isInitialized, healthcheckMutex>>
    BY <1>4 DEF Wake, BeginInitialize, InitializeFails
  <2>2. \/ loop = "select" /\ loop' = "lock"
        \/ loop = "init" /\ loop' \in {"hub", "initializing"}
        \/ loop = "initializing" /\ loop' = "hub"
    BY <1>4 DEF Wake, BeginInitialize, InitializeFails
  <2> QED  BY <1>0, <1>1, <2>1, <2>2 DEF RestoreInv, Checking, isRunning
<1>5. CASE NoKeyForHub \/ GetTokensWithCache \/ getTokensThroughChallenge \/ Connect \/ HubFails
  <2>1. UNCHANGED <<call, initKey, isInitialized, healthcheckMutex>>
    BY <1>5
    DEF NoKeyForHub, GetTokensWithCache, getTokensThroughChallenge, Connect, HubFails,
        Disconnected
  <2>2. /\ loop \in {"hub", "challenge", "connect"}
        /\ loop' \in {"challenge", "connect", "count"}
    BY <1>5
    DEF NoKeyForHub, GetTokensWithCache, getTokensThroughChallenge, Connect, HubFails,
        Disconnected
  <2> QED  BY <1>0, <1>1, <2>1, <2>2 DEF RestoreInv, Checking, isRunning
<1>6. CASE EndHealthcheck
  <2>1. /\ UNCHANGED <<call, initKey, isInitialized>> /\ healthcheckMutex' = None
        /\ loop = "count" /\ loop' = "select"
    BY <1>6 DEF EndHealthcheck
  <2> QED  BY <1>0, <1>1, <2>1, AccountAssumption DEF RestoreInv, Checking, isRunning
<1> QED  BY <1>2, <1>3, <1>4, <1>5, <1>6 DEF Loop

\* A call of another handler is not at work while one is.
LEMMA StartKeepsRestoreInv ==
  ASSUME RestoreInv, OneAtATime', NEW c \in Caller, Starts(c)
  PROVE  RestoreInv'
<1> USE DEF keys, hub, flags, health, looping, syncs, history
<1>0. TypeInv' /\ call \in [Caller -> CallState]
  BY StartType DEF RestoreInv, TypeInv, TypeOK, CallState
<1>1. PICK op \in Ops, at \in Places \ {"idle", "init"}, k \in KeyOrNone : Begin(c, op, at, k)
  BY StoredKeyType
  DEF RestoreInv, TypeInv, TypeOK, KeyOrNone, Starts, DeleteKeypairCall, DeleteAccount, BackupKeys,
      RestoreKeyPair, GenerateKeyPair, AfterInit, Places, Ops
<1>2. /\ call' = [call EXCEPT ![c] = [at |-> at, op |-> op, key |-> k]]
      /\ restored' = FALSE /\ UNCHANGED <<healthcheckMutex, loop>>
  BY <1>1 DEF Begin
<1>3. call'[c].at \notin {"idle", "init"}
  BY <1>0, <1>1, <1>2
<1>4. \A d \in Caller : call'[d].at # "init"
  BY <1>3 DEF OneAtATime
<1> QED  BY <1>0, <1>2, <1>4 DEF RestoreInv, Checking

\* Where the handler at work is neither before nor after this step under the
\* lock, nothing it does is relied on.
LEMMA OtherCallKeepsRestoreInv ==
  ASSUME RestoreInv, TypeInv', OneAtATime, NEW c \in Caller, call[c].at \notin {"idle", "init"},
         restored' = restored,
         healthcheckMutex' = healthcheckMutex,
         \/ loop' = loop
         \/ loop = "select" /\ loop' = "lock",
         \A d \in Caller : d # c => call'[d] = call[d],
         call'[c].at # "init"
  PROVE  RestoreInv'
<1>1. \A d \in Caller : d # c => call[d].at = "idle"
  BY DEF OneAtATime
<1>2. \A d \in Caller : call'[d].at # "init"
  BY <1>1
<1>3. ~restored
  BY DEF RestoreInv
<1> QED  BY <1>2, <1>3 DEF RestoreInv, Checking

LEMMA StepKeepsRestoreInv ==
  ASSUME RestoreInv, OneAtATime, NEW c \in Caller, Steps(c)
  PROVE  RestoreInv'
<1> USE DEF keys, hub, flags, health, looping, syncs, history
<1>0. TypeInv' /\ call \in [Caller -> CallState] /\ healthcheckMutex \in Caller \cup {None, "loop"}
      /\ c # "loop" /\ c # None /\ None # "loop"
  BY StoreType, RemoveType, AccountAssumption DEF RestoreInv, TypeInv, TypeOK, CallState, Steps
<1>1. call[c].at # "idle" /\ \A d \in Caller : d # c => call[d].at = "idle"
  BY DEF OneAtATime, Steps, StoreRing, StorePub, CacheKey, LockForRestore, RestoreSucceeds,
         RestoreFails, UndoRestore, StopBackgroundJobs, ClearTokens, ClearFlags,
         SendKeypairDeleted, DeleteMetathread, RemoveKey, DropStore, StoreVault, CallFails
<1>2. CASE LockForRestore(c)
  <2>1. /\ healthcheckMutex = None /\ healthcheckMutex' = c /\ UNCHANGED <<loop, restored>>
        /\ call' = [call EXCEPT ![c].at = "init", ![c].key = GetStoredKeyPair]
        /\ GetStoredKeyPair' = GetStoredKeyPair
    BY <1>2, CacheKeepsKey DEF LockForRestore
  <2>2. /\ call'[c].key = GetStoredKeyPair /\ \A d \in Caller : d # c => call'[d].at = "idle"
    BY <1>0, <1>1, <2>1 DEF CallState
  <2>3. ~restored
    BY <1>1 DEF RestoreInv
  <2> QED  BY <1>0, <2>1, <2>2, <2>3 DEF RestoreInv, Checking
<1>3. CASE RestoreSucceeds(c)
  <2>1. healthcheckMutex = c /\ call[c].key = GetStoredKeyPair /\ call[c].at = "init"
    BY <1>3 DEF RestoreSucceeds, RestoreInv
  <2>2. Waiting = {}
    BY <1>1, <2>1 DEF Waiting
  <2>3. /\ isInitialized' = TRUE /\ initKey' = call[c].key /\ UNCHANGED <<loop, down>>
        /\ GetStoredKeyPair' = GetStoredKeyPair /\ End(c) /\ healthcheckMutex' = None
    BY <1>3, <2>1, <2>2, SameKeepsKey DEF RestoreSucceeds, Initialized, Unlock
  <2>4. \A d \in Caller : call'[d].at = "idle"
    BY <1>0, <1>1, <2>3 DEF End, Idle
  <2>5. loop \notin Checking
    BY <1>0, <2>1 DEF RestoreInv
  <2> QED  BY <1>0, <2>1, <2>3, <2>4, <2>5 DEF RestoreInv, Checking
<1>4. CASE RestoreFails(c)
  <2>1. healthcheckMutex = c /\ call[c].at = "init" /\ ~restored
    BY <1>1, <1>4 DEF RestoreFails, RestoreInv
  <2>2. /\ healthcheckMutex' = None /\ UNCHANGED <<loop, restored>>
        /\ call' = [call EXCEPT ![c].at = "undo", ![c].key = None]
    BY <1>4, <2>1 DEF RestoreFails, Unlock
  <2>3. \A d \in Caller : call'[d].at # "init"
    BY <1>0, <1>1, <2>2 DEF CallState
  <2> QED  BY <1>0, <2>1, <2>2, <2>3 DEF RestoreInv
<1>5. CASE \/ StoreRing(c) \/ StorePub(c) \/ CacheKey(c) \/ UndoRestore(c) \/ StoreVault(c)
           \/ StopBackgroundJobs(c) \/ ClearTokens(c) \/ ClearFlags(c)
           \/ SendKeypairDeleted(c) \/ DeleteMetathread(c) \/ RemoveKey(c) \/ DropStore(c)
           \/ CallFails(c)
  <2>1. /\ call[c].at # "init" /\ UNCHANGED <<restored, healthcheckMutex>>
        /\ \/ loop' = loop
           \/ loop = "select" /\ loop' = "lock"
    BY <1>5
    DEF StoreRing, StorePub, CacheKey, UndoRestore, StoreVault, StopBackgroundJobs, ClearTokens,
        ClearFlags, SendKeypairDeleted, DeleteMetathread, RemoveKey, DropStore, CallFails
  <2>2. \/ UNCHANGED call \/ End(c)
        \/ \E at \in {"pub", "cache", "flags", "send", "db", "remove", "drop", "clear", "wait"} :
             To(c, at)
        \/ call' = [call EXCEPT ![c].at = "lock", ![c].key = None]
    BY <1>5
    DEF StoreRing, StorePub, CacheKey, UndoRestore, StoreVault, StopBackgroundJobs, ClearTokens,
        ClearFlags, SendKeypairDeleted, DeleteMetathread, RemoveKey, DropStore, CallFails,
        AfterInit
  <2>3. call'[c].at # "init" /\ \A d \in Caller : d # c => call'[d] = call[d]
    BY <1>0, <2>1, <2>2 DEF End, To, Idle, CallState
  <2> QED  BY <1>0, <1>1, <2>1, <2>3, OtherCallKeepsRestoreInv
<1> QED  BY <1>2, <1>3, <1>4, <1>5 DEF Steps

LEMMA EndKeepsRestoreInv ==
  ASSUME RestoreInv, Shutdown \/ CloseChannels \/ Expire \/ waitForTextileHub
  PROVE  RestoreInv'
<1> USE DEF keys, hub, flags, health, looping, syncs, history
<1>0. TypeInv' /\ UNCHANGED <<call, restored, healthcheckMutex>>
      /\ GetStoredKeyPair' = GetStoredKeyPair
  BY EndType, SameKeepsKey
  DEF RestoreInv, Shutdown, CloseChannels, Expire, ExpireTokens, waitForTextileHub
<1>1. CASE Shutdown
  BY <1>0, <1>1 DEF Shutdown, RestoreInv, Checking, isRunning
<1>2. CASE CloseChannels
  <2>1. down' \in {"done", "panic"} /\ loop' = loop
    BY <1>2 DEF CloseChannels
  <2> QED  BY <1>0, <2>1 DEF RestoreInv, Checking, isRunning
<1>3. CASE Expire \/ waitForTextileHub
  BY <1>0, <1>3 DEF Expire, waitForTextileHub, RestoreInv, Checking, isRunning
<1> QED  BY <1>1, <1>2, <1>3

LEMMA InitRestoreInv == Init => RestoreInv
BY InitType, AccountAssumption DEF Init, RestoreInv, Checking, Idle

LEMMA NextRestoreInv ==
  RestoreInv /\ [Next]_vars /\ OneAtATime /\ OneAtATime' => RestoreInv'
<1> SUFFICES ASSUME RestoreInv, [Next]_vars, OneAtATime, OneAtATime'  PROVE RestoreInv'
  OBVIOUS
<1>1. CASE UNCHANGED vars
  <2>1. TypeInv'
    BY NextType DEF RestoreInv
  <2> QED
    BY <1>1, <2>1, SameKeepsKey
    DEF vars, keys, hub, flags, health, looping, syncs, history, RestoreInv, Checking, isRunning
<1>2. CASE LoopStep
  BY <1>2, LoopKeepsRestoreInv DEF LoopStep
<1>3. CASE CallStep
  BY <1>3, StepKeepsRestoreInv DEF CallStep
<1>4. CASE EndStep \/ Others
  BY <1>4, EndKeepsRestoreInv, StartKeepsRestoreInv DEF EndStep, Ends, Others
<1> QED  BY <1>1, <1>2, <1>3, <1>4 DEF Next

-------------------------------------------------------------------------------
\* Every flag, key, count and place stays in its type over all calls, failures
\* and health checks; in particular a health check that has to start a
\* synchronizer finds a number for it (client.go:429-470, 512-565).
THEOREM AccountTypeCorrect == Spec => []TypeOK
<1>1. TypeInv => TypeOK
  BY DEF TypeInv
<1> QED  BY <1>1, InitType, NextType, PTL DEF Spec

\* A restore that returned no error has left the client initialized for the key
\* it restored, until the next call, if no two key operations overlap: the lock
\* of the health check is enough for that (client.go:622-637).
THEOREM RestoredStaysInitialized ==
  Spec /\ []OneAtATime => []RestoredIsInitialized
<1>1. RestoreInv => RestoredIsInitialized
  BY DEF RestoreInv, RestoredIsInitialized
<1> QED  BY <1>1, InitRestoreInv, NextRestoreInv, PTL DEF Spec

===============================================================================
