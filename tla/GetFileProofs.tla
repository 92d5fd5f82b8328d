---------------------------- MODULE GetFileProofs ----------------------------
(***************************************************************************)
(* Theorems about GetFile of the secure bucket client.  PullFile: for      *)
(* every finite set of pullers, every sources among them and every set of  *)
(* faults.  FileCache: as long as nobody pushes the file while a pulled    *)
(* file is being cached, the cache is exact and every call returns what    *)
(* the bucket had during it, for any number of calls and of pushes; and    *)
(* whoever pushes whenever, a cached copy may be late but not early.       *)
(***************************************************************************)
EXTENDS PullFile, FileCache, TLAPS, FiniteSetTheorems

(* The counters: pendingFns is the number of pullers still to be counted,   *)
(* and nobody is counted twice                                              *)

Live == {p \in Puller : puller[p] # "gone"}

\* The winner of the race reports nil: counted, it is no error.
CountInv ==
  /\ TypeOK
  /\ pendingFns = Cardinality(Live)
  /\ erroredFns + pendingFns <= Cardinality(Puller)
  /\ winner # None /\ puller[winner] = "gone" =>
       erroredFns + pendingFns < Cardinality(Puller)

(* Where the race, the collector and the pullers are with respect to each   *)
(* other                                                                    *)

RaceInv ==
  /\ closed => race \in {"failed", "ended"} /\ \A p \in Puller : puller[p] # "offer"
  /\ race \in {"spawn", "wait"} => winner = None
  /\ race = "spawn" => collector = "none"
  /\ collector = "receive" => race = "wait" \/ winner # None
  /\ collector = "giveUp" => race = "wait" /\ Live = {}
  /\ winner # None => puller[winner] \in {"report", "gone"}

\* A puller that got past its copy has the whole file, and the caller that
\* waits can get nil only from a decrypter that delivered it.
FileInv ==
  /\ \A p \in Puller : puller[p] \in {"pulled", "lock", "offer"} => p \in complete
  /\ winner # None => winner \in complete
  /\ errsClosed /\ ~delivered => caller = "error"
  /\ caller = "ok" => delivered

PullInv == CountInv /\ RaceInv /\ FileInv

-------------------------------------------------------------------------------
(* The counters *)

LEMMA LiveIsFinite ==
  ASSUME NEW S, S \subseteq Puller
  PROVE  /\ IsFiniteSet(S) /\ Cardinality(S) \in Nat
         /\ Cardinality(S) <= Cardinality(Puller) /\ Cardinality(Puller) \in Nat
         /\ Cardinality(S) = 0 <=> S = {}
<1>1. IsFiniteSet(Puller) /\ S \in SUBSET Puller
  BY PullAssumption
<1> QED  BY <1>1, FS_Subset, FS_CardinalityType, FS_EmptySet

\* Every step but Count leaves each puller as counted as it was.
LEMMA CountersKept ==
  ASSUME CountInv, TypeOK', UNCHANGED <<pendingFns, erroredFns>>,
         \A p \in Puller : puller[p] = "gone" <=> puller'[p] = "gone",
         \/ UNCHANGED winner
         \/ winner = None /\ winner' \in Puller /\ puller'[winner'] # "gone"
  PROVE  CountInv'
<1>1. Live' = Live
  BY DEF Live
<1> QED  BY <1>1, PullAssumption DEF CountInv, TypeOK

\* The collector counts a puller once, as an error only if it failed.
LEMMA CountKeepsCounters ==
  ASSUME CountInv, RaceInv, NEW p \in Puller, Count(p)
  PROVE  CountInv'
<1> USE DEF CountInv
<1>1. /\ puller[p] \in {"failed", "report"} /\ puller' = [puller EXCEPT ![p] = "gone"]
      /\ pendingFns' = pendingFns - 1 /\ UNCHANGED winner
      /\ erroredFns' = IF puller[p] = "failed" THEN erroredFns + 1 ELSE erroredFns
  BY DEF Count
<1>2. Live' = Live \ {p} /\ p \in Live
  BY <1>1 DEF Live, TypeOK
<1>3. IsFiniteSet(Live) /\ Live \subseteq Puller
  BY LiveIsFinite DEF Live
<1>4. Cardinality(Live') = Cardinality(Live) - 1
  BY <1>2, <1>3, FS_RemoveElement
<1>5. Cardinality(Live') \in Nat /\ Cardinality(Puller) \in Nat
  BY <1>2, <1>3, LiveIsFinite
<1>6. erroredFns \in Nat /\ pendingFns \in Nat /\ erroredFns' \in Nat /\ pendingFns' \in Nat
  BY <1>1, <1>4, <1>5 DEF TypeOK
<1>7. /\ erroredFns' + pendingFns' <= Cardinality(Puller)
      /\ winner' # None /\ puller'[winner'] = "gone" =>
           erroredFns' + pendingFns' < Cardinality(Puller)
  <2>1. CASE puller[p] = "failed"
    <3>1. winner # p /\ (winner # None => puller'[winner] = puller[winner])
      BY <1>1, <2>1, PullAssumption DEF RaceInv, TypeOK
    <3>2. erroredFns' + pendingFns' = erroredFns + pendingFns
      BY <1>1, <1>6, <2>1
    <3> QED  BY <1>1, <1>5, <3>1, <3>2
  <2>2. CASE puller[p] # "failed"
    <3>1. erroredFns' + pendingFns' < erroredFns + pendingFns
      BY <1>1, <1>6, <2>2
    <3> QED  BY <1>5, <1>6, <3>1
  <2> QED  BY <2>1, <2>2
<1>8. pendingFns' \in 0 .. Cardinality(Puller) /\ erroredFns' \in 0 .. Cardinality(Puller)
  BY <1>5, <1>6, <1>7
<1>9. TypeOK'
  BY <1>1, <1>8 DEF TypeOK, Count, pathVars
<1> QED  BY <1>1, <1>4, <1>7, <1>9

-------------------------------------------------------------------------------
(* The pullers *)

\* What a puller does before it is counted.
LEMMA PullingType ==
  ASSUME TypeOK, NEW p \in Puller,
         Spawn(p) \/ PullFails(p) \/ PullSucceeds(p) \/ CheckContext(p)
           \/ Lock(p) \/ Offer(p)
  PROVE  TypeOK'
<1> USE DEF TypeOK
<1>1. CASE Spawn(p) \/ PullFails(p)
  BY <1>1 DEF Spawn, PullFails, pathVars
<1>2. CASE PullSucceeds(p)
  BY <1>2 DEF PullSucceeds, pathVars
<1>3. CASE CheckContext(p)
  BY <1>3 DEF CheckContext, pathVars
<1>4. CASE Lock(p)
  BY <1>4 DEF Lock, pathVars
<1>5. CASE Offer(p)
  BY <1>5 DEF Offer, pathVars
<1> QED  BY <1>1, <1>2, <1>3, <1>4, <1>5

LEMMA PullingKeepsPullInv ==
  ASSUME PullInv, NEW p \in Puller, Pulling(p)
  PROVE  PullInv'
<1> USE DEF PullInv
<1>0. /\ TypeOK /\ None \notin Puller
      /\ winner # None => winner \in Puller
  BY PullAssumption DEF CountInv, TypeOK
<1>1. CASE Spawn(p) \/ PullFails(p) \/ PullSucceeds(p) \/ CheckContext(p) \/ Lock(p)
  <2>1. /\ \E at \in {"pulling", "failed", "pulled", "lock", "offer", "report"} :
             puller' = [puller EXCEPT ![p] = at]
        /\ puller[p] \in {"none", "pulling", "pulled", "lock"}
        /\ UNCHANGED <<cancelled, closed, pendingFns, erroredFns, collector, race,
                        winner, errsClosed, delivered, caller>>
    BY <1>1 DEF Spawn, PullFails, PullSucceeds, CheckContext, Lock, pathVars
  <2>2. /\ closed => puller'[p] # "offer"
        /\ puller'[p] \in {"pulled", "lock", "offer"} => p \in complete'
        /\ complete \subseteq complete'
    BY <1>0, <1>1
    DEF Spawn, PullFails, PullSucceeds, CheckContext, Lock, FileInv, TypeOK
  <2>3. TypeOK'
    BY <1>0, <1>1, PullingType
  <2>4. CountInv'
    BY <1>0, <2>1, <2>3, CountersKept DEF TypeOK
  <2>5. Live' = Live
    BY <1>0, <2>1 DEF Live, TypeOK
  <2>6. RaceInv'
    BY <1>0, <2>1, <2>2, <2>5 DEF RaceInv, TypeOK
  <2>7. FileInv'
    BY <1>0, <2>1, <2>2 DEF FileInv, TypeOK
  <2> QED  BY <2>4, <2>6, <2>7
<1>2. CASE Offer(p)
  <2>1. TypeOK'
    BY <1>0, <1>2, PullingType
  <2>2. winner = None /\ collector # "giveUp"
    BY <1>0, <1>2 DEF RaceInv, Offer, Live
  <2>3. CountInv'
    BY <1>0, <1>2, <2>1, <2>2, CountersKept DEF Offer, TypeOK
  <2>4. RaceInv'
    BY <1>0, <1>2, <2>2 DEF RaceInv, Offer, TypeOK
  <2>5. FileInv'
    BY <1>0, <1>2 DEF FileInv, Offer, TypeOK, pathVars
  <2> QED  BY <2>3, <2>4, <2>5
<1>3. CASE Count(p)
  <2>1. CountInv'
    BY <1>3, CountKeepsCounters
  <2>2. /\ puller' = [puller EXCEPT ![p] = "gone"]
        /\ UNCHANGED <<complete, cancelled, closed, race, winner, errsClosed,
                        delivered, caller>>
        /\ collector = "receive" /\ collector' \in {"receive", "giveUp", "gone"}
    BY <1>3 DEF Count, pathVars
  <2>3. ASSUME collector' = "giveUp"  PROVE race = "wait" /\ Live' = {}
    <3>1. /\ pendingFns' = pendingFns - 1 /\ ~(pendingFns - 1 > 0)
          /\ erroredFns' >= Cardinality(Puller)
      BY <1>3, <2>3 DEF Count
    <3>2. Live' \subseteq Puller
      BY DEF Live
    <3>3. Live' = {} /\ pendingFns' = 0
      <4>1. Cardinality(Live') \in Nat /\ (Cardinality(Live') = 0 <=> Live' = {})
        BY <3>2, LiveIsFinite
      <4>2. pendingFns' = Cardinality(Live') /\ pendingFns \in Int
        BY <1>0, <2>1, LiveIsFinite DEF CountInv, TypeOK
      <4> QED  BY <3>1, <4>1, <4>2
    <3>4. ~(erroredFns' + pendingFns' < Cardinality(Puller))
      BY <2>1, <3>1, <3>3, LiveIsFinite DEF CountInv, TypeOK
    <3>5. winner' = None
      BY <1>0, <2>1, <2>2, <3>3, <3>4 DEF Live, CountInv
    <3> QED  BY <2>2, <3>3, <3>5 DEF RaceInv
  <2>4. RaceInv'
    BY <1>0, <2>2, <2>3 DEF RaceInv, TypeOK
  <2>5. FileInv'
    BY <1>0, <2>2 DEF FileInv, TypeOK
  <2> QED  BY <2>1, <2>4, <2>5
<1> QED  BY <1>1, <1>2, <1>3 DEF Pulling

-------------------------------------------------------------------------------
(* The race *)

LEMMA EofType ==
  ASSUME TypeOK, NEW b \in BOOLEAN
  PROVE  [pipe EXCEPT !.eof = b] \in [data : {"empty", "part", "whole"}, eof : BOOLEAN]
BY DEF TypeOK

LEMMA RacingType ==
  ASSUME TypeOK, Racing  PROVE  TypeOK'
<1> USE DEF TypeOK
<1>1. CASE GiveUp  BY <1>1 DEF GiveUp, pathVars
<1>2. CASE StartWaiting  BY <1>2 DEF StartWaiting, pathVars
<1>3. CASE NoTempFile  BY <1>3 DEF NoTempFile, pathVars
<1>4. CASE CopyToPipe  BY <1>4 DEF CopyToPipe, pathVars
<1>5. CASE CopyToCache  BY <1>5 DEF CopyToCache, pathVars
<1>6. CASE ReceiveCopied  BY <1>6 DEF ReceiveCopied, pathVars
<1>7. CASE ReceiveCached  BY <1>7 DEF ReceiveCached, pathVars
<1>8. CASE ClosePullSuccess
  <2>1. pipe' \in [data : {"empty", "part", "whole"}, eof : BOOLEAN]
    BY <1>8, EofType DEF ClosePullSuccess
  <2> QED  BY <1>8, <2>1 DEF ClosePullSuccess
<1> QED
  BY <1>1, <1>2, <1>3, <1>4, <1>5, <1>6, <1>7, <1>8 DEF Racing

\* Once it waits the race goes its way, and pullSuccess is closed only under
\* the mutex.
LEMMA RacingKeepsPullInv ==
  ASSUME PullInv, Racing  PROVE  PullInv'
<1> USE DEF PullInv
<1>0. TypeOK /\ TypeOK'
  BY RacingType DEF CountInv
<1>1. UNCHANGED <<puller, complete, pendingFns, erroredFns, winner, errsClosed,
                  delivered, caller>>
  BY DEF Racing, GiveUp, StartWaiting, NoTempFile, CopyToPipe, CopyToCache,
         ReceiveCopied, ReceiveCached, ClosePullSuccess, pathVars
<1>2. CountInv'
  BY <1>0, <1>1, CountersKept
<1>3. FileInv'
  BY <1>1 DEF FileInv
<1>4. RaceInv'
  <2> USE DEF RaceInv, Live
  <2>1. CASE GiveUp  BY <2>1 DEF GiveUp
  <2>2. CASE StartWaiting  BY <2>2 DEF StartWaiting
  <2>3. CASE NoTempFile  BY <2>3 DEF NoTempFile
  <2>4. CASE CopyToPipe \/ CopyToCache
    BY <2>4 DEF CopyToPipe, CopyToCache
  <2>5. CASE ReceiveCopied \/ ReceiveCached
    BY <2>5 DEF ReceiveCopied, ReceiveCached
  <2>6. CASE ClosePullSuccess
    BY <2>6 DEF ClosePullSuccess, MutexFree
  <2> QED  BY <2>1, <2>2, <2>3, <2>4, <2>5, <2>6 DEF Racing
<1> QED  BY <1>2, <1>3, <1>4

-------------------------------------------------------------------------------
(* PullPath *)

LEMMA PathType ==
  ASSUME TypeOK, Decrypting \/ DecryptFails \/ CancelCtx  PROVE  TypeOK'
<1> USE DEF TypeOK
<1>1. CASE RaceError
  <2>1. pipe' \in [data : {"empty", "part", "whole"}, eof : BOOLEAN]
    BY <1>1, EofType DEF RaceError
  <2>2. UNCHANGED raceVars /\ caller' = "error" /\ racer' = "gone"
        /\ UNCHANGED <<decrypter, errsClosed, delivered>>
    BY <1>1 DEF RaceError
  <2> QED  BY <2>1, <2>2 DEF raceVars
<1>2. CASE Decrypt \/ DecryptFails  BY <1>2 DEF Decrypt, DecryptFails, raceVars
<1>3. CASE CopyToWriter
  <2>1. /\ decrypter' \in {"gone", "error"}
        /\ delivered' \in BOOLEAN /\ errsClosed' \in BOOLEAN
        /\ UNCHANGED <<raceVars, pipe, racer, caller>>
    BY <1>3 DEF CopyToWriter
  <2> QED  BY <2>1 DEF raceVars
<1>4. CASE DecryptError  BY <1>4 DEF DecryptError, raceVars
<1>5. CASE ReturnNil  BY <1>5 DEF ReturnNil, raceVars
<1>6. CASE CancelCtx  BY <1>6 DEF CancelCtx, pathVars
<1> QED  BY <1>1, <1>2, <1>3, <1>4, <1>5, <1>6 DEF Decrypting

LEMMA PathKeepsPullInv ==
  ASSUME PullInv, Decrypting \/ DecryptFails \/ CancelCtx  PROVE  PullInv'
<1> USE DEF PullInv
<1>0. TypeOK /\ TypeOK'
  BY PathType DEF CountInv
<1>1. UNCHANGED <<puller, complete, closed, pendingFns, erroredFns, collector,
                  race, winner>>
  BY DEF Decrypting, RaceError, Decrypt, CopyToWriter, DecryptError, ReturnNil,
         DecryptFails, CancelCtx, raceVars, pathVars
<1>2. CountInv'
  BY <1>0, <1>1, CountersKept
<1>3. RaceInv'
  BY <1>1 DEF RaceInv, Live
<1>4. errsClosed' /\ ~delivered' => caller' = "error"
  <2>1. CASE DecryptError  BY <2>1 DEF DecryptError
  <2>2. CASE CopyToWriter  BY <1>0, <2>2 DEF CopyToWriter, FileInv, TypeOK
  <2>3. CASE RaceError  BY <2>3 DEF RaceError
  <2>4. CASE ReturnNil  BY <2>4 DEF ReturnNil, FileInv
  <2>5. CASE Decrypt \/ DecryptFails \/ CancelCtx
    BY <2>5 DEF Decrypt, DecryptFails, CancelCtx, FileInv, pathVars
  <2> QED  BY <2>1, <2>2, <2>3, <2>4, <2>5 DEF Decrypting
<1>5. caller' = "ok" => delivered'
  <2>1. CASE ReturnNil  BY <1>0, <2>1 DEF ReturnNil, FileInv, TypeOK
  <2>2. CASE CopyToWriter  BY <1>0, <2>2 DEF CopyToWriter, FileInv, TypeOK
  <2>3. CASE RaceError \/ DecryptError  BY <2>3 DEF RaceError, DecryptError
  <2>4. CASE Decrypt \/ DecryptFails \/ CancelCtx
    BY <2>4 DEF Decrypt, DecryptFails, CancelCtx, FileInv, pathVars
  <2> QED  BY <2>1, <2>2, <2>3, <2>4 DEF Decrypting
<1>6. FileInv'
  BY <1>1, <1>4, <1>5 DEF FileInv
<1> QED  BY <1>2, <1>3, <1>6

-------------------------------------------------------------------------------
LEMMA InitPullInv == Init => PullInv
<1> SUFFICES ASSUME Init  PROVE PullInv
  OBVIOUS
<1>1. Live = Puller
  BY DEF Init, Live
<1>2. Cardinality(Puller) \in Nat
  BY LiveIsFinite
<1>3. TypeOK
  <2>1. pipe \in [data : {"empty", "part", "whole"}, eof : BOOLEAN]
    BY DEF Init
  <2>2. pendingFns \in 0 .. Cardinality(Puller) /\ erroredFns \in 0 .. Cardinality(Puller)
    BY <1>2 DEF Init
  <2>3. puller \in [Puller -> {"none", "pulling", "failed", "pulled", "lock", "offer",
                               "report", "gone"}]
    BY DEF Init
  <2> QED  BY <2>1, <2>2, <2>3 DEF Init, TypeOK
<1>4. CountInv
  BY <1>1, <1>2, <1>3 DEF Init, CountInv
<1>5. RaceInv /\ FileInv
  BY DEF Init, RaceInv, FileInv
<1> QED  BY <1>4, <1>5 DEF PullInv

LEMMA NextPullInv == PullInv /\ [Next]_vars => PullInv'
<1> SUFFICES ASSUME PullInv, [Next]_vars  PROVE PullInv'
  OBVIOUS
<1>1. CASE UNCHANGED vars
  BY <1>1 DEF vars, raceVars, pathVars, PullInv, CountInv, RaceInv, FileInv, TypeOK,
              Live
<1>2. CASE Next
  BY <1>2, PullingKeepsPullInv, RacingKeepsPullInv, PathKeepsPullInv DEF Next, GoOn
<1> QED  BY <1>1, <1>2

LEMMA PullInvariant == Spec => []PullInv
BY InitPullInv, NextPullInv, PTL DEF Spec

\* Every step of the race, of its pullers and of PullPath keeps the state typed:
\* pendingFns and erroredFns never leave 0 .. the number of pullers.
THEOREM PullTypeCorrect == Spec => []TypeOK
<1>1. PullInv => TypeOK
  BY DEF PullInv, CountInv
<1> QED  BY <1>1, PullInvariant, PTL

\* However many sources there are and in whatever order they answer, pullSuccess
\* is never closed while a puller or the count of the failures has still to
\* send on it.
THEOREM PullSuccessNeverPanics == Spec => []PullSuccessIsSafe
<1>1. PullInv => PullSuccessIsSafe
  BY DEF PullInv, RaceInv, PullSuccessIsSafe, PullPanics
<1> QED  BY <1>1, PullInvariant, PTL

\* Nil is returned only for a file that was delivered whole, and that is the
\* file of a puller that wrote it to its end.
THEOREM NilIsNeverALie == Spec => []NilMeansDelivered
<1>1. PullInv => NilMeansDelivered
  BY DEF PullInv, FileInv, NilMeansDelivered
<1> QED  BY <1>1, PullInvariant, PTL


-------------------------------------------------------------------------------
(* The cache *)

\* What a call has asked of the bucket and what it holds, at each of its places.
CallInv(g) ==
  /\ get[g].at # "idle" => from[g] <= current
  /\ get[g].at \in {"local", "dht"} => get[g].cid \in from[g] .. current
  /\ get[g].at \in {"pulled", "keyed"} => get[g].val = current
  /\ get[g].at = "keyed" => get[g].cid = current
  /\ get[g].at = "done" => get[g].val \in from[g] .. current

CacheInv == CacheTypeOK /\ CacheIsExact /\ \A g \in Get : CallInv(g)

-------------------------------------------------------------------------------
LEMMA InitCacheInv == CacheInit => CacheInv
  BY CacheAssumption
  DEF CacheInit, CacheInv, CacheTypeOK, CacheIsExact, CallInv, Version, Idle

\* A push moves on what the bucket has; a file pulled before would be late.
LEMMA PushKeepsCacheInv ==
  ASSUME CacheInv, PushPath, \A g \in Get : get[g].at \notin {"pulled", "keyed"}
  PROVE  CacheInv'
<1>1. CacheTypeOK'
  BY CacheAssumption DEF CacheInv, CacheTypeOK, PushPath, Version
<1>2. CacheIsExact'
  BY DEF CacheInv, CacheIsExact, PushPath
<1>3. ASSUME NEW g \in Get  PROVE CallInv(g)'
  <2>1. CallInv(g) /\ from[g] \in Nat /\ current \in Nat
    BY DEF CacheInv, CacheTypeOK, Version
  <2> QED  BY <2>1 DEF CallInv, PushPath
<1> QED  BY <1>1, <1>2, <1>3 DEF CacheInv

\* A step of one call leaves the others where they are.
LEMMA OthersKeepCallInv ==
  ASSUME CacheInv, NEW g \in Get, NEW h \in Get \ {g},
         get'[h] = get[h], from'[h] = from[h], current' = current
  PROVE  CallInv(h)'
  BY DEF CacheInv, CallInv

\* The steps of a call that store nothing.
LEMMA CallKeepsCacheInv ==
  ASSUME CacheInv, NEW g \in Get, GetFile(g), ~ CacheSet(g)
  PROVE  CacheInv'
<1> USE DEF CacheInv
<1>1. /\ current' = current /\ cache' = cache
      /\ \A h \in Get \ {g} : get'[h] = get[h] /\ from'[h] = from[h]
  BY DEF GetFile, CacheTypeOK, Begin, ListPath, pullFileFromLocal, pullFileFromDHT,
         Lose, pullFileFromClient, CacheKey, Fail, Return
<1>2. CacheIsExact'
  BY <1>1 DEF CacheIsExact
<1>3. \A h \in Get \ {g} : CallInv(h)'
  BY <1>1, OthersKeepCallInv
<1>4. CallInv(g) /\ from[g] \in Version /\ current \in Version /\ Version \subseteq Nat
  BY DEF CacheTypeOK, Version
<1>5. CacheTypeOK' /\ CallInv(g)'
  <2>1. CASE Begin(g)
    BY <1>4, <2>1 DEF Begin, CacheTypeOK, CallInv
  <2>2. CASE ListPath(g, "local") \/ ListPath(g, "dht")
    BY <1>4, <2>2 DEF ListPath, CacheTypeOK, CallInv
  <2>3. CASE pullFileFromLocal(g)
    <3>1. get[g].cid \in from[g] .. current /\ get[g].cid \in Version
      BY <1>4, <2>3, CacheAssumption DEF pullFileFromLocal, CacheTypeOK, CallInv, Version
    <3>2. cache[get[g].cid] = get[g].cid
      BY <2>3, <3>1 DEF pullFileFromLocal, CacheIsExact
    <3> QED  BY <1>4, <2>3, <3>1, <3>2 DEF pullFileFromLocal, CacheTypeOK, CallInv
  <2>4. CASE pullFileFromDHT(g)
    BY <1>4, <2>4 DEF pullFileFromDHT, CacheTypeOK, CallInv
  <2>5. CASE Lose(g)
    BY <1>4, <2>5 DEF Lose, CacheTypeOK, CallInv
  <2>6. CASE pullFileFromClient(g)
    BY <1>4, <2>6 DEF pullFileFromClient, CacheTypeOK, CallInv
  <2>7. CASE CacheKey(g)
    BY <1>4, <2>7 DEF CacheKey, CacheTypeOK, CallInv
  <2>8. CASE Fail(g) \/ Return(g)
    BY <1>4, <2>8 DEF Fail, Return, Idle, CacheTypeOK, CallInv
  <2> QED  BY <2>1, <2>2, <2>3, <2>4, <2>5, <2>6, <2>7, <2>8 DEF GetFile
<1> QED  BY <1>2, <1>3, <1>5

\* What is stored was pulled, and its key asked for, with no push in between.
LEMMA StoreKeepsCacheInv ==
  ASSUME CacheInv, NEW g \in Get, CacheSet(g)
  PROVE  CacheInv'
<1> USE DEF CacheInv
<1>1. /\ current \in Version /\ from[g] \in Version /\ from[g] <= current
      /\ get[g].val = current /\ get[g].cid = current
  BY DEF CacheSet, CacheTypeOK, CallInv
<1>2. /\ current' = current /\ from' = from /\ cache' = [cache EXCEPT ![current] = current]
      /\ get' = [get EXCEPT ![g].at = "done"]
  BY <1>1 DEF CacheSet
<1>3. CacheTypeOK'
  BY <1>1, <1>2 DEF CacheTypeOK
<1>4. CacheIsExact'
  BY <1>1, <1>2 DEF CacheTypeOK, CacheIsExact
<1>5. CallInv(g)'
  BY <1>1, <1>2 DEF CacheTypeOK, CallInv, Version
<1>6. \A h \in Get \ {g} : CallInv(h)'
  BY <1>2, OthersKeepCallInv DEF CacheTypeOK
<1> QED  BY <1>3, <1>4, <1>5, <1>6

LEMMA NextKeepsCacheInv == CacheInv /\ [QuietNext]_cacheVars => CacheInv'
<1> SUFFICES ASSUME CacheInv, [QuietNext]_cacheVars  PROVE CacheInv'
  OBVIOUS
<1>1. CASE UNCHANGED cacheVars
  BY <1>1 DEF cacheVars, CacheInv, CacheTypeOK, CacheIsExact, CallInv
<1>2. CASE (\A g \in Get : get[g].at \notin {"pulled", "keyed"}) /\ PushPath
  BY <1>2, PushKeepsCacheInv
<1>3. ASSUME NEW g \in Get, GetFile(g)  PROVE CacheInv'
  BY <1>3, CallKeepsCacheInv, StoreKeepsCacheInv
<1> QED  BY <1>1, <1>2, <1>3 DEF QuietNext

-------------------------------------------------------------------------------
\* Every copy the cache holds is the file with the CID it is held under, when
\* no push comes between a pull and its store (secure_bucket_client.go:434-444).
THEOREM CacheStaysExact == QuietSpec => []CacheIsExact
<1>1. CacheInv => CacheIsExact
  BY DEF CacheInv
<1> QED  BY <1>1, InitCacheInv, NextKeepsCacheInv, PTL DEF QuietSpec

\* Every call of GetFile returns what the bucket had at some time of the call,
\* whichever source delivered it (secure_bucket_client.go:295-556).
THEOREM ReadsStayCurrent == QuietSpec => []ReadsAreCurrent
<1>1. CacheInv => ReadsAreCurrent
  BY DEF CacheInv, ReadsAreCurrent, CallInv
<1> QED  BY <1>1, InitCacheInv, NextKeepsCacheInv, PTL DEF QuietSpec

-------------------------------------------------------------------------------
(* Pushes at any time *)

\* The key of a pulled file is asked for after the pull: of two versions that a
\* push has parted the cached one is the older.
CacheIsNeverAhead == \A c \in Version : cache[c] # NoFile => cache[c] <= c

\* What a call holds is there already.
HeldInv(g) ==
  /\ get[g].at \in {"local", "dht", "keyed"} => get[g].cid \in Version /\ get[g].cid <= current
  /\ get[g].at \in {"pulled", "keyed"} => get[g].val \in Version /\ get[g].val <= current
  /\ get[g].at = "keyed" => get[g].val <= get[g].cid

AnyPushInv == CacheTypeOK /\ CacheIsNeverAhead /\ \A g \in Get : HeldInv(g)

LEMMA InitAnyPushInv == CacheInit => AnyPushInv
  BY CacheAssumption
  DEF CacheInit, AnyPushInv, CacheTypeOK, CacheIsNeverAhead, HeldInv, Version, Idle

LEMMA NextKeepsAnyPushInv == AnyPushInv /\ [CacheNext]_cacheVars => AnyPushInv'
<1> SUFFICES ASSUME AnyPushInv, [CacheNext]_cacheVars  PROVE AnyPushInv'
  OBVIOUS
<1>0. CacheTypeOK /\ CacheIsNeverAhead /\ \A g \in Get : HeldInv(g)
  BY DEF AnyPushInv
<1>1. CASE UNCHANGED cacheVars
  BY <1>1 DEF cacheVars, AnyPushInv, CacheTypeOK, CacheIsNeverAhead, HeldInv
<1>2. CASE PushPath
  <2>1. CacheTypeOK' /\ current \in Nat /\ current' = current + 1
    BY <1>0, <1>2, CacheAssumption DEF CacheTypeOK, PushPath, Version
  <2>2. UNCHANGED <<cache, get>> /\ \A v \in Version : v \in Nat
    BY <1>2 DEF PushPath, Version
  <2>3. CacheIsNeverAhead'
    BY <1>0, <2>2 DEF CacheIsNeverAhead
  <2>4. ASSUME NEW g \in Get  PROVE HeldInv(g)'
    BY <1>0, <2>1, <2>2 DEF HeldInv
  <2> QED  BY <2>1, <2>3, <2>4 DEF AnyPushInv
<1>3. ASSUME NEW g \in Get, GetFile(g)  PROVE AnyPushInv'
  <2>1. /\ current' = current
        /\ \A h \in Get \ {g} : get'[h] = get[h]
    BY <1>0, <1>3 DEF GetFile, CacheTypeOK, Begin, ListPath, pullFileFromLocal, pullFileFromDHT,
                Lose, pullFileFromClient, CacheKey, CacheSet, Fail, Return
  <2>2. \A h \in Get \ {g} : HeldInv(h)'
    BY <1>0, <2>1 DEF HeldInv
  <2>3. CacheTypeOK /\ HeldInv(g) /\ current \in Version /\ Version \subseteq Nat
    BY <1>0 DEF CacheTypeOK, Version
  <2>4. CacheTypeOK' /\ HeldInv(g)' /\ CacheIsNeverAhead'
    <3>1. CASE ~CacheSet(g)
      <4>1. cache' = cache
        BY <1>3, <3>1 DEF GetFile, Begin, ListPath, pullFileFromLocal, pullFileFromDHT,
                          Lose, pullFileFromClient, CacheKey, Fail, Return
      <4>2. CacheIsNeverAhead'
        BY <1>0, <4>1 DEF CacheIsNeverAhead
      <4>3. CASE Begin(g) \/ ListPath(g, "local") \/ ListPath(g, "dht")
        BY <2>3, <4>2, <4>3 DEF Begin, ListPath, CacheTypeOK, HeldInv
      <4>4. CASE pullFileFromLocal(g) \/ pullFileFromDHT(g)
        <5>1. get[g].cid \in Version
          BY <2>3, <4>4 DEF pullFileFromLocal, pullFileFromDHT, HeldInv
        <5> QED  BY <2>3, <4>2, <4>4, <5>1
                 DEF pullFileFromLocal, pullFileFromDHT, CacheTypeOK, HeldInv
      <4>5. CASE Lose(g) \/ Fail(g) \/ Return(g)
        BY <2>3, <4>2, <4>5 DEF Lose, Fail, Return, Idle, CacheTypeOK, HeldInv
      <4>6. CASE pullFileFromClient(g) \/ CacheKey(g)
        <5>1. current <= current
          BY <2>3
        <5>2. CASE pullFileFromClient(g)
          BY <2>3, <4>2, <5>1, <5>2 DEF pullFileFromClient, CacheTypeOK, HeldInv
        <5>3. CASE CacheKey(g)
          BY <2>3, <4>2, <5>1, <5>3 DEF CacheKey, CacheTypeOK, HeldInv
        <5> QED  BY <4>6, <5>2, <5>3
      <4> QED  BY <1>3, <3>1, <4>2, <4>3, <4>4, <4>5, <4>6 DEF GetFile
    <3>2. CASE CacheSet(g)
      <4>1. get[g].cid \in Version /\ get[g].val \in Version /\ get[g].val <= get[g].cid
        BY <2>3, <3>2 DEF CacheSet, HeldInv
      <4>2. CacheTypeOK' /\ HeldInv(g)'
        BY <2>3, <3>2, <4>1 DEF CacheSet, CacheTypeOK, HeldInv
      <4>3. CacheIsNeverAhead'
        BY <1>0, <3>2, <4>1 DEF CacheSet, CacheTypeOK, CacheIsNeverAhead
      <4> QED  BY <4>2, <4>3
    <3> QED  BY <3>1, <3>2
  <2> QED  BY <2>2, <2>4 DEF AnyPushInv
<1> QED  BY <1>1, <1>2, <1>3 DEF CacheNext

\* Whatever is pushed while a call runs, what the cache and the calls hold are
\* versions of the file (secure_bucket_client.go:295-556).
THEOREM CacheTypeCorrect == CacheSpec => []CacheTypeOK
<1>1. AnyPushInv => CacheTypeOK
  BY DEF AnyPushInv
<1> QED  BY <1>1, InitAnyPushInv, NextKeepsAnyPushInv, PTL DEF CacheSpec

\* A push between a pull and its store can only put an older version under a
\* CID, never a newer one: a copy that was read is stale at worst (406-445).
THEOREM CacheIsLateAtWorst == CacheSpec => []CacheIsNeverAhead
<1>1. AnyPushInv => CacheIsNeverAhead
  BY DEF AnyPushInv
<1> QED  BY <1>1, InitAnyPushInv, NextKeepsAnyPushInv, PTL DEF CacheSpec


===============================================================================
