------------------------------- MODULE PullFile -------------------------------
(***************************************************************************)
(* One GetFile of a bucket: SecureBucketClient.PullPath, whose two         *)
(* goroutines (the race and the decrypter) are joined by a pipe and report *)
(* on the channel errs, and racePullFile, which starts one puller per      *)
(* source, takes the first temp file that is complete, copies it into the  *)
(* pipe and into the cache.                                                *)
(*                                                                         *)
(* Every channel is unbuffered: a send is one step with its receive, and a *)
(* sender whose receiver has gone waits for ever.  A send on a closed      *)
(* channel ends the program (Crashed).  pullSuccessMutex is held exactly   *)
(* by a puller that offers its file or reports after that (350 comes       *)
(* before the deferred Unlock).  Temp files are made in any order.         *)
(***************************************************************************)
EXTENDS Integers, FiniteSets

CONSTANTS
  Puller,    \* pullFileFromLocal, pullFileFromDHT, pullFileFromClient
  Source,    \* the pullers whose source may have the file
  Remote,    \* the pullers whose file should be cached
  Fault,     \* which other calls may fail
  None

Faults == {"tempFile", "copy", "cache", "decrypt", "writer", "context"}

ASSUME PullAssumption ==
  /\ IsFiniteSet(Puller) /\ Source \subseteq Puller /\ Remote \subseteq Puller
  /\ Fault \subseteq Faults /\ None \notin Puller

VARIABLES
  puller,      \* progress of each puller
  complete,    \* history: the pullers whose temp file holds the whole file
  cancelled,   \* ctxWithCancel is done
  closed,      \* pullSuccess is closed
  pendingFns, erroredFns, collector,
  race,        \* progress of racePullFile
  winner,      \* pullResponse
  copier,      \* the goroutine that copies the file to the pipe
  cacher,      \* the goroutine that copies the file to the cache
  pipe,        \* what has been written to the pipe, and whether it is closed
  racer,       \* the goroutine of PullPath that runs racePullFile
  decrypter,   \* the goroutine of PullPath that decrypts
  errsClosed,
  delivered,   \* the whole file has been written to the caller's writer
  caller       \* PullPath itself

raceVars == <<puller, complete, cancelled, closed, pendingFns, erroredFns,
              collector, race, winner, copier, cacher>>
pathVars == <<racer, decrypter, errsClosed, delivered, caller>>
vars == <<raceVars, pipe, pathVars>>

TypeOK ==
  /\ puller \in [Puller -> {"none", "pulling", "failed", "pulled", "lock",
                            "offer", "report", "gone"}]
  /\ complete \subseteq Puller
  /\ cancelled \in BOOLEAN /\ closed \in BOOLEAN
  /\ pendingFns \in 0 .. Cardinality(Puller)
  /\ erroredFns \in 0 .. Cardinality(Puller)
  /\ collector \in {"none", "receive", "giveUp", "gone"}
  /\ race \in {"spawn", "wait", "copy", "cache", "failing", "ending", "failed", "ended"}
  /\ winner \in Puller \cup {None}
  /\ copier \in {"none", "copying", "ok", "error", "gone"}
  /\ cacher \in {"none", "caching", "ok", "error", "gone"}
  /\ pipe \in [data : {"empty", "part", "whole"}, eof : BOOLEAN]
  /\ racer \in {"racing", "error", "gone"}
  /\ decrypter \in {"reading", "copying", "error", "gone"}
  /\ errsClosed \in BOOLEAN /\ delivered \in BOOLEAN
  /\ caller \in {"wait", "ok", "error"}

CanFail(what) == what \in Fault

-------------------------------------------------------------------------------
(* The pullers *)

Spawn(p) ==
  /\ race = "spawn" /\ puller[p] = "none"
  /\ puller' = [puller EXCEPT ![p] = "pulling"]
  /\ UNCHANGED <<complete, cancelled, closed, pendingFns, erroredFns, collector,
                 race, winner, copier, cacher, pipe, pathVars>>

\* Mutant: no return after the error.
MutantPullFails(p) ==
  /\ puller[p] = "pulling"
  /\ puller' = [puller EXCEPT ![p] = "pulled"]
  /\ UNCHANGED <<complete, cancelled, closed, pendingFns, erroredFns, collector,
                 race, winner, copier, cacher, pipe, pathVars>>

PullFails(p) ==
  /\ puller[p] = "pulling"
  /\ puller' = [puller EXCEPT ![p] = "failed"]
  /\ UNCHANGED <<complete, cancelled, closed, pendingFns, erroredFns, collector,
                 race, winner, copier, cacher, pipe, pathVars>>

PullSucceeds(p) ==
  /\ puller[p] = "pulling" /\ p \in Source
  /\ puller' = [puller EXCEPT ![p] = "pulled"]
  /\ complete' = complete \cup {p}
  /\ UNCHANGED <<cancelled, closed, pendingFns, erroredFns, collector, race,
                 winner, copier, cacher, pipe, pathVars>>

CheckContext(p) ==
  /\ puller[p] = "pulled"
  /\ puller' = [puller EXCEPT ![p] = IF cancelled THEN "failed" ELSE "lock"]
  /\ UNCHANGED <<complete, cancelled, closed, pendingFns, erroredFns, collector,
                 race, winner, copier, cacher, pipe, pathVars>>

MutexFree == \A p \in Puller : puller[p] \notin {"offer", "report"}

\* Mutant: pullSuccessClosed is not looked at.
MutantLock(p) ==
  /\ puller[p] = "lock" /\ MutexFree
  /\ puller' = [puller EXCEPT ![p] = "offer"]
  /\ UNCHANGED <<complete, cancelled, closed, pendingFns, erroredFns, collector,
                 race, winner, copier, cacher, pipe, pathVars>>

Lock(p) ==
  /\ puller[p] = "lock" /\ MutexFree
  /\ puller' = [puller EXCEPT ![p] = IF closed THEN "report" ELSE "offer"]
  /\ UNCHANGED <<complete, cancelled, closed, pendingFns, erroredFns, collector,
                 race, winner, copier, cacher, pipe, pathVars>>

\* pullSuccess <- chanRes, received by racePullFile, which cancels the others
\* and starts the two goroutines that copy the file.
Offer(p) ==
  /\ puller[p] = "offer" /\ race = "wait"
  /\ puller' = [puller EXCEPT ![p] = "report"]
  /\ winner' = p /\ cancelled' = TRUE
  /\ race' = "copy" /\ copier' = "copying"
  /\ cacher' = IF p \in Remote THEN "caching" ELSE "ok"
  /\ UNCHANGED <<complete, closed, pendingFns, erroredFns, collector, pipe, pathVars>>

-------------------------------------------------------------------------------
(* The goroutine that counts the pullers *)

\* Mutant: it gives up only when more pullers failed than there are.
MutantCount(p) ==
  LET errored == IF puller[p] = "failed" THEN erroredFns + 1 ELSE erroredFns IN
  /\ collector = "receive" /\ puller[p] \in {"failed", "report"}
  /\ puller' = [puller EXCEPT ![p] = "gone"]
  /\ pendingFns' = pendingFns - 1 /\ erroredFns' = errored
  /\ collector' = IF pendingFns - 1 > 0 THEN "receive"
                  ELSE IF errored > Cardinality(Puller) THEN "giveUp" ELSE "gone"
  /\ UNCHANGED <<complete, cancelled, closed, race, winner, copier, cacher,
                 pipe, pathVars>>

\* Mutant: it does not return after close(errc), and goes on to receive.
MutantCountOn(p) ==
  /\ collector = "receive" /\ (puller[p] \in {"failed", "report"} \/ pendingFns = 0)
  /\ puller' = [puller EXCEPT ![p] = "gone"]
  /\ pendingFns' = pendingFns - 1
  /\ UNCHANGED <<complete, cancelled, closed, erroredFns, collector, race, winner,
                 copier, cacher, pipe, pathVars>>

\* errc <- err or errc <- nil, received and counted.
Count(p) ==
  LET errored == IF puller[p] = "failed" THEN erroredFns + 1 ELSE erroredFns IN
  /\ collector = "receive" /\ puller[p] \in {"failed", "report"}
  /\ puller' = [puller EXCEPT ![p] = "gone"]
  /\ pendingFns' = pendingFns - 1 /\ erroredFns' = errored
  /\ collector' = IF pendingFns - 1 > 0 THEN "receive"
                  ELSE IF errored >= Cardinality(Puller) THEN "giveUp" ELSE "gone"
  /\ UNCHANGED <<complete, cancelled, closed, race, winner, copier, cacher,
                 pipe, pathVars>>

\* pullSuccess <- nil: racePullFile returns the last error.
GiveUp ==
  /\ collector = "giveUp" /\ race = "wait"
  /\ collector' = "gone"
  /\ cancelled' = TRUE /\ race' = "failing"
  /\ UNCHANGED <<puller, complete, closed, pendingFns, erroredFns, winner,
                 copier, cacher, pipe, pathVars>>

-------------------------------------------------------------------------------
(* racePullFile *)

StartWaiting ==
  /\ race = "spawn" /\ \A p \in Puller : puller[p] # "none"
  /\ race' = "wait" /\ collector' = "receive"
  /\ UNCHANGED <<puller, complete, cancelled, closed, pendingFns, erroredFns,
                 winner, copier, cacher, pipe, pathVars>>

\* An early return, before there is anyone who receives from errc.
NoTempFile ==
  /\ race = "spawn" /\ CanFail("tempFile")
  /\ \E p \in Puller : puller[p] = "none"
  /\ cancelled' = TRUE /\ race' = "failing"
  /\ UNCHANGED <<puller, complete, closed, pendingFns, erroredFns, collector,
                 winner, copier, cacher, pipe, pathVars>>

\* A write to the pipe waits for the decrypter to read.
CopyToPipe ==
  /\ copier = "copying" /\ decrypter = "reading"
  /\ \/ /\ copier' = "ok" /\ pipe' = [pipe EXCEPT !.data = "whole"]
     \/ /\ CanFail("copy") /\ copier' = "error"
        /\ pipe' \in {pipe, [pipe EXCEPT !.data = "part"]}
  /\ UNCHANGED <<puller, complete, cancelled, closed, pendingFns, erroredFns,
                 collector, race, winner, cacher, pathVars>>

CopyToCache ==
  /\ cacher = "caching"
  /\ cacher' \in {"ok"} \cup (IF CanFail("cache") THEN {"error"} ELSE {})
  /\ UNCHANGED <<puller, complete, cancelled, closed, pendingFns, erroredFns,
                 collector, race, winner, copier, pipe, pathVars>>

ReceiveCopied ==
  /\ race = "copy" /\ copier \in {"ok", "error"}
  /\ copier' = "gone"
  /\ race' = IF copier = "ok" THEN "cache" ELSE "failing"
  /\ UNCHANGED <<puller, complete, cancelled, closed, pendingFns, erroredFns,
                 collector, winner, cacher, pipe, pathVars>>

ReceiveCached ==
  /\ race = "cache" /\ cacher \in {"ok", "error"}
  /\ cacher' = "gone"
  /\ race' = IF cacher = "ok" THEN "ending" ELSE "failing"
  /\ UNCHANGED <<puller, complete, cancelled, closed, pendingFns, erroredFns,
                 collector, winner, copier, pipe, pathVars>>

\* The first deferred function: close pullSuccess under the mutex.  Its caller
\* takes the error, or closes the pipe.
ClosePullSuccess ==
  /\ race \in {"failing", "ending"} /\ MutexFree
  /\ closed' = TRUE
  /\ race' = IF race = "failing" THEN "failed" ELSE "ended"
  /\ racer' = IF race = "failing" THEN "error" ELSE "gone"
  /\ pipe' = [pipe EXCEPT !.eof = race = "ending"]
  /\ UNCHANGED <<puller, complete, cancelled, pendingFns, erroredFns, collector,
                 winner, copier, cacher, decrypter, errsClosed, delivered, caller>>

-------------------------------------------------------------------------------
(* PullPath *)

\* errs <- err of the race; the deferred Close of the pipe comes after it.
RaceError ==
  /\ racer = "error" /\ caller = "wait" /\ ~errsClosed
  /\ caller' = "error" /\ racer' = "gone"
  /\ pipe' = [pipe EXCEPT !.eof = TRUE]
  /\ UNCHANGED <<raceVars, decrypter, errsClosed, delivered>>

\* The decrypter reads up to the end and checks the HMAC before it hands out
\* anything; its own temp file may fail before that.
Decrypt ==
  /\ decrypter = "reading" /\ pipe.eof
  /\ decrypter' = IF pipe.data = "whole" THEN "copying" ELSE "error"
  /\ UNCHANGED <<raceVars, pipe, racer, errsClosed, delivered, caller>>

DecryptFails ==
  /\ decrypter = "reading" /\ CanFail("decrypt")
  /\ decrypter' = "error"
  /\ UNCHANGED <<raceVars, pipe, racer, errsClosed, delivered, caller>>

\* Mutant: an error of the writer is lost.
MutantCopyToWriter ==
  /\ decrypter = "copying"
  /\ decrypter' = "gone" /\ errsClosed' = TRUE
  /\ delivered' \in {TRUE} \cup (IF CanFail("writer") THEN {FALSE} ELSE {})
  /\ UNCHANGED <<raceVars, pipe, racer, caller>>

CopyToWriter ==
  /\ decrypter = "copying"
  /\ \/ decrypter' = "gone" /\ delivered' = TRUE /\ errsClosed' = TRUE
     \/ CanFail("writer") /\ decrypter' = "error" /\ UNCHANGED <<delivered, errsClosed>>
  /\ UNCHANGED <<raceVars, pipe, racer, caller>>

\* errs <- err of the decrypter, then its deferred close of errs.
DecryptError ==
  /\ decrypter = "error" /\ caller = "wait"
  /\ caller' = "error"
  /\ decrypter' = "gone" /\ errsClosed' = TRUE
  /\ UNCHANGED <<raceVars, pipe, racer, delivered>>

\* A receive from a closed channel is nil.
ReturnNil ==
  /\ caller = "wait" /\ errsClosed
  /\ caller' = "ok"
  /\ UNCHANGED <<raceVars, pipe, racer, decrypter, errsClosed, delivered>>

CancelCtx ==
  /\ CanFail("context") /\ ~cancelled
  /\ cancelled' = TRUE
  /\ UNCHANGED <<puller, complete, closed, pendingFns, erroredFns, collector,
                 race, winner, copier, cacher, pipe, pathVars>>

-------------------------------------------------------------------------------
Init ==
  /\ puller = [p \in Puller |-> "none"]
  /\ complete = {} /\ cancelled = FALSE /\ closed = FALSE
  /\ pendingFns = Cardinality(Puller) /\ erroredFns = 0
  /\ collector = "none" /\ race = "spawn" /\ winner = None
  /\ copier = "none" /\ cacher = "none"
  /\ pipe = [data |-> "empty", eof |-> FALSE]
  /\ racer = "racing" /\ decrypter = "reading"
  /\ errsClosed = FALSE /\ delivered = FALSE /\ caller = "wait"

\* resErrc and cacheErrc are closed when racePullFile returns: a sender that
\* waits, or comes later, panics.  So does the race's send on closed errs.
RaceOver == race \in {"failing", "ending", "failed", "ended"}
CachePanics == RaceOver /\ cacher \in {"ok", "error"}
ErrsPanics == racer = "error" /\ errsClosed
PullPanics ==
  closed /\ (collector = "giveUp" \/ \E p \in Puller : puller[p] = "offer")
Crashed == CachePanics \/ ErrsPanics \/ PullPanics

Pulling(p) ==
  \/ Spawn(p) \/ PullFails(p) \/ PullSucceeds(p) \/ CheckContext(p)
  \/ Lock(p) \/ Offer(p) \/ Count(p)

Racing ==
  \/ GiveUp \/ StartWaiting \/ NoTempFile \/ CopyToPipe \/ CopyToCache
  \/ ReceiveCopied \/ ReceiveCached \/ ClosePullSuccess

Decrypting == RaceError \/ Decrypt \/ CopyToWriter \/ DecryptError \/ ReturnNil

GoOn == ~Crashed /\ (Racing \/ Decrypting \/ \E p \in Puller : Pulling(p))
Next == GoOn \/ (~Crashed /\ (CancelCtx \/ DecryptFails))

\* Every goroutine goes on and every call to a source ends; none of the steps
\* can be repeated for ever, so fairness of them together is enough.
Spec == Init /\ [][Next]_vars
FairSpec == Spec /\ WF_vars(GoOn)

-------------------------------------------------------------------------------
\* pullSuccess is closed only when nobody will send on it any more: neither a
\* late puller nor the count of the failures (303-309, 346, 369).
PullSuccessIsSafe == ~PullPanics

\* PullPath returns nil only when the whole file is at the caller's writer, and
\* that is the file one puller has written to its end, never the temp file of one
\* that failed or is still writing, whatever failed on the way (125-163, 326-352).
NilMeansDelivered ==
  caller = "ok" => delivered /\ (winner # None => winner \in complete)

\* GetFile ends, with the file or an error, whatever fails in the cache, the
\* decrypter or the writer and however late the other sources are: unless a
\* second source delivers, a temp file of the race cannot be made or the program
\* crashes.
Orderly ==
  /\ Cardinality(complete) <= 1 /\ ~Crashed
  /\ race = "failing" => collector # "none"
Returns == []Orderly => <>(caller # "wait")

\* bucket_file.go:110: "GetFile pulls path from bucket writing it to writer if
\* it's a file": with sources that have it, GetFile comes back.
GetFilePulls == complete # {} ~> caller # "wait"

\* secure_bucket_client.go:383: "Return error if all pull functions failed".
ReturnsTheError == ~(racer = "error" /\ errsClosed)

===============================================================================
