------------------------------- MODULE AddItems -------------------------------
(***************************************************************************)
(* The call AddItems of the gRPC server: the goroutines of getTotals that  *)
(* count what is to be added, the producer that uploads it folder by       *)
(* folder, the handler that passes the results on, and the notifier that   *)
(* streams them to the client, who may go away at any time.                *)
(* (services_fs.go:414-700, fs_utils.go, grpc/handlers.go:196-265.)        *)
(*                                                                         *)
(* Abstractions.  All channels are unbuffered: a send is one step with its *)
(* receive.  The goroutine of getTotals that collects the results of one   *)
(* folder is always ready to receive, so it has no state of its own.  The  *)
(* user changes the source tree by deleting from it.  A node has the same  *)
(* kind and size at each look, a source is not inside another, and base    *)
(* names differ.  A cancelled context may make uploads fail or not.        *)
(***************************************************************************)
EXTENDS Naturals, FiniteSets, SequencesExt

CONSTANTS
  Node,       \* files and folders on the user's disk
  Folder,     \* those that are folders
  Parent,     \* the folder each is in, Top for those that may be sources
  Size,       \* bytes of each file
  Requests,   \* the source paths of a request, which may repeat one
  Top

ASSUME AddAssumption ==
  /\ IsFiniteSet(Node) /\ Folder \subseteq Node /\ Top \notin Node
  /\ Parent \in [Node -> Folder \cup {Top}]
  /\ Size \in [Node -> Nat] /\ \A n \in Folder : Size[n] = 0
  /\ Requests \subseteq Seq({n \in Node : Parent[n] = Top})

VARIABLES
  disk,       \* the nodes that exist
  ctxDone,    \* the client has gone away: stream.Context() is cancelled
  request,    \* the source paths
  stage,      \* where the handler is
  counter,    \* getTotals: the goroutine of each path
  listing,    \* the paths each call of getTotals is for
  sum,        \* what each call has collected
  summed,     \* the calls that have returned
  producer,   \* the goroutine that uploads
  bucket,     \* what was uploaded
  holding,    \* the result the handler has to pass on
  notifier,   \* the goroutine that sends to the stream
  stream      \* the responses sent

counting == <<counter, listing, sum, summed>>
sending == <<holding, notifier, stream>>
vars == <<disk, ctxDone, request, stage, counting, producer, bucket, sending>>

Frame == Folder \cup {Top}
Result == [node : Node, ok : BOOLEAN]
NoResult == [node |-> Top, ok |-> FALSE]
Zero == [files |-> 0, bytes |-> 0, failed |-> FALSE]

TypeOK ==
  /\ disk \subseteq Node /\ bucket \subseteq Node /\ ctxDone \in BOOLEAN
  /\ request \in Requests \cup {<<>>}
  /\ stage \in {"idle", "totals", "receive", "select", "wait", "returned", "refused"}
  /\ counter \in [Node -> {"none", "begin", "stat", "readDir", "call", "sent", "done"}]
  /\ listing \in [Frame -> SUBSET Node]
  /\ sum \in [Frame -> [files : Nat, bytes : Nat, failed : BOOLEAN]]
  /\ summed \subseteq Frame
  /\ producer \in [at : {"none", "next", "send", "sendFolder", "readDir", "closed"},
                   left : Seq(Node), result : Result \cup {NoResult}]
  /\ holding \in Result \cup {NoResult}
  /\ notifier \in [at : {"none", "receive", "send", "done"}, result : Result \cup {NoResult}]
  /\ stream \in Seq([node : Node, ok : BOOLEAN, files : Nat, bytes : Nat])

\* What ReadDir finds.
Children(n) == {m \in disk : Parent[m] = n}

\* Mutant: what remains in the place of a duplicate is an empty path.
MutantRemoveDuplicates(s) ==
  [i \in DOMAIN s |-> IF \E j \in 1 .. i - 1 : s[j] = s[i] THEN Top ELSE s[i]]

\* First occurrences are kept, in their order.
RemoveDuplicates(s) ==
  LET first == {i \in DOMAIN s : \A j \in 1 .. i - 1 : s[j] # s[i]}
      before(i) == {j \in first : j < i}
  IN [k \in 1 .. Cardinality(first) |->
        s[CHOOSE i \in first : Cardinality(before(i)) = k - 1]]

\* The nodes of S and all those under them.
Below(S) ==
  {n \in Node : \A C \in SUBSET Node :
     (S \subseteq C /\ \A m \in Node : Parent[m] \in C => m \in C) => n \in C}

-------------------------------------------------------------------------------
(* The service's AddItems: errors that are returned at once, then getTotals *)

CallAddItems(s) ==
  /\ stage = "idle"
  /\ request' = s
  /\ \/ /\ stage' = "refused"
        /\ UNCHANGED <<counter, listing>>
     \/ /\ \A i \in DOMAIN s : s[i] \in disk
        /\ stage' = "totals"
        /\ listing' = [listing EXCEPT ![Top] = ToSet(s)]
        /\ counter' = [n \in Node |-> IF n \in ToSet(s) THEN "begin" ELSE "none"]
  /\ UNCHANGED <<disk, ctxDone, sum, summed, producer, bucket, sending>>

\* A response received by the goroutine that collects them for n's parent.
Collect(n, files, bytes) ==
  sum' = [sum EXCEPT ![Parent[n]].files = @ + files, ![Parent[n]].bytes = @ + bytes]
CollectError(n) == sum' = [sum EXCEPT ![Parent[n]].failed = TRUE]

Counter(n, from, to) ==
  /\ counter[n] = from
  /\ counter' = [counter EXCEPT ![n] = to]
  /\ UNCHANGED <<disk, ctxDone, request, stage, producer, bucket, sending>>

\* A folder counts as a file of 0 bytes.
CountFolder(n) ==
  /\ Counter(n, "begin", "readDir") /\ n \in Folder \cap disk
  /\ Collect(n, 1, 0)
  /\ UNCHANGED <<listing, summed>>

NotAFolder(n) ==
  /\ Counter(n, "begin", "stat") /\ n \notin Folder \cap disk
  /\ UNCHANGED <<listing, sum, summed>>

CountFile(n) ==
  /\ Counter(n, "stat", "sent")
  /\ IF n \in disk THEN Collect(n, 1, Size[n]) ELSE CollectError(n)
  /\ UNCHANGED <<listing, summed>>

CannotRead(n) ==
  /\ Counter(n, "readDir", "sent") /\ n \notin disk
  /\ CollectError(n)
  /\ UNCHANGED <<listing, summed>>

CallGetTotals(n) ==
  /\ counter[n] = "readDir" /\ n \in disk
  /\ listing' = [listing EXCEPT ![n] = Children(n)]
  /\ counter' = [m \in Node |-> IF m = n THEN "call"
                                ELSE IF m \in Children(n) THEN "begin" ELSE counter[m]]
  /\ UNCHANGED <<disk, ctxDone, request, stage, sum, summed, producer, bucket, sending>>

ReturnTotals(n) ==
  /\ Counter(n, "call", "sent") /\ n \in summed
  /\ IF sum[n].failed THEN CollectError(n)
                      ELSE Collect(n, sum[n].files, sum[n].bytes)
  /\ UNCHANGED <<listing, summed>>

WgDone(n) ==
  /\ Counter(n, "sent", "done")
  /\ UNCHANGED <<listing, sum, summed>>

Called(f) == (f = Top /\ stage = "totals") \/ (f \in Folder /\ counter[f] = "call")

\* wg.Wait, close(filesRes), <-resultsDone.
GetTotalsReturns(f) ==
  /\ Called(f) /\ f \notin summed
  /\ \A n \in listing[f] : counter[n] = "done"
  /\ summed' = summed \cup {f}
  /\ UNCHANGED <<disk, ctxDone, request, stage, counter, listing, sum, producer,
                 bucket, sending>>

\* AddItems returns the totals and starts the producer; the handler starts the
\* notifier.
StartAdding ==
  /\ stage = "totals" /\ Top \in summed
  /\ IF sum[Top].failed
     THEN /\ stage' = "refused"
          /\ UNCHANGED <<producer, notifier>>
     ELSE /\ stage' = "receive"
          /\ producer' = [producer EXCEPT !.at = "next", !.left = RemoveDuplicates(request)]
          /\ notifier' = [notifier EXCEPT !.at = "receive"]
  /\ UNCHANGED <<disk, ctxDone, request, counting, bucket, holding, stream>>

-------------------------------------------------------------------------------
(* The producer, addItems: whatever fails is a result, and the next path's    *)
(* turn; a folder's paths are added before what follows it                    *)

Path == Head(producer.left)
Offer(at, ok) ==
  producer' = [producer EXCEPT !.at = at, !.result = [node |-> Path, ok |-> ok]]

Uploading ==
  /\ producer.at = "next" /\ producer.left # <<>>
  /\ UNCHANGED <<disk, ctxDone, request, stage, counting, sending>>

\* Mutant: a folder that cannot be created is passed over.
MutantUploadFails ==
  /\ Uploading
  /\ IF Path \in Folder
     THEN producer' = [producer EXCEPT !.left = Tail(@)] ELSE Offer("send", FALSE)
  /\ UNCHANGED bucket

\* createFolder, os.Open or UploadFile fails.
UploadFails ==
  /\ Uploading
  /\ Offer("send", FALSE)
  /\ UNCHANGED bucket

createFolder ==
  /\ Uploading /\ Path \in Folder \cap disk
  /\ bucket' = bucket \cup {Path}
  /\ Offer("sendFolder", TRUE)

\* After the upload an error of Stat is returned in place of its result.
addFile ==
  /\ Uploading /\ Path \in disk \ Folder
  /\ bucket' = bucket \cup {Path}
  /\ \E ok \in BOOLEAN : Offer("send", ok)

\* addFolderRec; an error of ReadDir is a second result for the folder.
addFolderRec ==
  /\ producer.at = "readDir"
  /\ IF Path \in disk
     THEN producer' = [producer EXCEPT !.at = "next",
                         !.left = SetToSeq(Children(Path)) \o Tail(@)]
     ELSE Offer("send", FALSE)
  /\ UNCHANGED <<disk, ctxDone, request, stage, counting, bucket, sending>>

CloseResults ==
  /\ producer.at = "next" /\ producer.left = <<>>
  /\ producer' = [producer EXCEPT !.at = "closed"]
  /\ UNCHANGED <<disk, ctxDone, request, stage, counting, bucket, sending>>

Produce ==
  UploadFails \/ createFolder \/ addFile \/ addFolderRec \/ CloseResults

-------------------------------------------------------------------------------
(* The handler and the notifier *)

\* for in := range results
ReceiveResult ==
  /\ stage = "receive" /\ producer.at \in {"send", "sendFolder"}
  /\ stage' = "select" /\ holding' = producer.result
  /\ producer' = IF producer.at = "send"
                 THEN [producer EXCEPT !.at = "next", !.left = Tail(@), !.result = NoResult]
                 ELSE [producer EXCEPT !.at = "readDir", !.result = NoResult]
  /\ UNCHANGED <<disk, ctxDone, request, counting, bucket, notifier, stream>>

Notify ==
  /\ stage = "select" /\ notifier.at = "receive"
  /\ stage' = "receive" /\ holding' = NoResult
  /\ notifier' = [at |-> "send", result |-> holding]
  /\ UNCHANGED <<disk, ctxDone, request, counting, producer, bucket, stream>>

\* Mutant: the break leaves the loop.
MutantDrop ==
  /\ stage = "select" /\ ctxDone
  /\ stage' = "wait"
  /\ UNCHANGED <<disk, ctxDone, request, counting, producer, bucket, sending>>

\* The break leaves the select only: the result is dropped, the loop goes on.
Drop ==
  /\ stage = "select" /\ ctxDone
  /\ stage' = "receive" /\ holding' = NoResult
  /\ UNCHANGED <<disk, ctxDone, request, counting, producer, bucket, notifier, stream>>

\* results is closed: close(notifications), and wait for done.
CloseNotifications ==
  /\ stage = "receive" /\ producer.at = "closed"
  /\ stage' = "wait"
  /\ UNCHANGED <<disk, ctxDone, request, counting, producer, bucket, sending>>

Handle == StartAdding \/ ReceiveResult \/ Notify \/ Drop \/ CloseNotifications

Bytes(r) == IF r.ok THEN Size[r.node] ELSE 0

\* completedFiles and completedBytes: those of the last response.
Completed == IF stream = <<>> THEN Zero ELSE Last(stream)

\* completedFiles++ also for an error; an error of Send is not looked at.
Send ==
  /\ notifier.at = "send"
  /\ LET res == notifier.result
     IN stream' = Append(stream, [node |-> res.node, ok |-> res.ok,
                                  files |-> Completed.files + 1,
                                  bytes |-> Completed.bytes + Bytes(res)])
  /\ notifier' = [at |-> "receive", result |-> NoResult]
  /\ UNCHANGED <<disk, ctxDone, request, stage, counting, producer, bucket, holding>>

\* notifications is closed and drained: done, and the handler returns.
Done ==
  /\ notifier.at = "receive" /\ stage = "wait"
  /\ notifier' = [notifier EXCEPT !.at = "done"] /\ stage' = "returned"
  /\ UNCHANGED <<disk, ctxDone, request, counting, producer, bucket, holding, stream>>

-------------------------------------------------------------------------------
\* The client goes away: its stream's context is cancelled.
CancelCtx ==
  /\ ~ctxDone
  /\ ctxDone' = TRUE
  /\ UNCHANGED <<disk, request, stage, counting, producer, bucket, sending>>

\* The user deletes a file or a folder from the disk.
Delete(n) ==
  /\ n \in disk
  /\ disk' = disk \ Below({n})
  /\ UNCHANGED <<ctxDone, request, stage, counting, producer, bucket, sending>>

Init ==
  /\ disk = Node /\ ctxDone = FALSE /\ request = <<>> /\ stage = "idle"
  /\ counter = [n \in Node |-> "none"]
  /\ listing = [f \in Frame |-> {}]
  /\ sum = [f \in Frame |-> Zero]
  /\ summed = {}
  /\ producer = [at |-> "none", left |-> <<>>, result |-> NoResult]
  /\ bucket = {}
  /\ holding = NoResult
  /\ notifier = [at |-> "none", result |-> NoResult]
  /\ stream = <<>>

Count(n) ==
  \/ CountFolder(n) \/ NotAFolder(n) \/ CountFile(n) \/ CannotRead(n)
  \/ CallGetTotals(n) \/ ReturnTotals(n) \/ WgDone(n)

GetTotals == (\E n \in Node : Count(n)) \/ (\E f \in Frame : GetTotalsReturns(f))

Next ==
  \/ \E s \in Requests : CallAddItems(s)
  \/ GetTotals \/ Produce \/ Handle \/ Send \/ Done
  \/ CancelCtx \/ (\E n \in Node : Delete(n))

Spec == Init /\ [][Next]_vars

\* Each goroutine goes on, and a look at the disk or an upload ends some time.
Fairness ==
  WF_vars(GetTotals) /\ WF_vars(Produce) /\ WF_vars(Handle) /\ WF_vars(Send) /\ WF_vars(Done)
FairSpec == Spec /\ Fairness

-------------------------------------------------------------------------------
Untouched == disk = Node
Asked == Below(ToSet(request))
Reported(n, ok) == \E i \in DOMAIN stream : stream[i].node = n /\ stream[i].ok = ok
Failed(n) == \E m \in Node : n \in Below({m}) /\ Reported(m, FALSE)

\* When the handler returns to a client that is still there, every upload was
\* answered for, what is said to be in the bucket is there, and of a tree that
\* nobody touched whatever is missing is covered by an error.
EveryItemIsAccountedFor ==
  stage = "returned" /\ ~ctxDone =>
    /\ \A n \in Node : Reported(n, TRUE) => n \in bucket
    /\ \A n \in bucket : Reported(n, TRUE) \/ Reported(n, FALSE)
    /\ Untouched => \A n \in Asked \ bucket : Failed(n)

\* The goroutines that count at the same time and the uploads one after the
\* other come to the same numbers: of a tree nobody touched the progress never
\* exceeds the totals and, if all went well, ends with them.
ProgressAddsUp ==
  /\ Untouched => ~sum[Top].failed
  /\ Untouched => \A i \in DOMAIN stream :
       stream[i].files <= sum[Top].files /\ stream[i].bytes <= sum[Top].bytes
  /\ stage = "returned" /\ ~ctxDone /\ Untouched /\ (\A n \in Node : ~Reported(n, FALSE)) =>
       Completed.files = sum[Top].files /\ Completed.bytes = sum[Top].bytes

\* Of one call to AddItems nothing is lost and nothing is counted twice
\* (services_fs.go:496-600, handlers.go:201-263).
StreamIsTruthful == EveryItemIsAccountedFor /\ ProgressAddsUp

\* AddItems ends, and with it all of its goroutines, also when the client goes
\* away while results are on their way (handlers.go:247-262).
AddItemsReturns ==
  stage = "totals" ~>
    /\ stage \in {"refused", "returned"}
    /\ \A n \in Node : counter[n] \in {"none", "done"}
    /\ producer.at \in {"none", "closed"} /\ notifier.at \in {"none", "done"}

===============================================================================
