------------------------------ MODULE OpenFiles ------------------------------
(***************************************************************************)
(* A file of a bucket that is opened with a program of the user: OpenFile  *)
(* copies it to a temporary file and records the copy in the store, the    *)
(* folder watcher looks at the copies and OnWrite pushes a changed one     *)
(* back.  After a restart the recorded copies are watched again.           *)
(* (services_fs.go:299-392, core/sync/sync.go, core/sync/fs.go,            *)
(* core/watcher/watcher.go and the order of app.go:186-198.)               *)
(*                                                                         *)
(* Abstractions.  One path of one bucket; a content is a number, the larger *)
(* the later it was written, and stands for its cid.  A copy is read in one *)
(* step: one that is changed while it is uploaded raises another event.    *)
(* A copy is not deleted while OpenFile makes it.  DeleteKeypair, which     *)
(* empties the store, is in Account.                                       *)
(* The watcher is external: it compares each file with what it last saw,   *)
(* sends one event at a time and waits until the event is handled.  OnCreate *)
(* of a file asks the bucket for the local path and goes no further; OnRename *)
(* and OnMove are OnRemove and OnCreate.                                    *)
(***************************************************************************)
EXTENDS Naturals, FiniteSets

CONSTANTS
  Temp,        \* names of temporary files
  Caller,      \* gRPC handlers that run OpenFile
  MaxContent,  \* bound of the model: contents ever written
  Absent, Partial, None

ASSUME OpenAssumption ==
  /\ MaxContent \in Nat \ {0}
  /\ {Absent, Partial, None} \cap Nat = {} /\ Absent # Partial
  /\ None \notin Temp \cup {Absent, Partial}

VARIABLES
  made,     \* the contents written so far are 1 .. made
  bucket,   \* the file in the bucket
  copy,     \* the temporary files
  handed,   \* copies whose path was returned to the user
  record,   \* store, by local path: the cid the copy was opened for
  reverse,  \* store, by cid: the copy
  daemon,   \* "down", "serving" (gRPC only), or "up" (and watching)
  todo,     \* the keys Start has still to add to the watcher
  watched,  \* what the watcher last saw of each file it watches
  handler,  \* the event that is being handled
  call,     \* what each OpenFile is doing
  settled   \* history: contents of copies that were pushed, or given up with an error

files == <<made, copy, handed>>
store == <<record, reverse>>
vars == <<files, store, bucket, daemon, todo, watched, handler, call, settled>>

Content == 1 .. MaxContent
NoEvent == [temp |-> None, content |-> None]
NoCall == [at |-> "idle", cid |-> None, temp |-> None]

TypeOK ==
  /\ made \in Content /\ bucket \in 1 .. made \cup {Absent}
  /\ copy \in [Temp -> 1 .. made \cup {Absent, Partial}]
  /\ handed \subseteq Temp
  /\ record \in [Temp -> 1 .. made \cup {None}]
  /\ reverse \in [Content -> Temp \cup {None}]
  /\ daemon \in {"down", "serving", "up"}
  /\ todo \subseteq Temp
  /\ watched \in [Temp -> 1 .. made \cup {Partial, None}]
  /\ handler \in [temp : Temp \cup {None}, content : 1 .. made \cup {Absent, Partial, None}]
  /\ call \in [Caller -> [at : {"idle", "find", "make", "pull", "record", "reverse", "watch"},
                          cid : Content \cup {None}, temp : Temp \cup {None}]]
  /\ settled \subseteq 1 .. made

Exists(t) == copy[t] # Absent
BeingOpened(t) == \E c \in Caller : call[c].temp = t

\* A new name: ioutil.TempFile draws one at random.
Fresh(t) ==
  /\ ~Exists(t) /\ record[t] = None /\ t \notin handed /\ watched[t] = None
  /\ ~BeingOpened(t) /\ \A n \in Content : reverse[n] # t
-------------------------------------------------------------------------------
(* The user and other devices *)

Edit(t) ==
  /\ t \in handed /\ Exists(t) /\ made < MaxContent
  /\ made' = made + 1
  /\ copy' = [copy EXCEPT ![t] = made + 1]
  /\ settled' = settled \ {copy[t]}
  /\ UNCHANGED <<handed, store, bucket, daemon, todo, watched, handler, call>>

\* By the user, an editor, or whoever cleans the directory of temporary files.
Delete(t) ==
  /\ Exists(t) /\ ~BeingOpened(t)
  /\ copy' = [copy EXCEPT ![t] = Absent]
  /\ settled' = settled \ {copy[t]}
  /\ UNCHANGED <<made, handed, store, bucket, daemon, todo, watched, handler, call>>

\* The bucket changes without the copies.
PushElsewhere ==
  /\ made < MaxContent
  /\ made' = made + 1 /\ bucket' = made + 1
  /\ UNCHANGED <<copy, handed, store, daemon, todo, watched, handler, call, settled>>

-------------------------------------------------------------------------------
(* OpenFile *)

Step(c, at, next) ==
  call[c].at = at /\ call' = [call EXCEPT ![c].at = next]

Return(c) == call' = [call EXCEPT ![c] = NoCall]

\* ListDirectory
OpenFile(c) ==
  /\ daemon # "down" /\ call[c] = NoCall /\ bucket # Absent
  /\ call' = [call EXCEPT ![c] = [NoCall EXCEPT !.at = "find", !.cid = bucket]]
  /\ UNCHANGED <<files, store, bucket, daemon, todo, watched, handler, settled>>

\* GetOpenFilePath and the sanity check of OpenFile
Found(c) == LET t == reverse[call[c].cid] IN t # None /\ Exists(t)

\* Mutant: the check that there is a copy is dropped.
MutantReturnOpen(c) ==
  /\ call[c].at = "find"
  /\ handed' = handed \cup {reverse[call[c].cid]}
  /\ Return(c)
  /\ UNCHANGED <<made, copy, store, bucket, daemon, todo, watched, handler, settled>>

ReturnOpen(c) ==
  /\ call[c].at = "find" /\ Found(c)
  /\ handed' = handed \cup {reverse[call[c].cid]}
  /\ Return(c)
  /\ UNCHANGED <<made, copy, store, bucket, daemon, todo, watched, handler, settled>>

\* Mutant: the copy is registered while it is still pulled.
MutantCreateTempFile(c, t) ==
  /\ call[c].at = "find" /\ ~Found(c) /\ Fresh(t)
  /\ copy' = [copy EXCEPT ![t] = Partial]
  /\ call' = [call EXCEPT ![c].at = "record", ![c].temp = t]
  /\ UNCHANGED <<made, handed, store, bucket, daemon, todo, watched, handler, settled>>

createTempFile(c, t) ==
  /\ call[c].at = "find" /\ ~Found(c) /\ Fresh(t)
  /\ copy' = [copy EXCEPT ![t] = Partial]
  /\ call' = [call EXCEPT ![c].at = "pull", ![c].temp = t]
  /\ UNCHANGED <<made, handed, store, bucket, daemon, todo, watched, handler, settled>>

GetFile(c) ==
  /\ bucket # Absent /\ Step(c, "pull", "record")
  /\ copy' = [copy EXCEPT ![call[c].temp] = bucket]
  /\ UNCHANGED <<made, handed, store, bucket, daemon, todo, watched, handler, settled>>

\* addFileInfoToStore: the two keys
StoreInfo(c) ==
  /\ Step(c, "record", "reverse")
  /\ record' = [record EXCEPT ![call[c].temp] = call[c].cid]
  /\ UNCHANGED <<files, reverse, bucket, daemon, todo, watched, handler, settled>>

StoreReverse(c) ==
  /\ Step(c, "reverse", "watch")
  /\ reverse' = [reverse EXCEPT ![call[c].cid] = call[c].temp]
  /\ UNCHANGED <<files, record, bucket, daemon, todo, watched, handler, settled>>

\* The watcher takes the file as it is now for what it last saw.
AddFile(t) == Exists(t) /\ watched' = [watched EXCEPT ![t] = copy[t]]

AddFileWatch(c) ==
  /\ call[c].at = "watch" /\ AddFile(call[c].temp)
  /\ handed' = handed \cup {call[c].temp}
  /\ Return(c)
  /\ UNCHANGED <<made, copy, store, bucket, daemon, todo, handler, settled>>

\* Any step but the search may fail; nothing is undone.
OpenFails(c) ==
  /\ call[c] # NoCall /\ Return(c)
  /\ UNCHANGED <<files, store, bucket, daemon, todo, watched, handler, settled>>

-------------------------------------------------------------------------------
(* The watcher and its handler *)

Watching == daemon = "up"

\* Mutant: the event carries the content that the watcher saw last.
MutantWriteEvent(t) ==
  /\ Watching /\ handler = NoEvent
  /\ watched[t] # None /\ Exists(t) /\ watched[t] # copy[t]
  /\ handler' = [temp |-> t, content |-> watched[t]]
  /\ watched' = [watched EXCEPT ![t] = copy[t]]
  /\ UNCHANGED <<files, store, bucket, daemon, todo, call, settled>>

WriteEvent(t) ==
  /\ Watching /\ handler = NoEvent
  /\ watched[t] # None /\ Exists(t) /\ watched[t] # copy[t]
  /\ handler' = [temp |-> t, content |-> None]
  /\ watched' = [watched EXCEPT ![t] = copy[t]]
  /\ UNCHANGED <<files, store, bucket, daemon, todo, call, settled>>

RemoveEvent(t) ==
  /\ Watching /\ handler = NoEvent
  /\ watched[t] # None /\ ~Exists(t)
  /\ handler' = [temp |-> t, content |-> Absent]
  /\ watched' = [watched EXCEPT ![t] = None]
  /\ UNCHANGED <<files, store, bucket, daemon, todo, call, settled>>

Settle(n) ==
  settled' = IF copy[handler.temp] = n /\ n \in Content THEN settled \cup {n} ELSE settled

\* OnWrite: getOpenFileBucketSlugAndPath, GetBucket and os.Open
OpenForUpload ==
  /\ handler # NoEvent /\ handler.content = None
  /\ record[handler.temp] # None /\ Exists(handler.temp)
  /\ handler' = [handler EXCEPT !.content = copy[handler.temp]]
  /\ UNCHANGED <<files, store, bucket, daemon, todo, watched, call, settled>>

\* UploadFile of OnWrite, DeleteDirOrFile of OnRemove
Upload ==
  /\ handler.content \notin {None, Absent}
  /\ bucket' = handler.content
  /\ Settle(handler.content)
  /\ handler' = NoEvent
  /\ UNCHANGED <<files, store, daemon, todo, watched, call>>

OnRemove ==
  /\ handler.content = Absent /\ record[handler.temp] # None
  /\ bucket' = Absent
  /\ handler' = NoEvent
  /\ UNCHANGED <<files, store, daemon, todo, watched, call, settled>>

\* Any step of the handlers may fail, and each does without a record: an error
\* is logged and the content is not tried again.
HandlerFails ==
  /\ handler # NoEvent
  /\ Settle(copy[handler.temp])
  /\ handler' = NoEvent
  /\ UNCHANGED <<files, store, bucket, daemon, todo, watched, call>>

-------------------------------------------------------------------------------
(* The daemon *)

Start ==
  /\ daemon = "down" /\ daemon' = "serving"
  /\ UNCHANGED <<files, store, bucket, todo, watched, handler, call, settled>>

\* KeysWithPrefix; its error ends Start and closes the watcher, and the daemon
\* goes on serving.
StartBucketSync ==
  /\ daemon = "serving" /\ daemon' = "up" /\ todo' = {t \in Temp : record[t] # None}
  /\ UNCHANGED <<files, store, bucket, watched, handler, call, settled>>

WatchAgain(t) ==
  /\ t \in todo /\ todo' = todo \ {t}
  /\ AddFile(t) /\ record[t] # None
  /\ UNCHANGED <<files, store, bucket, daemon, handler, call, settled>>

SkipFile(t) ==
  /\ t \in todo /\ todo' = todo \ {t}
  /\ ~Exists(t) \/ record[t] = None
  /\ UNCHANGED <<files, store, bucket, daemon, watched, handler, call, settled>>

\* removeFileInfo, one key and then the other, after an error of AddFile; the
\* second is not tried when the first fails.
RemoveInfo(t) ==
  /\ t \in todo /\ todo' = todo \ {t} /\ Exists(t) /\ record[t] # None
  /\ \/ UNCHANGED store
     \/ record' = [record EXCEPT ![t] = None] /\ UNCHANGED reverse
     \/ record' = [record EXCEPT ![t] = None]
        /\ reverse' = [reverse EXCEPT ![record[t]] = None]
  /\ UNCHANGED <<files, bucket, daemon, watched, handler, call, settled>>

\* A crash or Shutdown, which closes the watcher and waits neither for the
\* handler of an event nor for the handlers of gRPC.
Stop ==
  /\ daemon # "down" /\ daemon' = "down"
  /\ todo' = {} /\ watched' = [t \in Temp |-> None]
  /\ handler' = NoEvent /\ call' = [c \in Caller |-> NoCall]
  /\ UNCHANGED <<files, store, bucket, settled>>

-------------------------------------------------------------------------------
Init ==
  /\ made = 1 /\ bucket = 1 /\ settled = {}
  /\ copy = [t \in Temp |-> Absent] /\ handed = {}
  /\ record = [t \in Temp |-> None] /\ reverse = [n \in Content |-> None]
  /\ daemon = "down" /\ todo = {} /\ watched = [t \in Temp |-> None]
  /\ handler = NoEvent /\ call = [c \in Caller |-> NoCall]

User == PushElsewhere \/ \E t \in Temp : Edit(t) \/ Delete(t)

Opening ==
  \E c \in Caller :
    \/ OpenFile(c) \/ ReturnOpen(c) \/ GetFile(c) \/ StoreInfo(c) \/ StoreReverse(c)
    \/ AddFileWatch(c) \/ OpenFails(c)
    \/ \E t \in Temp : createTempFile(c, t)

Handle == OpenForUpload \/ Upload \/ OnRemove \/ HandlerFails

Event(t) == WriteEvent(t) \/ RemoveEvent(t)

Daemon ==
  \/ Start \/ StartBucketSync \/ Stop
  \/ \E t \in Temp : WatchAgain(t) \/ SkipFile(t) \/ RemoveInfo(t)

Next == User \/ Opening \/ Handle \/ Daemon \/ \E t \in Temp : Event(t)

Spec == Init /\ [][Next]_vars

\* The watcher looks at all its files every 100 ms and the handler ends.
FairSpec == Spec /\ WF_vars(Handle) /\ \A t \in Temp : SF_vars(Event(t))

-------------------------------------------------------------------------------
\* Of a copy that was not pulled to its end, because the pull failed or the daemon
\* stopped, nothing is pushed to the bucket and no user is told, also after a
\* restart (services_fs.go:369-386, sync.go:115-126).
HalfCopiesStayHome ==
  /\ bucket # Partial /\ handler.content # Partial
  /\ \A t \in handed : copy[t] # Partial

\* An edit of a watched copy is pushed, or an error is logged for it, unless the
\* copy is changed again or the daemon stops: an edit in the middle of an upload
\* is not taken for the one that is uploaded (watcher.go:94-131, fs.go:131-176).
Unseen(t, n) ==
  /\ Watching /\ copy[t] = n /\ watched[t] \notin {None, n}
  /\ t \notin todo /\ ~BeingOpened(t)

EditIsPushed ==
  \A t \in Temp, n \in Content :
    Unseen(t, n) ~> (n \in settled \/ copy[t] # n \/ ~Watching)

-------------------------------------------------------------------------------
(* What the documentation says of open files, and TLC refutes. *)

\* "keeps track of open files so that the updates get pushed to IPFS"
\* (README.md:126): once everything is quiet, the content of a copy that was
\* opened is in the bucket, was pushed or failed with an error.  An edit before
\* the copy is added to the watcher, or while the daemon is down, is taken for
\* what the watcher has seen; a copy whose AddFile failed is found by the next
\* OpenFile and not watched.
UpdatesArePushed ==
  (Watching /\ todo = {} /\ handler = NoEvent /\ \A t \in Temp : ~ENABLED Event(t)) =>
    \A t \in handed : (Exists(t) /\ ~BeingOpened(t)) => copy[t] \in settled \cup {1}

\* Whoever is given a copy in a running daemon has it watched.
HandedOutIsWatched ==
  [][\A c \in Caller :
       (ReturnOpen(c) /\ Watching /\ todo = {}) => watched[reverse[call[c].cid]] # None]_vars

\* A copy that OpenFile finds has a record by which its events are handled
\* (sync.go:119-123): removeFileInfo removes the record before the reverse key.
ReverseHasRecord ==
  \A n \in Content : LET t == reverse[n] IN t # None /\ Exists(t) => record[t] # None

\* An upload replaces what its copy was made from: there is one copy for every
\* content, and each pushes over what another pushed.
NothingIsOverwritten ==
  [][bucket' # bucket /\ bucket' # Absent /\ bucket # Absent => bucket' > bucket]_vars

\* The file stays in the bucket when its copy is cleaned up (fs.go:96-128).
CleaningKeepsFile == bucket # Absent

===============================================================================
