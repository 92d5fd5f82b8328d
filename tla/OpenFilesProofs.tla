--------------------------- MODULE OpenFilesProofs ---------------------------
(* Theorems about OpenFiles, for any copies, handlers and number of edits. *)
EXTENDS OpenFiles, TLAPS

\* What an OpenFile has found or made is there at the places that use it, and an
\* event is of a copy.
PlaceInv ==
  /\ \A c \in Caller :
       /\ call[c].at # "idle" => call[c].cid \in 1 .. made
       /\ call[c].at \in {"pull", "record", "reverse", "watch"} => call[c].temp \in Temp
  /\ handler = NoEvent \/ handler.temp \in Temp

\* The copies that somebody could still hand out, watch or upload.
Known(t) ==
  \/ t \in handed \/ record[t] # None \/ watched[t] # None
  \/ \E n \in Content : reverse[n] = t
  \/ \E c \in Caller : call[c].temp = t /\ call[c].at \in {"record", "reverse", "watch"}

\* A copy is known only after it was pulled to its end.
KnownIsWhole == \A t \in Temp : Known(t) => copy[t] # Partial

OpenInv == TypeOK /\ PlaceInv /\ KnownIsWhole /\ bucket # Partial /\ handler.content # Partial

USE DEF files, store, vars

Calls == [Caller -> [at : {"idle", "find", "make", "pull", "record", "reverse", "watch"},
                     cid : Content \cup {None}, temp : Temp \cup {None}]]

\* The contents written so far are a part of all that the model has.
LEMMA Written == ASSUME TypeOK PROVE made \in Nat /\ 1 .. made \subseteq Content
  BY OpenAssumption DEF TypeOK, Content

\* A number is none of the other things a copy can hold.
LEMMA NumbersOnly == \A n \in Nat : n \notin {Absent, Partial, None}
  BY OpenAssumption

-------------------------------------------------------------------------------
\* An edit or a push from elsewhere makes a new content and changes no other.
LEMMA UserKeeps == ASSUME OpenInv, User PROVE OpenInv'
<1>1. made \in Nat /\ 1 .. made \subseteq Content BY Written DEF OpenInv
<1>2. UNCHANGED <<store, handed, daemon, todo, watched, handler, call>>
  BY DEF User, PushElsewhere, Edit, Delete
<1>3. made' \in Content /\ 1 .. made \subseteq 1 .. made'
  BY <1>1, OpenAssumption DEF User, PushElsewhere, Edit, Delete, OpenInv, TypeOK, Content
<1>4. bucket' \in 1 .. made' \cup {Absent} /\ bucket' # Partial
  <2>1. CASE UNCHANGED bucket BY <1>3, <2>1 DEF OpenInv, TypeOK
  <2>2. CASE PushElsewhere
    <3>1. bucket' = made + 1 /\ made' = made + 1 BY <2>2 DEF PushElsewhere
    <3> QED BY <1>1, <3>1, NumbersOnly
  <2> QED BY <2>1, <2>2 DEF User, Edit, Delete
<1>5. /\ copy' \in [Temp -> 1 .. made' \cup {Absent, Partial}]
      /\ \A s \in Temp : copy'[s] = Partial => copy[s] = Partial
  <2>1. CASE PushElsewhere BY <1>3, <2>1 DEF PushElsewhere, OpenInv, TypeOK
  <2>2. ASSUME NEW t \in Temp, NEW n \in 1 .. made' \cup {Absent}, n # Partial,
               copy' = [copy EXCEPT ![t] = n]
        PROVE  /\ copy' \in [Temp -> 1 .. made' \cup {Absent, Partial}]
               /\ \A s \in Temp : copy'[s] = Partial => copy[s] = Partial
    <3>1. copy \in [Temp -> 1 .. made' \cup {Absent, Partial}] BY <1>3 DEF OpenInv, TypeOK
    <3> QED BY <2>2, <3>1
  <2>3. ASSUME NEW t \in Temp, Edit(t)
        PROVE  /\ copy' \in [Temp -> 1 .. made' \cup {Absent, Partial}]
               /\ \A s \in Temp : copy'[s] = Partial => copy[s] = Partial
    <3>1. made' = made + 1 /\ copy' = [copy EXCEPT ![t] = made + 1] BY <2>3 DEF Edit
    <3>2. made + 1 \in 1 .. made' /\ made + 1 # Partial BY <1>1, <3>1, NumbersOnly
    <3> QED BY <2>2, <3>1, <3>2
  <2>4. ASSUME NEW t \in Temp, Delete(t)
        PROVE  /\ copy' \in [Temp -> 1 .. made' \cup {Absent, Partial}]
               /\ \A s \in Temp : copy'[s] = Partial => copy[s] = Partial
    <3>1. copy' = [copy EXCEPT ![t] = Absent] BY <2>4 DEF Delete
    <3> QED BY <2>2, <3>1, OpenAssumption
  <2> QED BY <2>1, <2>3, <2>4 DEF User
<1>6. settled' \subseteq 1 .. made'
  BY <1>3 DEF User, PushElsewhere, Edit, Delete, OpenInv, TypeOK
<1>7. TypeOK' BY <1>2, <1>3, <1>4, <1>5, <1>6 DEF OpenInv, TypeOK
<1>8. PlaceInv' BY <1>2, <1>3 DEF OpenInv, PlaceInv
<1>9. KnownIsWhole' BY <1>2, <1>5 DEF OpenInv, KnownIsWhole, Known
<1> QED BY <1>2, <1>4, <1>7, <1>8, <1>9 DEF OpenInv

\* A step of OpenFile that moves from one place to another.
LEMMA StepOf ==
  ASSUME OpenInv, NEW c \in Caller, NEW at, NEW next \in {"record", "reverse", "watch"},
         Step(c, at, next), at \in {"pull", "record", "reverse"}
  PROVE  /\ call' \in Calls
         /\ call[c].cid \in 1 .. made /\ call[c].temp \in Temp
         /\ call'[c].at = next /\ call'[c].cid = call[c].cid /\ call'[c].temp = call[c].temp
         /\ \A d \in Caller : d # c => call'[d] = call[d]
<1>1. call \in Calls /\ call[c].at = at BY DEF OpenInv, TypeOK, Calls, Step
<1>2. call[c].cid \in 1 .. made /\ call[c].temp \in Temp BY <1>1 DEF OpenInv, PlaceInv
<1> QED BY <1>1, <1>2 DEF Step, Calls

\* Every step of OpenFile keeps the invariant: what is written to the records, to
\* the watcher and to the user is a copy that GetFile has filled.
LEMMA OpeningKeeps == ASSUME OpenInv, Opening PROVE OpenInv'
<1>1. made \in Nat /\ 1 .. made \subseteq Content BY Written DEF OpenInv
<1>2. call \in Calls BY DEF OpenInv, TypeOK, Calls
<1>3. ASSUME NEW c \in Caller, OpenFile(c) PROVE OpenInv'
  <2>1. bucket \in 1 .. made BY <1>3 DEF OpenFile, OpenInv, TypeOK
  <2>2. call' \in Calls BY <1>1, <1>2, <1>3, <2>1 DEF OpenFile, NoCall, Calls
  <2>3. /\ call'[c].at = "find" /\ call'[c].cid = bucket
        /\ \A d \in Caller : d # c => call'[d] = call[d]
    BY <1>2, <1>3 DEF OpenFile, NoCall, Calls
  <2>4. TypeOK' BY <1>3, <2>2 DEF OpenFile, OpenInv, TypeOK, Calls
  <2>5. PlaceInv' BY <1>3, <2>1, <2>3 DEF OpenFile, OpenInv, PlaceInv
  <2>6. KnownIsWhole' BY <1>3, <2>3 DEF OpenFile, OpenInv, KnownIsWhole, Known
  <2> QED BY <1>3, <2>4, <2>5, <2>6 DEF OpenFile, OpenInv
<1>4. ASSUME NEW c \in Caller, Return(c)
      PROVE  /\ call' \in Calls /\ call'[c] = NoCall
             /\ \A d \in Caller : d # c => call'[d] = call[d]
  BY <1>2, <1>4 DEF Return, NoCall, Calls
<1>5. ASSUME NEW c \in Caller, ReturnOpen(c) PROVE OpenInv'
  <2>1. /\ call' \in Calls /\ call'[c] = NoCall
        /\ \A d \in Caller : d # c => call'[d] = call[d]
    BY <1>4, <1>5 DEF ReturnOpen
  <2>2. call[c].cid \in Content BY <1>1, <1>5 DEF ReturnOpen, OpenInv, PlaceInv
  <2>3. reverse[call[c].cid] \in Temp /\ Known(reverse[call[c].cid])
    BY <1>5, <2>2 DEF ReturnOpen, Found, OpenInv, TypeOK, Known
  <2>4. TypeOK' BY <1>5, <2>1, <2>3 DEF ReturnOpen, OpenInv, TypeOK, Calls
  <2>5. PlaceInv' BY <1>5, <2>1 DEF ReturnOpen, OpenInv, PlaceInv, NoCall
  <2>6. \A t \in Temp : Known(t)' => Known(t)
    BY <1>5, <2>1, <2>3 DEF ReturnOpen, Known, NoCall
  <2>7. KnownIsWhole' BY <1>5, <2>6 DEF ReturnOpen, OpenInv, KnownIsWhole
  <2> QED BY <1>5, <2>4, <2>5, <2>7 DEF ReturnOpen, OpenInv
<1>6. ASSUME NEW c \in Caller, NEW t \in Temp, createTempFile(c, t) PROVE OpenInv'
  <2>1. /\ call' \in Calls
        /\ call'[c].at = "pull" /\ call'[c].cid = call[c].cid /\ call'[c].temp = t
        /\ \A d \in Caller : d # c => call'[d] = call[d]
    BY <1>2, <1>6 DEF createTempFile, Calls
  <2>2. TypeOK' BY <1>6, <2>1 DEF createTempFile, OpenInv, TypeOK, Calls
  <2>3. PlaceInv' BY <1>6, <2>1 DEF createTempFile, OpenInv, PlaceInv
  <2>4. \A s \in Temp : s # t => copy'[s] = copy[s]
    BY <1>6 DEF createTempFile, OpenInv, TypeOK
  <2>5. ~Known(t)' BY <1>6, <2>1 DEF createTempFile, Fresh, BeingOpened, Known
  <2>6. \A s \in Temp : s # t /\ Known(s)' => Known(s)
    BY <1>6, <2>1 DEF createTempFile, Known
  <2>7. KnownIsWhole' BY <2>4, <2>5, <2>6 DEF OpenInv, KnownIsWhole
  <2> QED BY <1>6, <2>2, <2>3, <2>7 DEF createTempFile, OpenInv
<1>7. ASSUME NEW c \in Caller, GetFile(c) PROVE OpenInv'
  <2>1. /\ call' \in Calls /\ call[c].cid \in 1 .. made /\ call[c].temp \in Temp
        /\ call'[c].at = "record" /\ call'[c].cid = call[c].cid /\ call'[c].temp = call[c].temp
        /\ \A d \in Caller : d # c => call'[d] = call[d]
    BY <1>7, StepOf DEF GetFile
  <2>2. /\ copy' \in [Temp -> 1 .. made \cup {Absent, Partial}]
        /\ copy'[call[c].temp] # Partial
        /\ \A s \in Temp : s # call[c].temp => copy'[s] = copy[s]
    BY <1>7, <2>1 DEF GetFile, OpenInv, TypeOK
  <2>3. TypeOK' BY <1>7, <2>1, <2>2 DEF GetFile, OpenInv, TypeOK, Calls
  <2>4. PlaceInv' BY <1>7, <2>1 DEF GetFile, OpenInv, PlaceInv
  <2>5. \A s \in Temp : s # call[c].temp /\ Known(s)' => Known(s)
    BY <1>7, <2>1 DEF GetFile, Known
  <2>6. KnownIsWhole' BY <2>2, <2>5 DEF OpenInv, KnownIsWhole
  <2> QED BY <1>7, <2>3, <2>4, <2>6 DEF GetFile, OpenInv
<1>8. ASSUME NEW c \in Caller, StoreInfo(c) \/ StoreReverse(c) PROVE OpenInv'
  <2>1. /\ call' \in Calls /\ call[c].cid \in 1 .. made /\ call[c].temp \in Temp
        /\ call'[c].at \in {"reverse", "watch"} /\ call[c].at \in {"record", "reverse"}
        /\ call'[c].cid = call[c].cid /\ call'[c].temp = call[c].temp
        /\ \A d \in Caller : d # c => call'[d] = call[d]
    BY <1>8, StepOf DEF StoreInfo, StoreReverse, Step
  <2>2. /\ record' \in [Temp -> 1 .. made \cup {None}]
        /\ reverse' \in [Content -> Temp \cup {None}]
    BY <1>1, <1>8, <2>1 DEF StoreInfo, StoreReverse, OpenInv, TypeOK
  <2>3. TypeOK' BY <1>8, <2>1, <2>2 DEF StoreInfo, StoreReverse, OpenInv, TypeOK, Calls
  <2>4. PlaceInv' BY <1>8, <2>1 DEF StoreInfo, StoreReverse, OpenInv, PlaceInv
  <2>5. Known(call[c].temp) BY <2>1 DEF Known
  <2>6. /\ \A s \in Temp : record'[s] # None => record[s] # None \/ s = call[c].temp
        /\ \A n \in Content : reverse'[n] = reverse[n] \/ reverse'[n] = call[c].temp
    BY <1>8, <2>2 DEF StoreInfo, StoreReverse, OpenInv, TypeOK
  <2>7. \A s \in Temp : Known(s)' => Known(s)
    BY <1>8, <2>1, <2>5, <2>6 DEF StoreInfo, StoreReverse, Known
  <2>8. KnownIsWhole' BY <1>8, <2>7 DEF StoreInfo, StoreReverse, OpenInv, KnownIsWhole
  <2> QED BY <1>8, <2>3, <2>4, <2>8 DEF StoreInfo, StoreReverse, OpenInv
<1>9. ASSUME NEW c \in Caller, AddFileWatch(c) PROVE OpenInv'
  <2>1. /\ call' \in Calls /\ call'[c] = NoCall
        /\ \A d \in Caller : d # c => call'[d] = call[d]
    BY <1>4, <1>9 DEF AddFileWatch
  <2>2. call[c].temp \in Temp /\ Known(call[c].temp)
    BY <1>9 DEF AddFileWatch, OpenInv, PlaceInv, Known
  <2>3. watched' \in [Temp -> 1 .. made \cup {Partial, None}]
    BY <1>9, <2>2 DEF AddFileWatch, AddFile, Exists, OpenInv, TypeOK
  <2>4. TypeOK' BY <1>9, <2>1, <2>2, <2>3 DEF AddFileWatch, OpenInv, TypeOK, Calls
  <2>5. PlaceInv' BY <1>9, <2>1 DEF AddFileWatch, OpenInv, PlaceInv, NoCall
  <2>6. \A s \in Temp : s # call[c].temp => watched'[s] = watched[s]
    BY <1>9 DEF AddFileWatch, AddFile, OpenInv, TypeOK
  <2>7. \A s \in Temp : Known(s)' => Known(s)
    BY <1>9, <2>1, <2>2, <2>6 DEF AddFileWatch, Known, NoCall
  <2>8. KnownIsWhole' BY <1>9, <2>7 DEF AddFileWatch, OpenInv, KnownIsWhole
  <2> QED BY <1>9, <2>4, <2>5, <2>8 DEF AddFileWatch, OpenInv
<1>10. ASSUME NEW c \in Caller, OpenFails(c) PROVE OpenInv'
  <2>1. /\ call' \in Calls /\ call'[c] = NoCall
        /\ \A d \in Caller : d # c => call'[d] = call[d]
    BY <1>4, <1>10 DEF OpenFails
  <2>2. TypeOK' BY <1>10, <2>1 DEF OpenFails, OpenInv, TypeOK, Calls
  <2>3. PlaceInv' BY <1>10, <2>1 DEF OpenFails, OpenInv, PlaceInv, NoCall
  <2>4. KnownIsWhole' BY <1>10, <2>1 DEF OpenFails, OpenInv, KnownIsWhole, Known, NoCall
  <2> QED BY <1>10, <2>2, <2>3, <2>4 DEF OpenFails, OpenInv
<1> QED BY <1>3, <1>5, <1>6, <1>7, <1>8, <1>9, <1>10 DEF Opening

-------------------------------------------------------------------------------
\* The watcher and its handler: what is uploaded is a copy with a record.
LEMMA HandlingKeeps ==
  ASSUME OpenInv, Handle \/ \E t \in Temp : Event(t) PROVE OpenInv'
<1>1. made \in Nat /\ 1 .. made \subseteq Content BY Written DEF OpenInv
<1>2. UNCHANGED <<files, store, daemon, todo, call>>
  BY DEF Handle, OpenForUpload, Upload, OnRemove, HandlerFails, Event, WriteEvent, RemoveEvent
<1>3. ASSUME NEW t \in Temp, Event(t) PROVE OpenInv'
  <2>1. /\ handler'.temp = t /\ handler'.content \in {None, Absent}
        /\ handler' \in [temp : Temp \cup {None}, content : 1 .. made \cup {Absent, Partial, None}]
    BY <1>3 DEF Event, WriteEvent, RemoveEvent
  <2>2. watched' \in [Temp -> 1 .. made \cup {Partial, None}]
    BY <1>3 DEF Event, WriteEvent, RemoveEvent, Exists, OpenInv, TypeOK
  <2>3. \A s \in Temp : watched'[s] # None => watched[s] # None
    BY <1>3 DEF Event, WriteEvent, RemoveEvent, OpenInv, TypeOK
  <2>4. UNCHANGED <<bucket, settled>> BY <1>3 DEF Event, WriteEvent, RemoveEvent
  <2>5. TypeOK' BY <1>2, <2>1, <2>2, <2>4 DEF OpenInv, TypeOK
  <2>6. PlaceInv' BY <1>2, <2>1 DEF OpenInv, PlaceInv
  <2>7. KnownIsWhole' BY <1>2, <2>3 DEF OpenInv, KnownIsWhole, Known
  <2> QED BY <2>1, <2>4, <2>5, <2>6, <2>7, OpenAssumption DEF OpenInv
<1>4. CASE Handle
  <2>1. UNCHANGED watched BY <1>4 DEF Handle, OpenForUpload, Upload, OnRemove, HandlerFails
  <2>2. KnownIsWhole' BY <1>2, <2>1 DEF OpenInv, KnownIsWhole, Known
  <2>3. CASE OpenForUpload
    <3>1. handler.temp \in Temp BY <2>3 DEF OpenForUpload, OpenInv, PlaceInv
    <3>2. Known(handler.temp) BY <2>3 DEF OpenForUpload, Known
    <3>3. copy[handler.temp] \in 1 .. made
      BY <2>3, <3>1, <3>2 DEF OpenForUpload, Exists, OpenInv, TypeOK, KnownIsWhole
    <3>4. handler' = [temp |-> handler.temp, content |-> copy[handler.temp]]
      BY <2>3 DEF OpenForUpload, OpenInv, TypeOK
    <3>5. handler'.content # Partial BY <1>1, <3>3, <3>4, OpenAssumption
    <3>6. TypeOK' BY <1>2, <2>1, <2>3, <3>1, <3>3, <3>4 DEF OpenForUpload, OpenInv, TypeOK
    <3>7. PlaceInv' BY <1>2, <3>1, <3>4 DEF OpenInv, PlaceInv
    <3> QED BY <2>2, <2>3, <3>5, <3>6, <3>7 DEF OpenForUpload, OpenInv
  <2>4. CASE Upload \/ OnRemove \/ HandlerFails
    <3>1. handler' = NoEvent BY <2>4 DEF Upload, OnRemove, HandlerFails
    <3>2. bucket' \in 1 .. made \cup {Absent} /\ bucket' # Partial
      BY <1>1, <2>4, OpenAssumption DEF Upload, OnRemove, HandlerFails, OpenInv, TypeOK
    <3>3. ASSUME ~OnRemove PROVE handler.temp \in Temp
      <4>1. handler # NoEvent
        BY <2>4, <3>3 DEF Upload, HandlerFails, NoEvent
      <4> QED BY <4>1 DEF OpenInv, PlaceInv
    <3>4. settled' \subseteq 1 .. made
      <4>1. CASE OnRemove BY <4>1 DEF OnRemove, OpenInv, TypeOK
      <4>2. CASE ~OnRemove
        <5>1. copy[handler.temp] \in 1 .. made \cup {Absent, Partial}
          BY <3>3, <4>2 DEF OpenInv, TypeOK
        <5>2. copy[handler.temp] \in Content => copy[handler.temp] \in 1 .. made
          BY <1>1, <5>1, OpenAssumption DEF Content
        <5> QED BY <2>4, <4>2, <5>2 DEF Upload, HandlerFails, Settle, OpenInv, TypeOK
      <4> QED BY <4>1, <4>2
    <3>5. TypeOK' BY <1>2, <2>1, <3>1, <3>2, <3>4 DEF OpenInv, TypeOK, NoEvent
    <3>6. PlaceInv' BY <1>2, <3>1 DEF OpenInv, PlaceInv, NoEvent
    <3>7. handler'.content # Partial BY <3>1, OpenAssumption DEF NoEvent
    <3> QED BY <2>2, <3>2, <3>5, <3>6, <3>7 DEF OpenInv
  <2> QED BY <1>4, <2>3, <2>4 DEF Handle
<1> QED BY <1>3, <1>4

\* A restart watches again only what has a record.
LEMMA DaemonKeeps == ASSUME OpenInv, Daemon PROVE OpenInv'
<1>1. made \in Nat /\ 1 .. made \subseteq Content BY Written DEF OpenInv
<1>2. UNCHANGED <<files, bucket, settled>>
  BY DEF Daemon, Start, StartBucketSync, Stop, WatchAgain, SkipFile, RemoveInfo
<1>3. CASE Start \/ StartBucketSync
  <2>1. TypeOK' BY <1>2, <1>3 DEF Start, StartBucketSync, OpenInv, TypeOK
  <2>2. PlaceInv' BY <1>2, <1>3 DEF Start, StartBucketSync, OpenInv, PlaceInv
  <2>3. KnownIsWhole' BY <1>2, <1>3 DEF Start, StartBucketSync, OpenInv, KnownIsWhole, Known
  <2> QED BY <1>2, <1>3, <2>1, <2>2, <2>3 DEF Start, StartBucketSync, OpenInv
<1>4. CASE Stop
  <2>1. \A c \in Caller : call'[c] = NoCall BY <1>4 DEF Stop
  <2>2. call' \in Calls BY <1>4 DEF Stop, NoCall, Calls
  <2>3. TypeOK' BY <1>2, <1>4, <2>2 DEF Stop, OpenInv, TypeOK, Calls, NoEvent
  <2>4. PlaceInv' BY <1>4, <2>1 DEF Stop, PlaceInv, NoCall
  <2>5. KnownIsWhole' BY <1>2, <1>4, <2>1 DEF Stop, OpenInv, KnownIsWhole, Known, NoCall
  <2>6. handler'.content # Partial BY <1>4, OpenAssumption DEF Stop, NoEvent
  <2> QED BY <1>2, <2>3, <2>4, <2>5, <2>6 DEF OpenInv
<1>5. ASSUME NEW t \in Temp, WatchAgain(t) PROVE OpenInv'
  <2>1. /\ watched' \in [Temp -> 1 .. made \cup {Partial, None}]
        /\ \A s \in Temp : s # t => watched'[s] = watched[s]
    BY <1>5 DEF WatchAgain, AddFile, Exists, OpenInv, TypeOK
  <2>2. TypeOK' BY <1>5, <2>1 DEF WatchAgain, OpenInv, TypeOK
  <2>3. PlaceInv' BY <1>5 DEF WatchAgain, OpenInv, PlaceInv
  <2>4. \A s \in Temp : Known(s)' => Known(s) BY <1>5, <2>1 DEF WatchAgain, Known
  <2>5. KnownIsWhole' BY <1>2, <2>4 DEF OpenInv, KnownIsWhole
  <2> QED BY <1>5, <2>2, <2>3, <2>5 DEF WatchAgain, OpenInv
<1>6. ASSUME NEW t \in Temp, SkipFile(t) \/ RemoveInfo(t) PROVE OpenInv'
  <2>1. /\ record' \in [Temp -> 1 .. made \cup {None}]
        /\ \A s \in Temp : record'[s] # None => record[s] # None
    BY <1>6 DEF SkipFile, RemoveInfo, OpenInv, TypeOK
  <2>2. /\ reverse' \in [Content -> Temp \cup {None}]
        /\ \A n \in Content : reverse'[n] = reverse[n] \/ reverse'[n] = None
    BY <1>6 DEF SkipFile, RemoveInfo, OpenInv, TypeOK
  <2>3. UNCHANGED <<daemon, watched, handler, call>> /\ todo' \subseteq todo
    BY <1>6 DEF SkipFile, RemoveInfo
  <2>4. TypeOK' BY <1>2, <2>1, <2>2, <2>3 DEF OpenInv, TypeOK
  <2>5. PlaceInv' BY <1>2, <2>3 DEF OpenInv, PlaceInv
  <2>6. \A s \in Temp : Known(s)' => Known(s)
    BY <1>2, <2>1, <2>2, <2>3, OpenAssumption DEF Known
  <2>7. KnownIsWhole' BY <1>2, <2>6 DEF OpenInv, KnownIsWhole
  <2> QED BY <1>2, <2>3, <2>4, <2>5, <2>7 DEF OpenInv
<1> QED BY <1>3, <1>4, <1>5, <1>6 DEF Daemon

\* So OpenInv is inductive.
LEMMA OpenKeeps == OpenInv /\ [Next]_vars => OpenInv'
<1> SUFFICES ASSUME OpenInv, [Next]_vars PROVE OpenInv' OBVIOUS
<1>1. CASE UNCHANGED vars
  BY <1>1 DEF OpenInv, TypeOK, PlaceInv, KnownIsWhole, Known
<1> QED BY <1>1, UserKeeps, OpeningKeeps, HandlingKeeps, DaemonKeeps DEF Next

\* Nothing is open at first.
LEMMA OpenInit == Init => OpenInv
<1> SUFFICES ASSUME Init PROVE OpenInv OBVIOUS
<1>1. 1 \in Content /\ 1 .. 1 = {1} BY OpenAssumption DEF Content
<1>2. TypeOK BY <1>1 DEF Init, TypeOK, NoEvent, NoCall
<1>3. PlaceInv BY DEF Init, PlaceInv, NoCall
<1>4. KnownIsWhole BY OpenAssumption DEF Init, KnownIsWhole, Known, NoCall
<1> QED BY <1>2, <1>3, <1>4, OpenAssumption DEF Init, OpenInv, NoEvent

\* Copies, records, events and calls have the types the code gives them
\* (sync.go:53-126, services_fs.go:299-392).
THEOREM TypeCorrect == Spec => []TypeOK
<1>1. OpenInv => TypeOK BY DEF OpenInv
<1> QED BY <1>1, OpenInit, OpenKeeps, PTL DEF Spec

\* A copy that was not pulled to its end is never handed to the user nor uploaded,
\* for any number of files, callers, crashes and restarts: OpenFile records and
\* watches a copy only after GetFile has filled it, and everything that pushes or
\* hands out a copy finds it by a record or by the watcher
\* (services_fs.go:369-386, sync.go:115-126).
THEOREM HalfCopiesStay == Spec => []HalfCopiesStayHome
<1>1. OpenInv => HalfCopiesStayHome
  BY DEF OpenInv, TypeOK, KnownIsWhole, Known, HalfCopiesStayHome
<1> QED BY <1>1, OpenInit, OpenKeeps, PTL DEF Spec
===============================================================================
