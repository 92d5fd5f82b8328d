---------------------------- MODULE BucketsProofs ----------------------------
(* Theorems about Buckets, for any buckets, threads, goroutines and faults. *)
EXTENDS Buckets, TLAPS

\* What a goroutine has at the places where it uses it.
PlaceAt(p) ==
  LET x == proc[p] IN
  /\ x.at # "idle" => x.op # "idle"
  /\ x.at \notin {"idle", "meta"} => meta # None
  /\ x.op \notin {"idle", "initialize", "RestoreDB"} => x.slug \in Slug
  /\ x.at \in {"list", "restore"} => Initializing(p)
  /\ x.at \notin {"idle", "meta", "list", "restore"} => x.slug \in Slug
  /\ x.at = "addr" => x.op = "join"
  /\ x.at = "read" => x.op \in {"toggle", "mirror", "join"}
  /\ x.at \in {"record", "record2", "make"} => x.db \in Threads
  /\ x.at \in {"save", "joined"} => Rec(x.slug) # None
  /\ x.at = "save" => x.rec \in Record /\ x.rec.key = Rec(x.slug).key
  /\ x.at \in {"restore", "save", "joined"} /\ Initializing(p) =>
       \A s \in x.todo : Rec(s) # None

\* There is a metathread when the store says so.
BucketInv == TypeOK /\ (stored => meta # None) /\ \A p \in Proc : PlaceAt(p)

USE DEF metas, data, mode, vars

ProcState == [op : Ops, at : Places, slug : Slug \cup {None}, db : Threads \cup {None},
              rec : Record \cup {None}, todo : SUBSET Slug, creating : BOOLEAN]
Procs == [Proc -> ProcState]

\* A step that loses no record and changes no key.
KeysKept ==
  /\ meta' \in Collection \cup {None} /\ (meta # None => meta' # None)
  /\ \A s \in Slug : Rec(s) # None => Rec(s)' # None /\ Rec(s)'.key = Rec(s).key

\* All but p are where they were.
OthersStay(p) == \A q \in Proc : q # p => proc'[q] = proc[q]

-------------------------------------------------------------------------------
(* How a step changes one goroutine *)

\* What p has not used yet stays good for the others when no key changes.
LEMMA PlacesStay ==
  ASSUME BucketInv, NEW p \in Proc, OthersStay(p), KeysKept, PlaceAt(p)'
  PROVE  \A q \in Proc : PlaceAt(q)'
<1>1. ASSUME NEW q \in Proc, q # p PROVE PlaceAt(q)'
  <2>1. proc'[q] = proc[q] /\ PlaceAt(q) BY <1>1 DEF OthersStay, BucketInv
  <2>2. proc[q].at \in {"save", "joined"} => proc[q].slug \in Slug BY <2>1 DEF PlaceAt
  <2>3. /\ proc[q].at \in {"save", "joined"} => Rec(proc[q].slug)' # None
        /\ proc[q].at = "save" => proc[q].rec.key = Rec(proc[q].slug)'.key
    BY <2>1, <2>2 DEF PlaceAt, KeysKept, Rec
  <2>4. \A s \in proc[q].todo : s \in Slug BY DEF BucketInv, TypeOK
  <2>5. Initializing(q)' = Initializing(q) BY <2>1 DEF Initializing
  <2>6. proc[q].at \in {"restore", "save", "joined"} /\ Initializing(q) =>
          \A s \in proc[q].todo : Rec(s)' # None
    BY <2>1, <2>4 DEF PlaceAt, KeysKept
  <2> QED BY <2>1, <2>3, <2>5, <2>6 DEF PlaceAt, KeysKept, Initializing, Rec
<1> QED BY <1>1

\* A goroutine goes to another place and changes nothing else.
LEMMA ToFields ==
  ASSUME TypeOK, NEW p \in Proc, NEW at \in Places, To(p, at)
  PROVE  /\ proc' \in Procs /\ OthersStay(p)
         /\ proc'[p].at = at /\ proc'[p].op = proc[p].op /\ proc'[p].slug = proc[p].slug
         /\ proc'[p].db = proc[p].db /\ proc'[p].rec = proc[p].rec
         /\ proc'[p].todo = proc[p].todo /\ proc'[p].creating = proc[p].creating
  BY DEF TypeOK, To, Procs, ProcState, OthersStay

\* A goroutine goes to a place with a thread.
LEMMA ToWithDB ==
  ASSUME TypeOK, NEW p \in Proc, NEW at \in Places, NEW d \in Threads,
         proc' = [proc EXCEPT ![p].at = at, ![p].db = d]
  PROVE  /\ proc' \in Procs /\ OthersStay(p) /\ proc'[p].at = at /\ proc'[p].db = d
         /\ proc'[p].op = proc[p].op /\ proc'[p].slug = proc[p].slug
         /\ proc'[p].todo = proc[p].todo
<1> DEFINE one == [proc EXCEPT ![p].at = at]
           x == [one[p] EXCEPT !.db = d]
<1>1. /\ one \in Procs /\ \A q \in Proc : q # p => one[q] = proc[q]
      /\ one[p].at = at /\ one[p].op = proc[p].op /\ one[p].slug = proc[p].slug
      /\ one[p].todo = proc[p].todo
  BY DEF TypeOK, Procs, ProcState
<1>2. proc' = [one EXCEPT ![p] = x] OBVIOUS
<1> HIDE DEF one
<1>3. x \in ProcState /\ x.at = one[p].at /\ x.db = d /\ x.op = one[p].op /\ x.slug = one[p].slug
      /\ x.todo = one[p].todo
  BY <1>1 DEF Procs, ProcState
<1> HIDE DEF x
<1> QED BY <1>1, <1>2, <1>3 DEF Procs, OthersStay

\* The same with a record, or without one any more.
LEMMA ToWithRec ==
  ASSUME TypeOK, NEW p \in Proc, NEW at \in Places, NEW r \in Record \cup {None},
         proc' = [proc EXCEPT ![p].at = at, ![p].rec = r]
  PROVE  /\ proc' \in Procs /\ OthersStay(p) /\ proc'[p].at = at /\ proc'[p].rec = r
         /\ proc'[p].op = proc[p].op /\ proc'[p].slug = proc[p].slug
         /\ proc'[p].todo = proc[p].todo
<1> DEFINE one == [proc EXCEPT ![p].at = at]
           x == [one[p] EXCEPT !.rec = r]
<1>1. /\ one \in Procs /\ \A q \in Proc : q # p => one[q] = proc[q]
      /\ one[p].at = at /\ one[p].op = proc[p].op /\ one[p].slug = proc[p].slug
      /\ one[p].todo = proc[p].todo
  BY DEF TypeOK, Procs, ProcState
<1>2. proc' = [one EXCEPT ![p] = x] OBVIOUS
<1> HIDE DEF one
<1>3. x \in ProcState /\ x.at = one[p].at /\ x.rec = r /\ x.op = one[p].op /\ x.slug = one[p].slug
      /\ x.todo = one[p].todo
  BY <1>1 DEF Procs, ProcState
<1> HIDE DEF x
<1> QED BY <1>1, <1>2, <1>3 DEF Procs, OthersStay

\* The same with the buckets whose threads are still to be joined.
LEMMA ToWithTodo ==
  ASSUME TypeOK, NEW p \in Proc, NEW todo \in SUBSET Slug,
         proc' = [proc EXCEPT ![p].at = "restore", ![p].todo = todo]
  PROVE  /\ proc' \in Procs /\ OthersStay(p) /\ proc'[p].at = "restore"
         /\ proc'[p].op = proc[p].op /\ proc'[p].slug = proc[p].slug
         /\ proc'[p].todo = todo
<1> DEFINE one == [proc EXCEPT ![p].at = "restore"]
           x == [one[p] EXCEPT !.todo = todo]
<1>1. /\ one \in Procs /\ \A q \in Proc : q # p => one[q] = proc[q]
      /\ one[p].at = "restore" /\ one[p].op = proc[p].op /\ one[p].slug = proc[p].slug
  BY DEF TypeOK, Procs, ProcState, Places
<1>2. proc' = [one EXCEPT ![p] = x] OBVIOUS
<1> HIDE DEF one
<1>3. x \in ProcState /\ x.at = one[p].at /\ x.op = one[p].op /\ x.slug = one[p].slug
      /\ x.todo = todo
  BY <1>1 DEF Procs, ProcState
<1> HIDE DEF x
<1> QED BY <1>1, <1>2, <1>3 DEF Procs, OthersStay

\* A goroutine that is done.
LEMMA StopFields ==
  ASSUME TypeOK, NEW p \in Proc, Stop(p)
  PROVE  proc' \in Procs /\ OthersStay(p) /\ proc'[p] = Idle /\ PlaceAt(p)'
<1>1. proc' \in Procs /\ OthersStay(p) /\ proc'[p] = Idle
  BY DEF TypeOK, Stop, Idle, Ops, Places, Procs, ProcState, OthersStay
<1> QED BY <1>1 DEF PlaceAt, Idle, Initializing

\* On with the next bucket.
LEMMA ToBucketFields ==
  ASSUME BucketInv, NEW p \in Proc, NEW todo \in SUBSET Slug, todo # {},
         Initializing(p), ToBucket(p, todo), meta' # None
  PROVE  /\ proc' \in Procs /\ OthersStay(p) /\ PlaceAt(p)'
         /\ proc'[p].at = "find" /\ proc'[p].op = proc[p].op /\ proc'[p].todo = todo
<1>1. \E t \in todo : proc[p].creating /\ t = defaultPersonalBucketSlug => todo = {t}
  OBVIOUS
<1>2. PICK s \in todo : proc' = [proc EXCEPT ![p] = [@ EXCEPT !.at = "find", !.slug = s,
                                  !.todo = todo, !.db = None, !.rec = None]]
  BY <1>1 DEF ToBucket
<1> DEFINE x == [proc[p] EXCEPT !.at = "find", !.slug = s, !.todo = todo,
                                !.db = None, !.rec = None]
<1>3. proc \in Procs /\ "find" \in Places BY DEF BucketInv, TypeOK, Places, Procs, ProcState
<1>4. proc[p] \in ProcState BY <1>3 DEF Procs
<1>5. x \in ProcState /\ x.at = "find" /\ x.slug = s /\ x.op = proc[p].op
      /\ x.todo = todo
  BY <1>3, <1>4 DEF ProcState
<1>6. proc' = [proc EXCEPT ![p] = x] BY <1>2
<1> HIDE DEF x
<1>7. /\ proc' \in Procs /\ OthersStay(p)
      /\ proc'[p].at = "find" /\ proc'[p].slug = s /\ proc'[p].op = proc[p].op
      /\ proc'[p].todo = todo
  BY <1>3, <1>5, <1>6 DEF Procs, OthersStay
<1> QED BY <1>7 DEF PlaceAt, Initializing

\* To the first bucket, after the threads.
LEMMA ToBucketsFields ==
  ASSUME BucketInv, NEW p \in Proc, Initializing(p), ToBuckets(p), meta' # None
  PROVE  /\ proc' \in Procs /\ OthersStay(p) /\ PlaceAt(p)'
         /\ proc'[p].at = "find" /\ proc'[p].op = proc[p].op
         /\ proc'[p].todo = Listed \cup {defaultPersonalBucketSlug}
<1> DEFINE todo == Listed \cup {defaultPersonalBucketSlug}
           creating == defaultPersonalBucketSlug \notin Listed
<1>1. todo \in SUBSET Slug /\ todo # {} BY BucketAssumption DEF Listed
<1>2. \E t \in todo : creating /\ t = defaultPersonalBucketSlug => todo = {t}
  BY <1>1
<1>3. PICK s \in todo : proc' = [proc EXCEPT ![p] = [@ EXCEPT !.at = "find", !.slug = s,
                                  !.todo = todo, !.creating = creating]]
  BY <1>2 DEF ToBuckets
<1> DEFINE x == [proc[p] EXCEPT !.at = "find", !.slug = s, !.todo = todo, !.creating = creating]
<1>4. proc \in Procs /\ "find" \in Places BY DEF BucketInv, TypeOK, Places, Procs, ProcState
<1>5. proc[p] \in ProcState BY <1>4 DEF Procs
<1>6. creating \in BOOLEAN OBVIOUS
<1>7. proc' = [proc EXCEPT ![p] = x] BY <1>3
<1> HIDE DEF todo, creating
<1>8. x \in ProcState /\ x.at = "find" /\ x.slug = s /\ x.op = proc[p].op
      /\ x.todo = todo
  BY <1>1, <1>4, <1>5, <1>6 DEF ProcState
<1> HIDE DEF x
<1>9. /\ proc' \in Procs /\ OthersStay(p)
      /\ proc'[p].at = "find" /\ proc'[p].slug = s /\ proc'[p].op = proc[p].op
      /\ proc'[p].todo = todo
  BY <1>4, <1>7, <1>8 DEF Procs, OthersStay
<1> QED BY <1>1, <1>9 DEF PlaceAt, Initializing, todo

\* A bucket was found: the goroutine goes on with the next one or is done.
LEMMA FoundFields ==
  ASSUME BucketInv, NEW p \in Proc, Found(p), meta' # None
  PROVE  /\ proc' \in Procs /\ OthersStay(p) /\ PlaceAt(p)'
         /\ isInitialized' \in BOOLEAN /\ UNCHANGED <<misled, faults>>
         /\ phase' \in {"own", "lost", "restored", "raced"}
<1> DEFINE todo == proc[p].todo \ {proc[p].slug}
<1>1. todo \in SUBSET Slug BY DEF BucketInv, TypeOK
<1>2. CASE Initializing(p) /\ todo # {}
  <2>1. ToBucket(p, todo) /\ UNCHANGED mode BY <1>2 DEF Found
  <2>2. proc' \in Procs /\ OthersStay(p) /\ PlaceAt(p)'
    BY <1>1, <1>2, <2>1, ToBucketFields
  <2> QED BY <2>1, <2>2 DEF BucketInv, TypeOK
<1>3. CASE ~(Initializing(p) /\ todo # {})
  <2>1. Stop(p) /\ UNCHANGED <<misled, faults>> BY <1>3 DEF Found
  <2>2. isInitialized' \in BOOLEAN /\ phase' \in {"own", "lost", "restored", "raced"}
    BY <1>3 DEF Found, BucketInv, TypeOK
  <2> QED BY <2>1, <2>2, StopFields DEF BucketInv
<1> QED BY <1>2, <1>3

\* A step of one goroutine that keeps the keys keeps everything.
LEMMA Combine ==
  ASSUME BucketInv, NEW p \in Proc,
         proc' \in Procs, OthersStay(p), KeysKept, PlaceAt(p)',
         stored' \in BOOLEAN, stored' => meta' # None, UNCHANGED <<hubMeta, hubThreads, faults>>,
         threads' \subseteq Threads, roots' \subseteq Threads, isInitialized' \in BOOLEAN,
         phase' \in {"own", "lost", "restored", "raced"}, misled' \in BOOLEAN
  PROVE  BucketInv' /\ KeysKept
<1>1. \A q \in Proc : PlaceAt(q)' BY PlacesStay
<1>2. TypeOK' BY DEF BucketInv, TypeOK, Procs, ProcState, KeysKept
<1> QED BY <1>1, <1>2 DEF BucketInv

\* An existing record is left alone, and a new one is made with a key.
LEMMA RecordedKeeps ==
  ASSUME BucketInv, NEW s \in Slug, NEW d \in Threads, meta # None, meta' = Recorded(s, d)
  PROVE  KeysKept /\ Rec(s)' # None
<1>1. meta \in Collection BY DEF BucketInv, TypeOK
<1>2. CASE Rec(s) # None
  BY <1>1, <1>2 DEF Recorded, KeysKept, Rec
<1>3. CASE Rec(s) = None
  <2> DEFINE r == [db |-> d, key |-> d, mirror |-> FALSE]
  <2>1. r \in Record BY DEF Record
  <2>2. meta' = [meta EXCEPT ![s] = r] BY <1>3 DEF Recorded
  <2> HIDE DEF r
  <2>3. meta' \in Collection BY <1>1, <2>1, <2>2 DEF Collection
  <2>4. r # None BY <2>1, BucketAssumption
  <2>5. /\ meta'[s] = r /\ \A t \in Slug : t # s => meta'[t] = meta[t]
        /\ meta' # None
    BY <1>1, <2>2, <2>3, BucketAssumption DEF Collection
  <2> QED BY <1>3, <2>3, <2>4, <2>5 DEF KeysKept, Rec
<1> QED BY <1>2, <1>3

\* A step that leaves the records alone.
LEMMA SameRecords == ASSUME BucketInv, UNCHANGED meta PROVE KeysKept
  BY DEF BucketInv, TypeOK, KeysKept, Rec

\* A record is replaced by one with the same key.
LEMMA OneRecord ==
  ASSUME BucketInv, NEW s \in Slug, NEW r \in Record, Rec(s) # None, r.key = Rec(s).key,
         meta' = [meta EXCEPT ![s] = r]
  PROVE  KeysKept
<1>1. meta \in Collection BY DEF BucketInv, TypeOK, Rec
<1>2. meta' \in Collection /\ meta' # None
  BY <1>1, BucketAssumption DEF Collection
<1>3. meta'[s] = r /\ \A t \in Slug : t # s => meta'[t] = meta[t]
  BY <1>1 DEF Collection
<1>4. r # None BY BucketAssumption
<1> QED BY <1>1, <1>2, <1>3, <1>4, BucketAssumption DEF KeysKept, Rec

-------------------------------------------------------------------------------
(* The steps of a goroutine *)

\* Where an operation goes on when there is a metathread.
LEMMA FirstPlace ==
  ASSUME BucketInv, NEW p \in Proc, At(p, "meta")
  PROVE  /\ First(proc[p].op) \in Places
         /\ To(p, First(proc[p].op)) /\ meta' # None => PlaceAt(p)'
<1>1. proc[p].op \in Ops /\ proc[p].op # "idle" BY DEF At, BucketInv, TypeOK, PlaceAt
<1>2. First(proc[p].op) \in Places BY <1>1 DEF First, Places, Ops
<1>3. ASSUME To(p, First(proc[p].op)), meta' # None PROVE PlaceAt(p)'
  <2>1. /\ proc'[p].at = First(proc[p].op) /\ proc'[p].op = proc[p].op
        /\ proc'[p].slug = proc[p].slug
    BY <1>2, <1>3, ToFields DEF BucketInv
  <2>2. proc[p].op \notin {"initialize", "RestoreDB"} => proc[p].slug \in Slug
    BY <1>1 DEF BucketInv, PlaceAt
  <2> QED BY <1>1, <1>3, <2>1, <2>2 DEF PlaceAt, First, Ops, Initializing
<1> QED BY <1>2, <1>3

\* The metathread is found, joined or made.
LEMMA MetaKeeps ==
  ASSUME BucketInv, NEW p \in Proc, FoundMeta(p) \/ JoinMeta(p) \/ NewMeta(p)
  PROVE  BucketInv' /\ KeysKept
<1>1. At(p, "meta") BY DEF FoundMeta, JoinMeta, NewMeta
<1>2. Empty \in Collection BY DEF Empty, Collection
<1>3. meta' \in Collection /\ meta' # None
  BY <1>2, BucketAssumption DEF FoundMeta, JoinMeta, NewMeta, BucketInv, TypeOK
<1>4. KeysKept
  BY <1>3, BucketAssumption DEF FoundMeta, JoinMeta, NewMeta, BucketInv, TypeOK, KeysKept, Rec
<1>5. To(p, First(proc[p].op)) \/ Stop(p) BY DEF FoundMeta, JoinMeta, NewMeta
<1>6. proc' \in Procs /\ OthersStay(p) /\ PlaceAt(p)'
  BY <1>1, <1>3, <1>5, FirstPlace, ToFields, StopFields DEF BucketInv
<1>7. stored' \in BOOLEAN /\ UNCHANGED <<hubMeta, data, mode>>
  BY DEF FoundMeta, JoinMeta, NewMeta, BucketInv, TypeOK
<1> QED BY <1>3, <1>4, <1>6, <1>7, Combine DEF BucketInv, TypeOK

\* Finding a bucket, or making a thread, a record and a bucket for it.
LEMMA FindKeeps ==
  ASSUME BucketInv, NEW p \in Proc,
         \/ FindBucket(p) \/ FindNoBucket(p) \/ NewDB(p) \/ CreateRecord(p)
         \/ FindToCreate(p) \/ MakeBucket(p)
  PROVE  BucketInv' /\ KeysKept
<1>1. PlaceAt(p) BY DEF BucketInv
<1>2. /\ proc[p].slug \in Slug /\ meta # None
      /\ proc[p].at \notin {"idle", "meta", "list", "restore"}
  BY <1>1 DEF FindBucket, FindNoBucket, NewDB, CreateRecord, FindToCreate, MakeBucket, At, PlaceAt
<1>3. CASE FindBucket(p)
  <2>1. UNCHANGED <<metas, data>> BY <1>3 DEF FindBucket
  <2>2. /\ proc' \in Procs /\ OthersStay(p) /\ PlaceAt(p)'
        /\ isInitialized' \in BOOLEAN /\ UNCHANGED <<misled, faults>>
        /\ phase' \in {"own", "lost", "restored", "raced"}
    BY <1>2, <1>3, <2>1, FoundFields DEF FindBucket
  <2> QED BY <2>1, <2>2, SameRecords, Combine DEF BucketInv, TypeOK
<1>4. CASE FindNoBucket(p)
  <2>1. PICK at \in {"newdb", "newdb2"} : To(p, at) BY <1>4 DEF FindNoBucket
  <2>2. /\ proc' \in Procs /\ OthersStay(p) /\ proc'[p].at = at
        /\ proc'[p].op = proc[p].op /\ proc'[p].slug = proc[p].slug
    BY <2>1, ToFields DEF BucketInv, Places
  <2>3. UNCHANGED <<metas, data, isInitialized, phase, faults>> /\ misled' \in BOOLEAN
    BY <1>4 DEF FindNoBucket, BucketInv, TypeOK
  <2>4. PlaceAt(p)' BY <1>1, <1>2, <2>2, <2>3 DEF PlaceAt
  <2> QED BY <2>2, <2>3, <2>4, SameRecords, Combine DEF BucketInv, TypeOK
<1>5. CASE NewDB(p)
  <2>1. PICK d \in Threads, at \in {"record", "record2"} :
          /\ proc' = [proc EXCEPT ![p].at = at, ![p].db = d]
          /\ threads' = (threads \cap Held) \cup {d} /\ roots' = roots \cap Held
          /\ UNCHANGED <<metas, hubThreads, mode>>
    BY <1>5 DEF NewDB
  <2>2. /\ proc' \in Procs /\ OthersStay(p) /\ proc'[p].at = at /\ proc'[p].db = d
        /\ proc'[p].op = proc[p].op /\ proc'[p].slug = proc[p].slug
    BY <2>1, ToWithDB DEF BucketInv, Places
  <2>3. PlaceAt(p)' BY <1>1, <1>2, <2>1, <2>2 DEF PlaceAt
  <2> QED BY <2>1, <2>2, <2>3, SameRecords, Combine DEF BucketInv, TypeOK
<1>6. CASE CreateRecord(p)
  <2>1. proc[p].db \in Threads BY <1>1, <1>6 DEF CreateRecord, PlaceAt
  <2>2. KeysKept /\ meta' # None BY <1>2, <1>6, <2>1, RecordedKeeps DEF CreateRecord, KeysKept
  <2>3. \/ Stop(p)
        \/ \E at \in {"find2", "make"} : To(p, at)
    BY <1>6 DEF CreateRecord, Fail, At
  <2>4. CASE Stop(p)
    BY <1>6, <2>2, <2>4, StopFields, Combine DEF CreateRecord, BucketInv, TypeOK
  <2>5. CASE \E at \in {"find2", "make"} : To(p, at)
    <3>1. PICK at \in {"find2", "make"} : To(p, at) BY <2>5
    <3>2. /\ proc' \in Procs /\ OthersStay(p) /\ proc'[p].at = at
          /\ proc'[p].op = proc[p].op /\ proc'[p].slug = proc[p].slug
          /\ proc'[p].db = proc[p].db
      BY <3>1, ToFields DEF BucketInv, Places
    <3>3. PlaceAt(p)' BY <1>1, <1>2, <2>1, <2>2, <3>2 DEF PlaceAt
    <3> QED BY <1>6, <2>2, <3>2, <3>3, Combine DEF CreateRecord, BucketInv, TypeOK
  <2> QED BY <2>3, <2>4, <2>5
<1>7. CASE FindToCreate(p)
  <2> DEFINE d == Rec(proc[p].slug).db
  <2>1. d \in Threads BY <1>2, <1>7 DEF FindToCreate, Rec, Record, BucketInv, TypeOK, Collection
  <2>2. proc' = [proc EXCEPT ![p].at = "make", ![p].db = d] BY <1>7 DEF FindToCreate
  <2> HIDE DEF d
  <2>3. /\ proc' \in Procs /\ OthersStay(p) /\ proc'[p].at = "make" /\ proc'[p].db = d
        /\ proc'[p].op = proc[p].op /\ proc'[p].slug = proc[p].slug
    BY <2>1, <2>2, ToWithDB DEF BucketInv, Places
  <2>4. UNCHANGED <<metas, data, mode>> BY <1>7 DEF FindToCreate
  <2>5. PlaceAt(p)' BY <1>1, <1>2, <2>1, <2>3, <2>4 DEF PlaceAt
  <2> QED BY <2>3, <2>4, <2>5, SameRecords, Combine DEF BucketInv, TypeOK
<1>8. CASE MakeBucket(p)
  <2>1. proc[p].db \in Threads BY <1>1, <1>8 DEF MakeBucket, At, PlaceAt
  <2>2. KeysKept /\ meta' # None BY <1>2, <1>8, <2>1, RecordedKeeps DEF MakeBucket, KeysKept
  <2>3. /\ proc' \in Procs /\ OthersStay(p) /\ PlaceAt(p)'
        /\ isInitialized' \in BOOLEAN /\ UNCHANGED <<misled, faults>>
        /\ phase' \in {"own", "lost", "restored", "raced"}
    BY <1>8, <2>2, FoundFields DEF MakeBucket
  <2> QED BY <1>8, <2>1, <2>2, <2>3, Combine DEF MakeBucket, BucketInv, TypeOK
<1> QED BY <1>3, <1>4, <1>5, <1>6, <1>7, <1>8
\* The threads of the buckets, while a client initializes.
LEMMA RestoreKeeps ==
  ASSUME BucketInv, NEW p \in Proc,
         \/ restoreBuckets(p) \/ ListBuckets(p)
         \/ \E s \in Slug : JoinReplica(p, s) \/ SkipReplica(p, s)
  PROVE  BucketInv' /\ KeysKept
<1>1. PlaceAt(p) BY DEF BucketInv
<1>2. proc[p].at \in {"list", "restore"} /\ Initializing(p) /\ meta # None
  BY <1>1 DEF restoreBuckets, ListBuckets, JoinReplica, SkipReplica, At, PlaceAt
<1>3. UNCHANGED <<metas, hubThreads, roots, mode>> /\ threads' \subseteq Threads
  <2>1. ASSUME NEW s \in Slug, JoinReplica(p, s) PROVE Rec(s) \in Record
    BY <1>1, <1>2, <2>1, BucketAssumption
    DEF JoinReplica, At, PlaceAt, Rec, BucketInv, TypeOK, Collection
  <2> QED BY <2>1 DEF restoreBuckets, ListBuckets, JoinReplica, SkipReplica, BucketInv, TypeOK, Record
<1>4. KeysKept BY <1>3, SameRecords
<1>5. proc' \in Procs /\ OthersStay(p) /\ PlaceAt(p)'
  <2>1. CASE ToBuckets(p) BY <1>2, <1>3, <2>1, ToBucketsFields
  <2>2. CASE proc' = [proc EXCEPT ![p].at = "restore", ![p].todo = Listed]
    <3>1. /\ proc' \in Procs /\ OthersStay(p) /\ proc'[p].at = "restore"
          /\ proc'[p].op = proc[p].op /\ proc'[p].slug = proc[p].slug
          /\ proc'[p].todo = Listed
      BY <2>2, ToWithTodo DEF BucketInv, Listed
    <3>2. \A s \in proc'[p].todo : Rec(s)' # None BY <1>3, <3>1 DEF Listed, Rec
    <3> QED BY <1>1, <1>2, <1>3, <3>1, <3>2 DEF PlaceAt, Initializing
  <2>3. CASE \E s \in Slug : SkipReplica(p, s)
    <3>1. PICK s \in Slug : SkipReplica(p, s) BY <2>3
    <3> DEFINE todo == proc[p].todo \ {s}
               x == [proc[p] EXCEPT !.todo = todo]
    <3>2. proc[p] \in ProcState /\ proc \in Procs
      BY DEF BucketInv, TypeOK, Procs, ProcState
    <3>3. proc' = [proc EXCEPT ![p] = x] /\ At(p, "restore") BY <3>1 DEF SkipReplica
    <3>4. x \in ProcState /\ x.at = proc[p].at /\ x.op = proc[p].op /\ x.todo \subseteq proc[p].todo
      BY <3>2 DEF ProcState
    <3> HIDE DEF x
    <3>5. proc' \in Procs /\ OthersStay(p) /\ proc'[p] = x
      BY <3>2, <3>3, <3>4 DEF Procs, OthersStay
    <3>6. \A t \in proc'[p].todo : Rec(t)' # None
      BY <1>1, <1>2, <1>3, <3>3, <3>4, <3>5 DEF PlaceAt, At, Rec
    <3> QED BY <1>2, <1>3, <3>3, <3>4, <3>5, <3>6 DEF PlaceAt, At, Initializing
  <2>4. CASE \E s \in Slug : JoinReplica(p, s)
    <3>1. PICK s \in Slug : JoinReplica(p, s) BY <2>4
    <3>2. Rec(s) # None /\ Rec(s) \in Record
      BY <1>1, <1>2, <3>1, BucketAssumption
      DEF JoinReplica, At, PlaceAt, Rec, BucketInv, TypeOK, Collection
    <3> DEFINE r == Rec(s)
               x == [proc[p] EXCEPT !.at = "save", !.slug = s, !.rec = r]
    <3>3. proc[p] \in ProcState /\ proc \in Procs
      BY DEF BucketInv, TypeOK, Procs, ProcState
    <3>4. proc' = [proc EXCEPT ![p] = x] /\ At(p, "restore") BY <3>1 DEF JoinReplica
    <3>5. r # None /\ r \in Record /\ Rec(s)' = r BY <1>3, <3>2 DEF Rec
    <3> HIDE DEF r
    <3>6. /\ x \in ProcState /\ x.at = "save" /\ x.slug = s /\ x.rec = r
          /\ x.op = proc[p].op /\ x.todo = proc[p].todo
      BY <3>3, <3>5 DEF ProcState, Places
    <3> HIDE DEF x
    <3>7. proc' \in Procs /\ OthersStay(p) /\ proc'[p] = x
      BY <3>3, <3>4, <3>6 DEF Procs, OthersStay
    <3>8. \A t \in proc'[p].todo : Rec(t)' # None
      BY <1>1, <1>2, <1>3, <3>4, <3>6, <3>7 DEF PlaceAt, At, Rec
    <3> QED BY <1>2, <1>3, <3>5, <3>6, <3>7, <3>8 DEF PlaceAt, Initializing
  <2> QED BY <2>1, <2>2, <2>3, <2>4 DEF restoreBuckets, ListBuckets
<1> QED BY <1>3, <1>4, <1>5, Combine DEF BucketInv, TypeOK

\* A record is read, changed and saved, or made for a bucket that was joined.
LEMMA SaveKeeps ==
  ASSUME BucketInv, NEW p \in Proc,
         \/ joinBucketViaAddress(p) \/ ReadBucket(p) \/ CreateJoined(p)
         \/ SaveBucket(p) \/ CreateInJoined(p)
  PROVE  BucketInv' /\ KeysKept
<1>1. PlaceAt(p) BY DEF BucketInv
<1>2. /\ proc[p].slug \in Slug /\ meta # None /\ meta \in Collection
      /\ proc[p].at \in {"addr", "read", "save", "joined"}
  BY <1>1 DEF joinBucketViaAddress, ReadBucket, CreateJoined, SaveBucket, CreateInJoined, At,
              PlaceAt, BucketInv, TypeOK
<1>3. Rec(proc[p].slug) # None => Rec(proc[p].slug) \in Record
  BY <1>2 DEF Rec, Collection
<1>4. CASE joinBucketViaAddress(p)
  <2>1. To(p, "read") /\ UNCHANGED <<metas, hubThreads, roots, mode>> /\ proc[p].op = "join"
    BY <1>1, <1>4 DEF joinBucketViaAddress, At, PlaceAt
  <2>2. /\ proc' \in Procs /\ OthersStay(p) /\ proc'[p].at = "read"
        /\ proc'[p].op = proc[p].op /\ proc'[p].slug = proc[p].slug
    BY <2>1, ToFields DEF BucketInv, Places
  <2>3. threads' \subseteq Threads
    BY <1>4 DEF joinBucketViaAddress, BucketInv, TypeOK, Threads
  <2>4. PlaceAt(p)' BY <1>2, <2>1, <2>2 DEF PlaceAt
  <2> QED BY <2>1, <2>2, <2>3, <2>4, SameRecords, Combine DEF BucketInv, TypeOK
<1>5. CASE ReadBucket(p)
  <2> DEFINE r == Changed(p, Rec(proc[p].slug))
  <2>1. proc[p].op \in {"toggle", "mirror", "join"} BY <1>1, <1>5 DEF ReadBucket, At, PlaceAt
  <2>2. r \in Record /\ r.key = Rec(proc[p].slug).key
    BY <1>3, <1>5, <2>1 DEF ReadBucket, Changed, Record, Threads
  <2>3. proc' = [proc EXCEPT ![p].at = "save", ![p].rec = r] BY <1>5 DEF ReadBucket
  <2> HIDE DEF r
  <2>4. /\ proc' \in Procs /\ OthersStay(p) /\ proc'[p].at = "save" /\ proc'[p].rec = r
        /\ proc'[p].op = proc[p].op /\ proc'[p].slug = proc[p].slug
    BY <2>2, <2>3, ToWithRec DEF BucketInv, Places
  <2>5. UNCHANGED <<metas, data, mode>> BY <1>5 DEF ReadBucket
  <2>6. PICK s \in Slug : s = proc[p].slug BY <1>2
  <2>7. meta' # None /\ meta'[s] # None /\ meta'[s].key = r.key
    BY <1>2, <1>5, <2>2, <2>5, <2>6 DEF ReadBucket, Rec
  <2>8. PlaceAt(p)' BY <2>1, <2>2, <2>4, <2>6, <2>7 DEF PlaceAt, Rec, Initializing
  <2> QED BY <2>4, <2>5, <2>8, SameRecords, Combine DEF BucketInv, TypeOK
<1>6. CASE CreateJoined(p)
  <2>1. meta' = Recorded(proc[p].slug, Shared) /\ To(p, "joined") /\ proc[p].op = "join"
    BY <1>6 DEF CreateJoined
  <2>2. PICK s \in Slug : s = proc[p].slug BY <1>2
  <2>3. Shared \in Threads BY DEF Threads
  <2>4. KeysKept /\ Rec(s)' # None BY <1>2, <2>1, <2>2, <2>3, RecordedKeeps
  <2>5. /\ proc' \in Procs /\ OthersStay(p) /\ proc'[p].at = "joined"
        /\ proc'[p].op = "join" /\ proc'[p].slug = s
    BY <2>1, <2>2, ToFields DEF BucketInv, Places
  <2>6. meta' # None /\ meta'[s] # None BY <1>2, <2>4 DEF KeysKept, Rec
  <2>7. PlaceAt(p)' BY <2>5, <2>6 DEF PlaceAt, Rec, Initializing
  <2> QED BY <1>6, <2>4, <2>5, <2>6, <2>7, Combine DEF CreateJoined, BucketInv, TypeOK
<1>7. CASE SaveBucket(p)
  <2>1. PICK s \in Slug : s = proc[p].slug BY <1>2
  <2>2. proc[p].at = "save" BY <1>7 DEF SaveBucket, At
  <2>3. /\ Rec(s) # None /\ proc[p].rec \in Record /\ proc[p].rec.key = Rec(s).key
    BY <1>1, <2>1, <2>2 DEF PlaceAt
  <2>4. meta' = [meta EXCEPT ![s] = proc[p].rec] \/ UNCHANGED meta
    BY <1>7, <2>1 DEF SaveBucket
  <2>5. KeysKept BY <2>3, <2>4, OneRecord, SameRecords
  <2>6. meta' # None /\ \A t \in Slug : Rec(t) # None => Rec(t)' # None
    BY <1>2, <2>5 DEF KeysKept
  <2>7. CASE Stop(p)
    BY <1>7, <2>5, <2>6, <2>7, StopFields, Combine DEF SaveBucket, BucketInv, TypeOK
  <2>8. CASE \E at \in {"find", "joined"} : proc' = [proc EXCEPT ![p].at = at, ![p].rec = None]
    <3>1. PICK at \in {"find", "joined"} : proc' = [proc EXCEPT ![p].at = at, ![p].rec = None]
      BY <2>8
    <3>2. /\ proc' \in Procs /\ OthersStay(p) /\ proc'[p].at = at
          /\ proc'[p].op = proc[p].op /\ proc'[p].slug = s /\ proc'[p].todo = proc[p].todo
      BY <2>1, <3>1, ToWithRec DEF BucketInv, Places
    <3>3. proc[p].todo \subseteq Slug BY DEF BucketInv, TypeOK
    <3>4. Initializing(p) => \A t \in proc[p].todo : Rec(t)' # None
      BY <1>1, <2>2, <2>6, <3>3 DEF PlaceAt
    <3>5. meta'[s] # None BY <2>3, <2>6 DEF Rec
    <3>6. Initializing(p)' => \A t \in proc'[p].todo : Rec(t)' # None
      BY <3>2, <3>4 DEF Initializing
    <3>7. proc[p].op # "idle" BY <1>1, <2>2 DEF PlaceAt
    <3>8. PlaceAt(p)' BY <2>6, <3>2, <3>5, <3>6, <3>7 DEF PlaceAt, Rec
    <3> QED BY <1>7, <2>5, <2>6, <3>2, <3>8, Combine DEF SaveBucket, BucketInv, TypeOK
  <2> QED BY <1>7, <2>7, <2>8 DEF SaveBucket
<1>8. CASE CreateInJoined(p)
  <2>1. UNCHANGED <<metas, threads, hubThreads, mode>> /\ proc[p].at = "joined"
    BY <1>8 DEF CreateInJoined, At
  <2>2. KeysKept /\ meta' # None BY <1>2, <2>1, SameRecords
  <2>3. Rec(proc[p].slug) \in Record BY <1>1, <1>3, <2>1 DEF PlaceAt
  <2>4. roots' \subseteq Threads BY <1>8, <2>3 DEF CreateInJoined, Record, BucketInv, TypeOK
  <2>5. proc' \in Procs /\ OthersStay(p) /\ PlaceAt(p)'
    <3>1. CASE Initializing(p)
      <4> DEFINE todo == proc[p].todo \ {proc[p].slug}
      <4>1. todo \subseteq Slug BY DEF BucketInv, TypeOK
      <4>2. proc' = [proc EXCEPT ![p].at = "restore", ![p].todo = todo]
        BY <1>8, <3>1 DEF CreateInJoined
      <4>3. \A t \in todo : Rec(t)' # None BY <1>1, <2>1, <3>1 DEF PlaceAt, Rec
      <4> HIDE DEF todo
      <4>4. /\ proc' \in Procs /\ OthersStay(p) /\ proc'[p].at = "restore"
            /\ proc'[p].op = proc[p].op /\ proc'[p].todo = todo
        BY <4>1, <4>2, ToWithTodo DEF BucketInv
      <4>5. \A t \in proc'[p].todo : Rec(t)' # None BY <4>3, <4>4
      <4> QED BY <2>2, <3>1, <4>4, <4>5 DEF PlaceAt, Initializing
    <3>2. CASE ~Initializing(p) BY <1>8, <3>2, StopFields DEF CreateInJoined, BucketInv
    <3> QED BY <3>1, <3>2
  <2> QED BY <2>1, <2>2, <2>4, <2>5, Combine DEF BucketInv, TypeOK
<1> QED BY <1>4, <1>5, <1>6, <1>7, <1>8

\* A call that fails.
LEMMA FailKeeps ==
  ASSUME BucketInv, NEW p \in Proc, Fails(p)
  PROVE  BucketInv' /\ KeysKept
<1>1. PlaceAt(p) /\ UNCHANGED <<metas, data, mode>> BY DEF BucketInv, Fails
<1>2. KeysKept BY <1>1, SameRecords
<1>3. CASE Stop(p)
  BY <1>1, <1>2, <1>3, StopFields, Combine DEF BucketInv, TypeOK
<1>4. CASE proc[p].at \in {"find", "newdb", "record"} /\ To(p, "find2")
  <2>1. /\ proc' \in Procs /\ OthersStay(p) /\ proc'[p].at = "find2"
        /\ proc'[p].op = proc[p].op /\ proc'[p].slug = proc[p].slug
    BY <1>4, ToFields DEF BucketInv, Places
  <2>2. PlaceAt(p)' BY <1>1, <1>4, <2>1 DEF PlaceAt
  <2> QED BY <1>1, <1>2, <2>1, <2>2, Combine DEF BucketInv, TypeOK
<1>5. CASE /\ proc[p].op = "initialize" /\ proc[p].at \in {"save", "joined"}
           /\ proc' = [proc EXCEPT ![p].at = "restore", ![p].todo = @ \ {proc[p].slug}]
  <2> DEFINE todo == proc[p].todo \ {proc[p].slug}
  <2>1. todo \subseteq Slug BY DEF BucketInv, TypeOK
  <2>2. proc' = [proc EXCEPT ![p].at = "restore", ![p].todo = todo] BY <1>5
  <2>3. \A t \in todo : Rec(t)' # None BY <1>1, <1>5 DEF PlaceAt, Initializing, Rec
  <2> HIDE DEF todo
  <2>4. /\ proc' \in Procs /\ OthersStay(p) /\ proc'[p].at = "restore"
        /\ proc'[p].op = proc[p].op /\ proc'[p].todo = todo
    BY <2>1, <2>2, ToWithTodo DEF BucketInv
  <2>5. \A t \in proc'[p].todo : Rec(t)' # None BY <2>3, <2>4
  <2>6. meta' # None BY <1>1, <1>5 DEF PlaceAt
  <2>7. PlaceAt(p)' BY <1>5, <2>4, <2>5, <2>6 DEF PlaceAt, Initializing
  <2> QED BY <1>1, <1>2, <2>4, <2>7, Combine DEF BucketInv, TypeOK
<1> QED BY <1>3, <1>4, <1>5 DEF Fails, Fail

\* An operation that begins.
LEMMA StartKeeps ==
  ASSUME BucketInv, NEW p \in Proc, Starts(p)
  PROVE  BucketInv' /\ KeysKept
<1>1. PICK op \in Ops \ {"idle"}, s \in Slug \cup {None} :
        /\ Begin(p, op, s)
        /\ op \notin {"initialize", "RestoreDB"} => s \in Slug
  BY DEF Starts, Initialize, RestoreDB, processCreateBucket, CreateBucket, GetBucket,
         ToggleBucketBackup, JoinBucket, Ops
<1> DEFINE at == IF stored THEN First(op) ELSE "meta"
           x == [Idle EXCEPT !.op = op, !.slug = s, !.creating = op = "create", !.at = at]
<1>2. proc' = [proc EXCEPT ![p] = x] /\ UNCHANGED <<metas, data>> BY <1>1 DEF Begin
<1>3. at \in Places BY <1>1 DEF First, Ops, Places
<1>4. stored => meta # None BY DEF BucketInv
<1>5. /\ at \in {"list", "find", "addr", "read", "meta"}
      /\ at # "meta" => stored
      /\ at = "list" => op \in {"initialize", "RestoreDB"}
      /\ at \in {"find", "addr", "read"} => op \notin {"initialize", "RestoreDB"}
      /\ at = "addr" => op = "join"
      /\ at = "read" => op \in {"toggle", "mirror", "join"}
  BY <1>1 DEF First, Ops
<1>6. (op = "create") \in BOOLEAN OBVIOUS
<1> HIDE DEF at
<1>7. /\ x \in ProcState /\ x.at = at /\ x.op = op /\ x.slug = s
  BY <1>1, <1>3, <1>6 DEF ProcState, Idle, Ops
<1> HIDE DEF x
<1>8. proc' \in Procs /\ OthersStay(p) /\ proc'[p] = x
  BY <1>2, <1>7 DEF BucketInv, TypeOK, Procs, ProcState, OthersStay
<1>9. PlaceAt(p)' BY <1>1, <1>2, <1>4, <1>5, <1>7, <1>8 DEF PlaceAt, Initializing
<1>10. /\ isInitialized' \in BOOLEAN /\ UNCHANGED <<misled, faults>>
       /\ phase' \in {"own", "lost", "restored", "raced"}
  BY DEF Starts, Initialize, RestoreDB, processCreateBucket, CreateBucket, GetBucket,
         ToggleBucketBackup, JoinBucket, BucketInv, TypeOK
<1> QED BY <1>2, <1>8, <1>9, <1>10, SameRecords, Combine DEF BucketInv, TypeOK

\* Whatever one goroutine does.
LEMMA ProcKeeps ==
  ASSUME BucketInv, NEW p \in Proc, Step(p) \/ Fails(p) \/ Starts(p)
  PROVE  BucketInv' /\ KeysKept
<1>1. CASE Step(p) BY <1>1, MetaKeeps, FindKeeps, RestoreKeeps, SaveKeeps DEF Step
<1> QED BY <1>1, FailKeeps, StartKeeps

-------------------------------------------------------------------------------
(* The theorems *)

\* A daemon that starts again has nothing to do yet.
LEMMA IdleProcs ==
  LET f == [p \in Proc |-> Idle] IN f \in Procs /\ \A p \in Proc : f[p] = Idle
  BY DEF Procs, ProcState, Idle, Ops, Places

\* The daemon starts again, on the same device or on another one.
LEMMA RestartKeeps ==
  ASSUME BucketInv, Crash \/ LoseDevice
  PROVE  BucketInv' /\ (meta' # None => KeysKept)
<1>1. proc' \in Procs /\ \A p \in Proc : proc'[p] = Idle
  BY IdleProcs DEF Crash, LoseDevice, Restarted
<1>2. \A p \in Proc : PlaceAt(p)' BY <1>1 DEF PlaceAt, Idle, Initializing
<1>3. faults' \in 0 .. MaxFaults /\ isInitialized' \in BOOLEAN
  <2>1. /\ faults < MaxFaults /\ faults' = faults + 1 /\ isInitialized' = FALSE
        /\ faults \in 0 .. MaxFaults
    BY DEF Crash, LoseDevice, Restarted, BucketInv, TypeOK
  <2>2. MaxFaults \in Nat BY BucketAssumption
  <2>3. faults' \in 0 .. MaxFaults
    <3>1. /\ faults \in 0 .. MaxFaults /\ faults < MaxFaults /\ faults' = faults + 1 BY <2>1
    <3> QED BY <3>1, <2>2
  <2>4. isInitialized' \in BOOLEAN BY <2>1
  <2> QED BY <2>3, <2>4
<1>4. CASE Crash
  <2>1. KeysKept BY <1>4, SameRecords DEF Crash
  <2> QED BY <1>1, <1>2, <1>3, <1>4, <2>1 DEF Crash, BucketInv, TypeOK, Procs, ProcState
<1>5. CASE LoseDevice
  <2>1. meta \in Collection \cup {None} BY DEF BucketInv, TypeOK
  <2>2. Listed \subseteq Slug /\ \A s \in Listed : meta \in Collection /\ meta[s] \in Record
    BY <2>1, BucketAssumption DEF Listed, Rec, Collection
  <2>3. PICK sent \in SUBSET Listed :
          hubMeta' = [s \in Slug |-> IF s \in sent THEN meta[s] ELSE None]
    BY <1>5 DEF LoseDevice
  <2>4. hubMeta' \in Collection BY <2>2, <2>3 DEF Collection
  <2>5. /\ stored' = FALSE /\ meta' = None /\ threads' = {} /\ hubThreads' \subseteq Threads
        /\ roots' \subseteq Threads /\ phase' = "lost" /\ misled' \in BOOLEAN
    BY <1>5 DEF LoseDevice, BucketInv, TypeOK
  <2> QED BY <1>1, <1>2, <1>3, <2>4, <2>5 DEF BucketInv, TypeOK, Procs, ProcState
<1> QED BY <1>4, <1>5

\* The invariant holds at first and is kept by every step, which also keeps the
\* keys but for the loss of the device.
LEMMA BucketInductive ==
  /\ Init => BucketInv
  /\ BucketInv /\ [Next]_vars => BucketInv' /\ (meta' # None => KeysKept)
<1>1. ASSUME Init PROVE BucketInv
  <2>1. proc \in Procs /\ \A p \in Proc : proc[p] = Idle BY <1>1, IdleProcs DEF Init
  <2>2. \A p \in Proc : PlaceAt(p) BY <2>1 DEF PlaceAt, Idle, Initializing
  <2>3. 0 \in 0 .. MaxFaults
    <3>1. MaxFaults \in Nat BY BucketAssumption
    <3> QED BY <3>1
  <2> QED BY <1>1, <2>1, <2>2, <2>3 DEF Init, BucketInv, TypeOK, Procs, ProcState, Threads
<1>2. ASSUME BucketInv, [Next]_vars PROVE BucketInv' /\ (meta' # None => KeysKept)
  <2>1. CASE UNCHANGED vars
    BY <1>2, <2>1, SameRecords DEF BucketInv, TypeOK, PlaceAt, Initializing, Rec
  <2>2. CASE Next BY <1>2, <2>2, ProcKeeps, RestartKeeps DEF Next
  <2> QED BY <1>2, <2>1, <2>2
<1> QED BY <1>1, <1>2

\* Every variable stays in its type, whatever the goroutines do and however
\* often the daemon crashes or its device is lost (bucket_factory.go).
THEOREM TypeCorrect == Spec => []TypeOK
<1>1. BucketInv => TypeOK BY DEF BucketInv
<1> QED BY <1>1, BucketInductive, PTL DEF Spec

\* No creation, restore, join or toggle changes the key of a bucket that is
\* recorded, nor loses the record (model/buckets.go:32-125).
THEOREM KeysStay == Spec => KeyIsConstant
<1>1. BucketInv /\ [Next]_vars =>
        [\A s \in Slug : Rec(s) # None /\ meta' # None =>
                           Rec(s)' # None /\ Rec(s)'.key = Rec(s).key]_vars
  BY BucketInductive DEF KeysKept
<1> QED BY <1>1, BucketInductive, PTL DEF Spec, KeyIsConstant

-------------------------------------------------------------------------------
(* A restore *)

\* While keys are to be restored or have been, the replica is known, and until
\* the metathread is there only RestoreDB is at work: nothing makes an empty one.
RestoreInv ==
  phase \in {"lost", "restored"} =>
    /\ hubMeta \in Collection
    /\ meta = None => /\ phase = "lost" /\ ~isInitialized
                      /\ \A p \in Proc : proc[p] = Idle \/ proc[p].op = "RestoreDB"
    /\ meta # None => \A s \in Slug :
         hubMeta[s] # None => Rec(s) # None /\ Rec(s).key = hubMeta[s].key

\* Only the loss of the device lets a restore begin.
LEMMA PhaseMoves ==
  ASSUME NEW p \in Proc, Step(p) \/ Fails(p) \/ Starts(p)
  PROVE  /\ UNCHANGED hubMeta
         /\ phase' \in {"lost", "restored"} => phase \in {"lost", "restored"} 
<1>1. CASE Step(p)
  BY <1>1 DEF Step, FoundMeta, JoinMeta, NewMeta, FindBucket, FindNoBucket, NewDB, CreateRecord,
     FindToCreate, MakeBucket, restoreBuckets, ListBuckets, JoinReplica, SkipReplica,
     joinBucketViaAddress, ReadBucket, CreateJoined, SaveBucket, CreateInJoined, Found
<1>2. CASE Fails(p) BY <1>2 DEF Fails
<1>3. CASE Starts(p)
  BY <1>3 DEF Starts, Initialize, RestoreDB, processCreateBucket, CreateBucket, GetBucket,
     ToggleBucketBackup, JoinBucket, Begin
<1> QED BY <1>1, <1>2, <1>3

\* With a metathread, a step that keeps the keys keeps what was restored.
LEMMA RestoreWithMeta ==
  ASSUME BucketInv, RestoreInv, KeysKept, UNCHANGED hubMeta, meta # None,
         phase' \in {"lost", "restored"} => phase \in {"lost", "restored"}
  PROVE  RestoreInv'
  BY DEF RestoreInv, KeysKept

\* Without one, the steps left are those of RestoreDB.
LEMMA RestoreWithoutMeta ==
  ASSUME BucketInv, RestoreInv, NEW p \in Proc, Step(p) \/ Fails(p) \/ Starts(p),
         meta = None, phase' \in {"lost", "restored"}
  PROVE  RestoreInv'
<1>1. /\ phase = "lost" /\ ~isInitialized /\ hubMeta \in Collection
      /\ \A q \in Proc : proc[q] = Idle \/ proc[q].op = "RestoreDB"
  BY PhaseMoves DEF RestoreInv
<1>2. PlaceAt(p) /\ ~stored BY DEF BucketInv, TypeOK
<1>3. proc[p].at \in {"idle", "meta"} BY <1>2 DEF PlaceAt
<1>4. CASE Step(p)
  <2>1. JoinMeta(p)
    <3>1. FoundMeta(p) \/ JoinMeta(p) \/ NewMeta(p)
      BY <1>3, <1>4
      DEF Step, FindBucket, FindNoBucket, NewDB, CreateRecord, FindToCreate, MakeBucket,
          restoreBuckets, ListBuckets, JoinReplica, SkipReplica, joinBucketViaAddress,
          ReadBucket, CreateJoined, SaveBucket, CreateInJoined, At
    <3>2. ~FoundMeta(p) BY <1>2 DEF FoundMeta
    <3>3. ASSUME NewMeta(p) PROVE FALSE
      <4>1. proc[p].at = "meta" /\ proc[p].op # "RestoreDB"
        BY <3>3 DEF NewMeta, At, shouldForceRestore
      <4>2. proc[p] = Idle BY <1>1, <4>1
      <4> QED BY <4>1, <4>2 DEF Idle
    <3> QED BY <3>1, <3>2, <3>3
  <2>2. meta' = hubMeta /\ UNCHANGED hubMeta /\ hubMeta # None
    BY <2>1 DEF JoinMeta
  <2> QED BY <1>1, <2>2 DEF RestoreInv, Rec
<1>5. CASE Fails(p)
  <2>1. Stop(p) /\ UNCHANGED <<metas, data, mode>>
    BY <1>3, <1>5 DEF Fails, Fail
  <2>2. \A q \in Proc : proc'[q] = Idle \/ proc'[q].op = "RestoreDB"
    BY <1>1, <2>1, StopFields DEF OthersStay, BucketInv
  <2> QED BY <1>1, <2>1, <2>2 DEF RestoreInv
<1>6. CASE Starts(p)
  <2>1. RestoreDB(p)
    BY <1>1, <1>6 DEF Starts, Initialize, processCreateBucket, CreateBucket, GetBucket,
                      ToggleBucketBackup, JoinBucket, Rec
  <2>2. /\ UNCHANGED <<metas, data, mode>>
        /\ proc' = [proc EXCEPT ![p] = [Idle EXCEPT !.op = "RestoreDB", !.slug = None,
                      !.creating = "RestoreDB" = "create",
                      !.at = IF stored THEN First("RestoreDB") ELSE "meta"]]
    BY <2>1 DEF RestoreDB, Begin
  <2>3. \A q \in Proc : proc'[q] = Idle \/ proc'[q].op = "RestoreDB"
    BY <1>1, <2>2 DEF Idle, BucketInv, TypeOK
  <2> QED BY <1>1, <2>2, <2>3 DEF RestoreInv
<1> QED BY <1>4, <1>5, <1>6

\* On another device nothing runs and there is no metathread.
LEMMA RestoreAnew ==
  ASSUME BucketInv, RestoreInv, Crash \/ LoseDevice
  PROVE  RestoreInv'
<1>1. \A p \in Proc : proc'[p] = Idle BY DEF Crash, LoseDevice, Restarted
<1>2. CASE Crash
  BY <1>1, <1>2 DEF Crash, Restarted, RestoreInv, Rec
<1>3. CASE LoseDevice
  <2>1. meta' = None BY <1>3 DEF LoseDevice
  <2>2. hubMeta' \in Collection
    <3>1. meta \in Collection \cup {None} BY DEF BucketInv, TypeOK
    <3>2. Listed \subseteq Slug /\ \A s \in Listed : meta[s] \in Record
      BY <3>1, BucketAssumption DEF Listed, Rec, Collection
    <3>3. PICK sent \in SUBSET Listed :
            hubMeta' = [s \in Slug |-> IF s \in sent THEN meta[s] ELSE None]
      BY <1>3 DEF LoseDevice
    <3> QED BY <3>2, <3>3 DEF Collection
  <2> QED BY <1>1, <1>3, <2>1, <2>2 DEF LoseDevice, Restarted, RestoreInv
<1> QED BY <1>2, <1>3

\* A restore that returned no error has brought back the key of every bucket
\* whose record the hub had, for any number of crashes, lost devices and
\* handlers, when no health check slipped in between (client.go:624-637).
THEOREM RestoresBringKeysBack == Spec => []RestoreBringsKeysBack
<1>1. Init => RestoreInv BY DEF Init, RestoreInv
<1>2. ASSUME BucketInv, RestoreInv, [Next]_vars PROVE RestoreInv'
  <2>1. CASE UNCHANGED vars BY <1>2, <2>1 DEF RestoreInv, Rec
  <2>2. CASE \E p \in Proc : Step(p) \/ Fails(p) \/ Starts(p)
    <3>1. PICK p \in Proc : Step(p) \/ Fails(p) \/ Starts(p) BY <2>2
    <3>2. KeysKept BY <1>2, <3>1, ProcKeeps
    <3>3. CASE meta # None
      BY <1>2, <3>1, <3>2, <3>3, PhaseMoves, RestoreWithMeta
    <3>4. CASE meta = None
      <4>1. CASE phase' \in {"lost", "restored"}
        BY <1>2, <3>1, <3>4, <4>1, RestoreWithoutMeta
      <4>2. CASE phase' \notin {"lost", "restored"} BY <4>2 DEF RestoreInv
      <4> QED BY <4>1, <4>2
    <3> QED BY <3>3, <3>4
  <2>3. CASE Crash \/ LoseDevice BY <1>2, <2>3, RestoreAnew
  <2> QED BY <1>2, <2>1, <2>2, <2>3 DEF Next
<1>3. RestoreInv => RestoreBringsKeysBack BY DEF RestoreInv, RestoreBringsKeysBack
<1> QED BY <1>1, <1>2, <1>3, BucketInductive, PTL DEF Spec

-------------------------------------------------------------------------------
(* The default bucket of an initialized client *)

Default == defaultPersonalBucketSlug

HasDefault == Rec(Default) # None /\ Rec(Default).db \in threads \cap roots

\* A record names the thread it was made for, or the one it was joined with.
OwnOrShared(r) == r.db \in {r.key, Shared}

NewPlaces == {"newdb", "record", "newdb2", "record2"}

\* What a goroutine may save, and what is left to an initialization: until it is
\* done no handler is at work and no record gets another thread, a bucket it is
\* to make has no record, and it has met the default bucket or is yet to.
WorkAt(p) ==
  LET x == proc[p] IN
  /\ x.at = "save" => OwnOrShared(x.rec)
  /\ x.op = "join" /\ x.at \in {"read", "save", "joined"} => Shared \in threads
  /\ ~isInitialized =>
       /\ x.op \in {"idle", "mirror", "initialize", "RestoreDB"}
       /\ x.at = "save" => x.rec.db = Rec(x.slug).db
  /\ x.op = "mirror" => x.at \in {"meta", "read", "save"}
  /\ Initializing(p) => ~isInitialized
  /\ isInitialized /\ ~misled /\ x.at = "save" /\ x.slug = Default =>
       x.rec.db \in threads \cap roots
  /\ ~misled /\ Initializing(p) =>
       /\ x.at \in NewPlaces => Rec(x.slug) = None
       /\ x.at = "make" => Rec(x.slug) # None /\ Rec(x.slug).db = x.db
       /\ x.at \in NewPlaces \cup {"find", "find2", "make"} => Default \in x.todo \/ HasDefault

UsableInv ==
  /\ \A s \in Slug : Rec(s) # None => OwnOrShared(Rec(s))
  /\ hubMeta # None => \A s \in Slug : hubMeta[s] # None => OwnOrShared(hubMeta[s])
  /\ Shared \in roots
  /\ isInitialized /\ ~misled => HasDefault
  /\ \A p, q \in Proc : Initializing(p) /\ Initializing(q) => p = q
  /\ \A p \in Proc : WorkAt(p)

\* What a step of p leaves to the others.
Calm(p) ==
  /\ OthersStay(p) /\ KeysKept /\ UNCHANGED hubMeta
  /\ threads \cap Held \subseteq threads' /\ roots \cap Held \subseteq roots'
  /\ misled => misled'
  /\ isInitialized => isInitialized'
  /\ isInitialized' /\ ~isInitialized => Initializing(p)
  /\ isInitialized' /\ ~misled' => HasDefault'
  /\ ~isInitialized => \A s \in Slug : Rec(s) # None => Rec(s)'.db = Rec(s).db
  /\ ~isInitialized /\ ~Initializing(p) /\ meta # None =>
       \A s \in Slug : Rec(s) = None => Rec(s)' = None
  /\ \A s \in Slug : Rec(s)' # None => OwnOrShared(Rec(s)')
  /\ Initializing(p)' => Initializing(p) \/ \A q \in Proc : ~Initializing(q)

LEMMA HeldFacts ==
  /\ Shared \in Held
  /\ \A s \in Slug : Rec(s) # None => Rec(s).db \in Held /\ Rec(s).key \in Held
<1>1. Shared \in Held BY DEF Held
<1>2. ASSUME NEW s \in Slug, Rec(s) # None PROVE Rec(s).db \in Held /\ Rec(s).key \in Held
  <2>1. meta \in {meta, hubMeta} \ {None} /\ Rec(s) = meta[s] BY <1>2 DEF Rec
  <2>2. Rec(s) \in {m[t] : m \in {meta, hubMeta} \ {None}, t \in Slug} \ {None}
    BY <1>2, <2>1
  <2> QED BY <2>2 DEF Held
<1> QED BY <1>1, <1>2

\* While a client initializes, a default bucket that is there stays.
LEMMA DefaultStays ==
  ASSUME NEW p \in Proc, Calm(p), ~isInitialized, HasDefault
  PROVE  HasDefault'
<1>1. Default \in Slug BY BucketAssumption DEF Default
<1>2. /\ Rec(Default)' # None /\ Rec(Default)'.db = Rec(Default).db
      /\ Rec(Default).db \in Held
  BY <1>1, HeldFacts DEF Calm, KeysKept, HasDefault
<1> QED BY <1>2 DEF Calm, HasDefault

LEMMA OthersWork ==
  ASSUME BucketInv, UsableInv, NEW p \in Proc, Calm(p), NEW q \in Proc, q # p
  PROVE  WorkAt(q)'
<1> DEFINE x == proc[q]
<1>0. x' = x /\ PlaceAt(q) /\ WorkAt(q) /\ x.todo' = x.todo
  BY DEF Calm, OthersStay, BucketInv, UsableInv
<1>1. x.at \in {"save"} \cup NewPlaces \cup {"make"} => x.slug \in Slug /\ meta # None
  BY <1>0 DEF PlaceAt, NewPlaces
<1>2. x.at = "save" => Rec(x.slug) # None /\ x.rec.key = Rec(x.slug).key /\ x.rec.db \in Held
  BY <1>0, <1>1, HeldFacts DEF PlaceAt, WorkAt, OwnOrShared
<1>3. x.op = "join" /\ x.at \in {"read", "save", "joined"} => Shared \in threads'
  BY <1>0, HeldFacts DEF WorkAt, Calm
<1>4. Initializing(q)' = Initializing(q) BY <1>0 DEF Initializing
<1>5. Initializing(q) => ~Initializing(p) /\ ~isInitialized /\ ~isInitialized'
  BY <1>0 DEF WorkAt, UsableInv, Calm
<1>6. ~isInitialized' => ~isInitialized BY DEF Calm
<1>7. ~isInitialized /\ x.at = "save" => x.rec.db = Rec(x.slug)'.db
  BY <1>0, <1>1, <1>2 DEF WorkAt, Calm
<1>8. isInitialized' /\ ~misled' /\ x.at = "save" /\ x.slug = Default =>
        x.rec.db \in threads' \cap roots'
  <2>1. CASE isInitialized
    BY <1>0, <1>2, <2>1 DEF WorkAt, Calm
  <2>2. CASE ~isInitialized
    <3>1. isInitialized' /\ ~misled' =>
            Rec(Default)' # None /\ Rec(Default)'.db \in threads' \cap roots'
      BY DEF Calm, HasDefault
    <3> QED BY <1>0, <1>7, <2>2, <3>1
  <2> QED BY <2>1, <2>2
<1>9. ASSUME ~misled', Initializing(q)
      PROVE  /\ x.at \in NewPlaces => Rec(x.slug)' = None
             /\ x.at = "make" => Rec(x.slug)' # None /\ Rec(x.slug)'.db = x.db
             /\ x.at \in NewPlaces \cup {"find", "find2", "make"} =>
                  Default \in x.todo \/ HasDefault'
  <2>1. ~misled /\ ~isInitialized /\ ~Initializing(p) BY <1>5, <1>9 DEF Calm
  <2>2. x.at \in NewPlaces => Rec(x.slug)' = None
    BY <1>0, <1>1, <1>9, <2>1 DEF WorkAt, Calm
  <2>3. x.at = "make" => Rec(x.slug)' # None /\ Rec(x.slug)'.db = x.db
    BY <1>0, <1>1, <1>9, <2>1 DEF WorkAt, Calm, KeysKept
  <2>4. HasDefault => HasDefault' BY <2>1, DefaultStays
  <2> QED BY <1>0, <1>9, <2>1, <2>2, <2>3, <2>4 DEF WorkAt
<1> QED BY <1>0, <1>3, <1>4, <1>5, <1>6, <1>7, <1>8, <1>9 DEF WorkAt, NewPlaces

LEMMA CombineUsable ==
  ASSUME BucketInv, UsableInv, NEW p \in Proc, Calm(p), WorkAt(p)'
  PROVE  UsableInv'
<1>1. \A q \in Proc : WorkAt(q)' BY OthersWork
<1>2. Shared \in roots' BY HeldFacts DEF Calm, UsableInv
<1>3. \A q \in Proc : q # p => Initializing(q)' = Initializing(q)
  BY DEF Calm, OthersStay, Initializing
<1>4. \A q, r \in Proc : Initializing(q)' /\ Initializing(r)' => q = r
  BY <1>3 DEF UsableInv, Calm
<1> QED BY <1>1, <1>2, <1>4 DEF UsableInv, Calm

\* A step that leaves the records alone and the threads they name.
LEMMA SameRecordsCalm ==
  ASSUME BucketInv, UsableInv, NEW p \in Proc, OthersStay(p),
         UNCHANGED <<meta, hubMeta, isInitialized>>, misled => misled',
         threads \cap Held \subseteq threads', roots \cap Held \subseteq roots',
         Initializing(p)' => Initializing(p) \/ \A q \in Proc : ~Initializing(q)
  PROVE  Calm(p)
<1>1. KeysKept BY SameRecords
<1>2. \A s \in Slug : Rec(s)' = Rec(s) BY DEF Rec
<1>3. isInitialized /\ ~misled' => HasDefault'
  <2>1. Default \in Slug BY BucketAssumption DEF Default
  <2>2. isInitialized /\ ~misled' => HasDefault /\ Rec(Default).db \in Held
    BY <2>1, HeldFacts DEF UsableInv, HasDefault
  <2> QED BY <1>2, <2>1, <2>2 DEF HasDefault
<1> QED BY <1>1, <1>2, <1>3 DEF Calm, UsableInv

\* A goroutine that is done owes nothing.
LEMMA StopWork ==
  ASSUME TypeOK, NEW p \in Proc, Stop(p)
  PROVE  OthersStay(p) /\ WorkAt(p)' /\ ~Initializing(p)'
  BY StopFields DEF WorkAt, Idle, Initializing, NewPlaces

\* A step that makes a record, if there is none.
LEMMA RecordedFacts ==
  ASSUME BucketInv, NEW s \in Slug, NEW d \in Threads, meta # None, meta' = Recorded(s, d)
  PROVE  /\ \A t \in Slug : Rec(t) # None => Rec(t)' = Rec(t)
         /\ \A t \in Slug : Rec(t) = None /\ t # s => Rec(t)' = None
         /\ Rec(s) = None => Rec(s)' # None /\ Rec(s)'.db = d /\ OwnOrShared(Rec(s)')
<1>1. meta \in Collection BY DEF BucketInv, TypeOK
<1>2. CASE Rec(s) # None
  BY <1>2 DEF Recorded, Rec
<1>3. CASE Rec(s) = None
  <2> DEFINE r == [db |-> d, key |-> d, mirror |-> FALSE]
  <2>1. r \in Record /\ r.db = d /\ OwnOrShared(r) BY DEF Record, OwnOrShared
  <2>2. meta' = [meta EXCEPT ![s] = r] BY <1>3 DEF Recorded
  <2> HIDE DEF r
  <2>3. meta' \in Collection BY <1>1, <2>1, <2>2 DEF Collection
  <2>4. r # None BY <2>1, BucketAssumption
  <2>5. /\ meta'[s] = r /\ \A t \in Slug : t # s => meta'[t] = meta[t]
        /\ meta' # None
    BY <1>1, <2>2, <2>3, BucketAssumption DEF Collection
  <2>6. Rec(s)' = r /\ \A t \in Slug : t # s => Rec(t)' = Rec(t) BY <2>5 DEF Rec
  <2> QED BY <1>3, <2>1, <2>4, <2>6
<1> QED BY <1>2, <1>3

LEMMA RecordedCalm ==
  ASSUME BucketInv, UsableInv, NEW p \in Proc, OthersStay(p),
         NEW s \in Slug, NEW d \in Threads, meta # None, meta' = Recorded(s, d),
         UNCHANGED hubMeta, misled => misled', isInitialized => isInitialized',
         threads \cap Held \subseteq threads', roots \cap Held \subseteq roots',
         isInitialized' /\ ~isInitialized => Initializing(p) /\ (~misled' => HasDefault'),
         ~isInitialized => Initializing(p),
         Initializing(p)' => Initializing(p)
  PROVE  Calm(p)
<1>1. KeysKept BY RecordedKeeps
<1>2. \A t \in Slug : Rec(t)' # None => OwnOrShared(Rec(t)')
  BY RecordedFacts DEF UsableInv
<1>3. isInitialized /\ ~misled' => HasDefault'
  <2>1. Default \in Slug BY BucketAssumption DEF Default
  <2>2. isInitialized /\ ~misled' => HasDefault /\ Rec(Default).db \in Held
    BY <2>1, HeldFacts DEF UsableInv, HasDefault
  <2>3. isInitialized /\ ~misled' => Rec(Default)' = Rec(Default)
    BY <2>1, <2>2, RecordedFacts DEF HasDefault
  <2> QED BY <2>1, <2>2, <2>3 DEF HasDefault
<1>4. \A t \in Slug : Rec(t) # None => Rec(t)' = Rec(t) BY RecordedFacts
<1>5. isInitialized' /\ ~misled' => HasDefault' BY <1>3
<1>6. ~isInitialized => \A t \in Slug : Rec(t) # None => Rec(t)'.db = Rec(t).db BY <1>4
<1> QED BY <1>1, <1>2, <1>5, <1>6 DEF Calm

\* The metathread is found, joined or made: there is no record to be lost yet.
LEMMA MetaUsable ==
  ASSUME BucketInv, UsableInv, NEW p \in Proc, FoundMeta(p) \/ JoinMeta(p) \/ NewMeta(p)
  PROVE  UsableInv'
<1>1. /\ At(p, "meta") /\ UNCHANGED <<hubMeta, data, mode>>
      /\ To(p, First(proc[p].op)) \/ Stop(p)
  BY DEF FoundMeta, JoinMeta, NewMeta
<1>2. OthersStay(p) /\ WorkAt(p)' /\ (Initializing(p)' => Initializing(p))
  <2>1. CASE Stop(p) BY <2>1, StopWork DEF BucketInv
  <2>2. CASE To(p, First(proc[p].op))
    <3>1. proc[p].op \in Ops /\ WorkAt(p) /\ PlaceAt(p) BY DEF BucketInv, TypeOK, UsableInv
    <3>2. /\ OthersStay(p) /\ proc'[p].at = First(proc[p].op) /\ proc'[p].op = proc[p].op
      BY <1>1, <2>2, FirstPlace, ToFields DEF BucketInv
    <3>3. /\ proc'[p].at \in {"list", "find", "addr", "read"}
          /\ proc'[p].at = "read" => proc[p].op # "join"
          /\ proc[p].op \in {"initialize", "RestoreDB"} => proc'[p].at = "list"
          /\ proc[p].op = "mirror" => proc'[p].at = "read"
      BY <1>1, <3>1, <3>2 DEF First, Ops, PlaceAt, At
    <3> QED BY <1>1, <3>1, <3>2, <3>3 DEF WorkAt, Initializing, NewPlaces
  <2> QED BY <1>1, <2>1, <2>2
<1>3. CASE meta' = meta
  BY <1>1, <1>2, <1>3, SameRecordsCalm, CombineUsable
<1>4. CASE meta' # meta
  <2>1. meta = None /\ (meta' = hubMeta \/ meta' = Empty)
    BY <1>4 DEF FoundMeta, JoinMeta, NewMeta
  <2>2. KeysKept BY MetaKeeps
  <2>3. isInitialized => misled BY <2>1 DEF UsableInv, HasDefault, Rec
  <2>4. \A s \in Slug : Rec(s) = None BY <2>1 DEF Rec
  <2>5. \A s \in Slug : Rec(s)' # None => OwnOrShared(Rec(s)')
    <3>1. CASE meta' = hubMeta BY <3>1 DEF UsableInv, Rec
    <3>2. CASE meta' = Empty BY <3>2 DEF Empty, Rec
    <3> QED BY <2>1, <3>1, <3>2
  <2>6. Calm(p) BY <1>1, <1>2, <2>1, <2>2, <2>3, <2>4, <2>5 DEF Calm
  <2> QED BY <1>2, <2>6, CombineUsable
<1> QED BY <1>3, <1>4

\* A bucket was found: the initialization goes on with the next one, or it is
\* done and has met the default one.
LEMMA FoundWork ==
  ASSUME BucketInv, UsableInv, NEW p \in Proc, Found(p), meta' # None,
         Initializing(p) /\ ~misled => \/ proc[p].slug = Default /\ HasDefault'
                                       \/ Default \in proc[p].todo \ {proc[p].slug}
                                       \/ HasDefault'
  PROVE  /\ OthersStay(p) /\ WorkAt(p)' /\ UNCHANGED misled
         /\ isInitialized => isInitialized'
         /\ Initializing(p)' => Initializing(p)
         /\ isInitialized' /\ ~isInitialized => Initializing(p) /\ (~misled' => HasDefault')
<1> DEFINE todo == proc[p].todo \ {proc[p].slug}
<1>1. todo \in SUBSET Slug /\ WorkAt(p) BY DEF BucketInv, TypeOK, UsableInv
<1>2. CASE Initializing(p) /\ todo # {}
  <2>1. ToBucket(p, todo) /\ UNCHANGED mode BY <1>2 DEF Found
  <2>2. /\ OthersStay(p) /\ proc'[p].at = "find" /\ proc'[p].op = proc[p].op
        /\ proc'[p].todo = todo
    BY <1>1, <1>2, <2>1, ToBucketFields
  <2>3. Initializing(p)' BY <1>2, <2>2 DEF Initializing
  <2>4. ~misled => Default \in todo \/ HasDefault' BY <1>2
  <2> HIDE DEF todo
  <2>5. WorkAt(p)'
    BY <1>1, <1>2, <2>1, <2>2, <2>4 DEF WorkAt, NewPlaces, Initializing
  <2> QED BY <1>2, <2>1, <2>2, <2>5
<1>3. CASE ~(Initializing(p) /\ todo # {})
  <2>1. /\ Stop(p) /\ UNCHANGED misled
        /\ isInitialized' = (isInitialized \/ Initializing(p))
    BY <1>3 DEF Found
  <2>2. isInitialized \in BOOLEAN BY DEF BucketInv, TypeOK
  <2> QED BY <1>3, <2>1, <2>2, StopWork DEF BucketInv
<1> QED BY <1>2, <1>3

\* What is found, and what is made for a bucket that is not.
LEMMA FindUsable ==
  ASSUME BucketInv, UsableInv, NEW p \in Proc,
         FindBucket(p) \/ FindNoBucket(p) \/ NewDB(p) \/ FindToCreate(p)
  PROVE  UsableInv'
<1>1. /\ PlaceAt(p) /\ WorkAt(p) /\ TypeOK /\ proc[p].slug \in Slug /\ meta # None
      /\ proc[p].at \in {"find", "newdb", "find2", "newdb2"}
  BY DEF FindBucket, FindNoBucket, NewDB, FindToCreate, At, PlaceAt, BucketInv, UsableInv
<1>2. proc[p].op # "mirror" BY <1>1 DEF WorkAt
<1>3. Initializing(p) /\ ~misled => Default \in proc[p].todo \/ HasDefault
  BY <1>1 DEF WorkAt, NewPlaces
<1>4. CASE FindBucket(p)
  <2>1. UNCHANGED <<metas, data>> /\ Found(p) BY <1>4 DEF FindBucket
  <2>2. HasDefault' = HasDefault BY <2>1 DEF HasDefault, Rec
  <2>3. proc[p].slug = Default => HasDefault
    BY <1>4 DEF FindBucket, HasDefault
  <2>4. /\ OthersStay(p) /\ WorkAt(p)' /\ UNCHANGED misled
        /\ isInitialized => isInitialized'
        /\ Initializing(p)' => Initializing(p)
        /\ isInitialized' /\ ~isInitialized => Initializing(p) /\ (~misled' => HasDefault')
    BY <1>1, <1>3, <2>1, <2>2, <2>3, FoundWork
  <2>5. KeysKept /\ \A s \in Slug : Rec(s)' = Rec(s) BY <2>1, SameRecords DEF Rec
  <2>6. isInitialized' /\ ~misled' => HasDefault' BY <2>2, <2>4 DEF UsableInv
  <2>7. Calm(p) BY <2>1, <2>4, <2>5, <2>6 DEF Calm, UsableInv
  <2> QED BY <2>4, <2>7, CombineUsable
<1>5. CASE FindNoBucket(p)
  <2>1. PICK at \in {"newdb", "newdb2"} : To(p, at) BY <1>5 DEF FindNoBucket
  <2>2. /\ OthersStay(p) /\ proc'[p].at = at /\ proc'[p].op = proc[p].op
        /\ proc'[p].slug = proc[p].slug /\ proc'[p].todo = proc[p].todo
    BY <2>1, ToFields DEF BucketInv, Places
  <2>3. /\ UNCHANGED <<metas, data, isInitialized, phase, faults>>
        /\ misled' = (misled \/ Rec(proc[p].slug) # None) /\ misled \in BOOLEAN
    BY <1>1, <1>5 DEF FindNoBucket, TypeOK
  <2>4. /\ Initializing(p)' = Initializing(p) /\ HasDefault' = HasDefault
        /\ Rec(proc[p].slug)' = Rec(proc'[p].slug)
    BY <2>2, <2>3 DEF Initializing, HasDefault, Rec
  <2>5. Rec(proc'[p].slug) = Rec(proc[p].slug) BY <2>2
  <2>6. WorkAt(p)'
    BY <1>1, <1>2, <1>3, <2>2, <2>3, <2>4, <2>5 DEF WorkAt, NewPlaces
  <2>7. Calm(p) BY <2>2, <2>3, <2>4, SameRecordsCalm
  <2> QED BY <2>6, <2>7, CombineUsable
<1>6. CASE NewDB(p)
  <2>1. PICK d \in Threads, at \in {"record", "record2"} :
          /\ proc' = [proc EXCEPT ![p].at = at, ![p].db = d]
          /\ threads' = (threads \cap Held) \cup {d} /\ roots' = roots \cap Held
          /\ UNCHANGED <<metas, hubThreads, mode>>
    BY <1>6 DEF NewDB
  <2>2. /\ OthersStay(p) /\ proc'[p].at = at /\ proc'[p].op = proc[p].op
        /\ proc'[p].slug = proc[p].slug /\ proc'[p].todo = proc[p].todo
    BY <2>1, ToWithDB DEF BucketInv, Places
  <2>3. Initializing(p)' = Initializing(p) BY <2>2 DEF Initializing
  <2>4. Calm(p) BY <2>1, <2>2, <2>3, SameRecordsCalm
  <2>5. Initializing(p) => ~isInitialized BY <1>1 DEF WorkAt
  <2>6. Initializing(p) /\ ~misled => Default \in proc'[p].todo \/ HasDefault'
    BY <1>3, <2>2, <2>4, <2>5, DefaultStays
  <2>7. proc[p].at \in NewPlaces BY <1>6 DEF NewDB, NewPlaces
  <2>8. Initializing(p) /\ ~misled => Rec(proc[p].slug) = None BY <1>1, <2>7 DEF WorkAt
  <2>9. Initializing(p) /\ ~misled => Rec(proc[p].slug)' = None
    BY <2>1, <2>2, <2>8 DEF Rec
  <2>10. WorkAt(p)'
    BY <1>1, <1>2, <2>1, <2>2, <2>3, <2>6, <2>9 DEF WorkAt, NewPlaces
  <2> QED BY <2>4, <2>10, CombineUsable
<1>7. CASE FindToCreate(p)
  <2> DEFINE d == Rec(proc[p].slug).db
  <2>1. d \in Threads BY <1>1, <1>7 DEF FindToCreate, Rec, Record, TypeOK, Collection
  <2>2. proc' = [proc EXCEPT ![p].at = "make", ![p].db = d] BY <1>7 DEF FindToCreate
  <2> HIDE DEF d
  <2>3. /\ OthersStay(p) /\ proc'[p].at = "make" /\ proc'[p].db = d /\ proc'[p].op = proc[p].op
        /\ proc'[p].slug = proc[p].slug /\ proc'[p].todo = proc[p].todo
    BY <2>1, <2>2, ToWithDB DEF BucketInv, Places
  <2>4. UNCHANGED <<metas, data, mode>> /\ Rec(proc[p].slug) # None
    BY <1>7 DEF FindToCreate
  <2>5. /\ Initializing(p)' = Initializing(p) /\ HasDefault' = HasDefault
        /\ Rec(proc[p].slug)' # None /\ Rec(proc[p].slug)'.db = d
    BY <2>3, <2>4 DEF Initializing, HasDefault, Rec, d
  <2>6. WorkAt(p)' BY <1>1, <1>2, <1>3, <2>3, <2>4, <2>5 DEF WorkAt, NewPlaces
  <2>7. Calm(p) BY <2>3, <2>4, <2>5, SameRecordsCalm
  <2> QED BY <2>6, <2>7, CombineUsable
<1> QED BY <1>4, <1>5, <1>6, <1>7

\* Who makes records and buckets for the default one.
LEMMA CreateUsable ==
  ASSUME BucketInv, UsableInv, NEW p \in Proc, CreateRecord(p) \/ MakeBucket(p)
  PROVE  UsableInv'
<1>1. /\ PlaceAt(p) /\ WorkAt(p) /\ TypeOK /\ meta # None
      /\ proc[p].at \in {"record", "record2", "make"} /\ proc[p].db \in Threads
  BY DEF CreateRecord, MakeBucket, At, PlaceAt, BucketInv, UsableInv
<1>2. PICK s \in Slug : s = proc[p].slug BY <1>1 DEF PlaceAt
<1>3. /\ meta' = Recorded(s, proc[p].db) /\ UNCHANGED <<stored, hubMeta, threads, hubThreads>>
      /\ roots \subseteq roots'
  BY <1>2 DEF CreateRecord, MakeBucket
<1>4. proc[p].op \notin {"idle", "mirror"} /\ (~isInitialized => Initializing(p))
  BY <1>1 DEF WorkAt, PlaceAt, Initializing
<1>5. /\ meta' # None
      /\ \A t \in Slug : Rec(t) # None => Rec(t)' = Rec(t)
      /\ Rec(s) = None => Rec(s)' # None /\ Rec(s)'.db = proc[p].db
  BY <1>1, <1>3, RecordedFacts, RecordedKeeps DEF KeysKept
<1>6. HasDefault => HasDefault'
  BY <1>3, <1>5, BucketAssumption DEF HasDefault, Default
<1>7. Initializing(p) /\ ~misled => Default \in proc[p].todo \/ HasDefault'
  BY <1>1, <1>6 DEF WorkAt, NewPlaces
<1>8. CASE CreateRecord(p)
  <2>1. UNCHANGED mode BY <1>8 DEF CreateRecord
  <2>2. OthersStay(p) /\ WorkAt(p)' /\ (Initializing(p)' => Initializing(p))
    <3>1. CASE Stop(p) BY <1>1, <3>1, StopWork
    <3>2. CASE To(p, "find2") \/ (At(p, "record2") /\ To(p, "make"))
      <4>1. PICK at \in {"find2", "make"} :
              To(p, at) /\ (at = "make" => proc[p].at = "record2")
        BY <3>2 DEF At
      <4>2. /\ OthersStay(p) /\ proc'[p].at = at /\ proc'[p].op = proc[p].op
            /\ proc'[p].slug = s /\ proc'[p].todo = proc[p].todo /\ proc'[p].db = proc[p].db
        BY <1>2, <4>1, ToFields DEF BucketInv, Places
      <4>3. Initializing(p)' = Initializing(p) BY <4>2 DEF Initializing
      <4>4. at = "make" /\ Initializing(p) /\ ~misled => Rec(s) = None
        BY <1>1, <1>2, <4>1 DEF WorkAt, NewPlaces
      <4>5. /\ Rec(proc[p].slug)' = Rec(s)'
            /\ at = "make" /\ Initializing(p) /\ ~misled =>
                 Rec(s)' # None /\ Rec(s)'.db = proc[p].db
        BY <1>2, <1>5, <4>2, <4>4 DEF Rec
      <4>6. WorkAt(p)'
        BY <1>1, <1>2, <1>4, <1>7, <2>1, <4>2, <4>3, <4>5 DEF WorkAt, NewPlaces
      <4> QED BY <4>2, <4>3, <4>6
    <3> QED BY <1>8, <3>1, <3>2 DEF CreateRecord, Fail, At
  <2>3. Calm(p) BY <1>1, <1>3, <1>4, <2>1, <2>2, RecordedCalm
  <2> QED BY <2>2, <2>3, CombineUsable
<1>9. CASE MakeBucket(p)
  <2>1. proc[p].db \in threads' \cap roots' /\ Found(p)
    BY <1>1, <1>9 DEF MakeBucket, TypeOK
  <2>2. Initializing(p) /\ ~misled => Rec(s) # None /\ Rec(s).db = proc[p].db
    BY <1>1, <1>2, <1>9 DEF MakeBucket, At, WorkAt
  <2>3. Initializing(p) /\ ~misled /\ s = Default => HasDefault'
    BY <1>5, <2>1, <2>2 DEF HasDefault
  <2>4. /\ OthersStay(p) /\ WorkAt(p)' /\ UNCHANGED misled
        /\ isInitialized => isInitialized'
        /\ Initializing(p)' => Initializing(p)
        /\ isInitialized' /\ ~isInitialized => Initializing(p) /\ (~misled' => HasDefault')
    BY <1>2, <1>5, <1>7, <2>1, <2>3, FoundWork
  <2>5. Calm(p) BY <1>1, <1>3, <1>4, <2>4, RecordedCalm
  <2> QED BY <2>4, <2>5, CombineUsable
<1> QED BY <1>8, <1>9

\* The threads are joined before any bucket is looked for.
LEMMA RestoreUsable ==
  ASSUME BucketInv, UsableInv, NEW p \in Proc,
         \/ restoreBuckets(p) \/ ListBuckets(p)
         \/ \E s \in Slug : JoinReplica(p, s) \/ SkipReplica(p, s)
  PROVE  UsableInv'
<1>1. PlaceAt(p) /\ WorkAt(p) /\ TypeOK BY DEF BucketInv, UsableInv
<1>2. /\ proc[p].at \in {"list", "restore"} /\ Initializing(p) /\ meta # None /\ ~isInitialized
  BY <1>1 DEF restoreBuckets, ListBuckets, JoinReplica, SkipReplica, At, PlaceAt, WorkAt
<1>3. UNCHANGED <<metas, hubThreads, roots, mode>> /\ threads \subseteq threads'
  BY DEF restoreBuckets, ListBuckets, JoinReplica, SkipReplica
<1>4. OthersStay(p) /\ WorkAt(p)'
  <2>1. CASE ToBuckets(p)
    <3>1. /\ OthersStay(p) /\ proc'[p].at = "find" /\ proc'[p].op = proc[p].op
          /\ Default \in proc'[p].todo
      BY <1>2, <1>3, <2>1, ToBucketsFields DEF Default
    <3> QED BY <1>1, <1>2, <1>3, <3>1 DEF WorkAt, NewPlaces, Initializing
  <2>2. CASE proc' = [proc EXCEPT ![p].at = "restore", ![p].todo = Listed]
    <3> DEFINE todo == Listed
    <3>1. todo \in SUBSET Slug /\ proc' = [proc EXCEPT ![p].at = "restore", ![p].todo = todo]
      BY <2>2 DEF Listed
    <3> HIDE DEF todo
    <3>2. OthersStay(p) /\ proc'[p].at = "restore" /\ proc'[p].op = proc[p].op
      BY <3>1, ToWithTodo DEF BucketInv
    <3> QED BY <1>1, <1>2, <1>3, <3>2 DEF WorkAt, NewPlaces, Initializing
  <2>3. CASE \E s \in Slug : SkipReplica(p, s)
    <3>1. PICK s \in Slug : SkipReplica(p, s) BY <2>3
    <3> DEFINE x == [proc[p] EXCEPT !.todo = @ \ {s}]
    <3>2. proc' = [proc EXCEPT ![p] = x] /\ proc[p].at = "restore" BY <3>1 DEF SkipReplica, At
    <3>3. x.at = proc[p].at /\ x.op = proc[p].op BY <1>1 DEF TypeOK
    <3> HIDE DEF x
    <3>4. OthersStay(p) /\ proc'[p] = x BY <1>1, <3>2 DEF TypeOK, OthersStay
    <3> QED BY <1>1, <1>2, <1>3, <3>2, <3>3, <3>4 DEF WorkAt, NewPlaces, Initializing
  <2>4. CASE \E s \in Slug : JoinReplica(p, s)
    <3>1. PICK s \in Slug : JoinReplica(p, s) BY <2>4
    <3>2. Rec(s) # None BY <1>1, <1>2, <3>1 DEF JoinReplica, At, PlaceAt
    <3> DEFINE r == Rec(s)
               x == [proc[p] EXCEPT !.at = "save", !.slug = s, !.rec = r]
    <3>3. proc' = [proc EXCEPT ![p] = x] BY <3>1 DEF JoinReplica
    <3>4. OwnOrShared(r) /\ Rec(s)' = r BY <1>3, <3>2 DEF UsableInv, Rec
    <3> HIDE DEF r
    <3>5. x.at = "save" /\ x.slug = s /\ x.rec = r /\ x.op = proc[p].op BY <1>1 DEF TypeOK
    <3> HIDE DEF x
    <3>6. OthersStay(p) /\ proc'[p] = x BY <1>1, <3>3 DEF TypeOK, OthersStay
    <3> QED BY <1>1, <1>2, <1>3, <3>4, <3>5, <3>6 DEF WorkAt, NewPlaces, Initializing, Rec
  <2> QED BY <2>1, <2>2, <2>3, <2>4 DEF restoreBuckets, ListBuckets
<1>5. Calm(p) BY <1>2, <1>3, <1>4, SameRecordsCalm
<1> QED BY <1>4, <1>5, CombineUsable

\* What a handler or the synchronizer saves is what it read, with another thread
\* only if it is the one that was joined.
LEMMA SaveUsable ==
  ASSUME BucketInv, UsableInv, NEW p \in Proc,
         \/ joinBucketViaAddress(p) \/ ReadBucket(p) \/ CreateJoined(p)
         \/ SaveBucket(p) \/ CreateInJoined(p)
  PROVE  UsableInv'
<1>1. /\ PlaceAt(p) /\ WorkAt(p) /\ TypeOK /\ meta # None /\ meta \in Collection
      /\ proc[p].at \in {"addr", "read", "save", "joined"}
  BY DEF joinBucketViaAddress, ReadBucket, CreateJoined, SaveBucket, CreateInJoined, At,
         PlaceAt, BucketInv, UsableInv, TypeOK
<1>2. PICK s \in Slug : s = proc[p].slug BY <1>1 DEF PlaceAt
<1>3. CASE joinBucketViaAddress(p)
  <2>1. /\ To(p, "read") /\ UNCHANGED <<metas, hubThreads, roots, mode>> /\ proc[p].op = "join"
        /\ threads' = threads \cup {Shared}
    BY <1>1, <1>3 DEF joinBucketViaAddress, At, PlaceAt
  <2>2. OthersStay(p) /\ proc'[p].at = "read" /\ proc'[p].op = "join"
    BY <2>1, ToFields DEF BucketInv, Places
  <2>3. WorkAt(p)' BY <1>1, <2>1, <2>2 DEF WorkAt, NewPlaces, Initializing
  <2>4. Calm(p) BY <2>1, <2>2, SameRecordsCalm DEF Initializing
  <2> QED BY <2>3, <2>4, CombineUsable
<1>4. CASE ReadBucket(p)
  <2> DEFINE r == Changed(p, Rec(s))
  <2>1. /\ proc[p].op \in {"toggle", "mirror", "join"} /\ proc[p].at = "read" /\ Rec(s) # None
        /\ Rec(s) \in Record
    BY <1>1, <1>2, <1>4 DEF ReadBucket, At, PlaceAt, Rec, Collection
  <2>2. r \in Record /\ OwnOrShared(r) /\ r.db = IF proc[p].op = "join" THEN Shared ELSE Rec(s).db
    BY <2>1 DEF Changed, Record, Threads, UsableInv, OwnOrShared
  <2>3. proc' = [proc EXCEPT ![p].at = "save", ![p].rec = r] /\ UNCHANGED <<metas, data, mode>>
    BY <1>2, <1>4 DEF ReadBucket
  <2> HIDE DEF r
  <2>4. /\ OthersStay(p) /\ proc'[p].at = "save" /\ proc'[p].rec = r
        /\ proc'[p].op = proc[p].op /\ proc'[p].slug = s
    BY <1>2, <2>2, <2>3, ToWithRec DEF BucketInv, Places
  <2>5. Rec(proc[p].slug)' = Rec(s) BY <2>3, <2>4 DEF Rec
  <2>6. ~isInitialized => r.db = Rec(s).db BY <1>1, <2>1, <2>2 DEF WorkAt
  <2>7. proc[p].op = "join" => Shared \in threads /\ Shared \in roots
    BY <1>1, <2>1 DEF WorkAt, UsableInv
  <2>8. isInitialized /\ ~misled /\ s = Default => r.db \in threads \cap roots
    BY <2>2, <2>7 DEF UsableInv, HasDefault
  <2>9. WorkAt(p)'
    BY <1>1, <2>1, <2>2, <2>3, <2>4, <2>5, <2>6, <2>7, <2>8
    DEF WorkAt, NewPlaces, Initializing
  <2>10. Calm(p) BY <2>1, <2>3, <2>4, SameRecordsCalm DEF Initializing
  <2> QED BY <2>9, <2>10, CombineUsable
<1>5. CASE CreateJoined(p)
  <2>1. /\ meta' = Recorded(s, Shared) /\ To(p, "joined") /\ proc[p].op = "join"
        /\ UNCHANGED <<stored, hubMeta, data, mode>> /\ proc[p].at = "read"
    BY <1>2, <1>5 DEF CreateJoined, At
  <2>2. Shared \in Threads BY DEF Threads
  <2>3. OthersStay(p) /\ proc'[p].at = "joined" /\ proc'[p].op = "join"
    BY <2>1, ToFields DEF BucketInv, Places
  <2>4. isInitialized /\ ~Initializing(p)' BY <1>1, <2>1, <2>3 DEF WorkAt, Initializing
  <2>5. WorkAt(p)' BY <1>1, <2>1, <2>3, <2>4 DEF WorkAt, NewPlaces
  <2>6. Calm(p) BY <1>1, <2>1, <2>2, <2>3, <2>4, RecordedCalm
  <2> QED BY <2>5, <2>6, CombineUsable
<1>6. CASE SaveBucket(p)
  <2>1. proc[p].at = "save" /\ UNCHANGED <<stored, hubMeta, data, mode>>
    BY <1>6 DEF SaveBucket, At
  <2>2. /\ Rec(s) # None /\ proc[p].rec \in Record /\ proc[p].rec.key = Rec(s).key
        /\ OwnOrShared(proc[p].rec)
    BY <1>1, <1>2, <2>1 DEF PlaceAt, WorkAt
  <2>3. OthersStay(p) /\ WorkAt(p)' /\ (Initializing(p)' => Initializing(p))
    <3>1. CASE Stop(p) BY <1>1, <3>1, StopWork
    <3>2. CASE /\ proc[p].op # "mirror"
               /\ \E at \in {"find", "joined"} :
                    /\ proc' = [proc EXCEPT ![p].at = at, ![p].rec = None]
                    /\ at = "find" => proc[p].op = "toggle"
      <4>1. PICK at \in {"find", "joined"} :
              /\ proc' = [proc EXCEPT ![p].at = at, ![p].rec = None]
              /\ at = "find" => proc[p].op = "toggle"
        BY <3>2
      <4>2. OthersStay(p) /\ proc'[p].at = at /\ proc'[p].op = proc[p].op
        BY <4>1, ToWithRec DEF BucketInv, Places
      <4> QED BY <1>1, <2>1, <3>2, <4>1, <4>2 DEF WorkAt, NewPlaces, Initializing
    <3> QED BY <1>6, <3>1, <3>2 DEF SaveBucket
  <2>4. CASE UNCHANGED meta
    <3>1. Calm(p) BY <2>1, <2>3, <2>4, SameRecordsCalm
    <3> QED BY <2>3, <3>1, CombineUsable
  <2>5. CASE meta' = [meta EXCEPT ![s] = proc[p].rec]
    <3> DEFINE r == proc[p].rec
    <3>1. KeysKept BY <2>2, <2>5, OneRecord
    <3>2. meta' # None BY <1>1, <3>1 DEF KeysKept
    <3>3. Rec(s)' = r /\ \A t \in Slug : t # s => Rec(t)' = Rec(t)
      BY <1>1, <2>5, <3>2 DEF Rec, Collection
    <3>4. /\ r # None /\ OwnOrShared(r) /\ (~isInitialized => r.db = Rec(s).db)
          /\ isInitialized /\ ~misled /\ s = Default => r.db \in threads \cap roots
      BY <1>1, <1>2, <2>1, <2>2, BucketAssumption DEF WorkAt
    <3> HIDE DEF r
    <3>5. isInitialized /\ ~misled => HasDefault'
      <4>1. Default \in Slug BY BucketAssumption DEF Default
      <4>2. CASE s = Default BY <2>1, <3>3, <3>4, <4>2 DEF HasDefault
      <4>3. CASE s # Default BY <2>1, <3>3, <4>1, <4>3 DEF HasDefault, UsableInv
      <4> QED BY <4>2, <4>3
    <3>6. \A t \in Slug : Rec(t)' # None => OwnOrShared(Rec(t)')
      BY <3>3, <3>4 DEF UsableInv
    <3>7. /\ ~isInitialized => \A t \in Slug : Rec(t) # None => Rec(t)'.db = Rec(t).db
          /\ \A t \in Slug : Rec(t) = None => Rec(t)' = None
      BY <2>2, <3>3, <3>4
    <3>8. Calm(p) BY <2>1, <2>3, <3>1, <3>5, <3>6, <3>7 DEF Calm
    <3> QED BY <2>3, <3>8, CombineUsable
  <2> QED BY <1>2, <1>6, <2>4, <2>5 DEF SaveBucket
<1>7. CASE CreateInJoined(p)
  <2>1. /\ UNCHANGED <<metas, threads, hubThreads, mode>> /\ roots \subseteq roots'
        /\ proc[p].at = "joined"
    BY <1>7 DEF CreateInJoined, At
  <2>2. OthersStay(p) /\ WorkAt(p)' /\ (Initializing(p)' => Initializing(p))
    <3>1. CASE Stop(p) BY <1>1, <3>1, StopWork
    <3>2. CASE /\ Initializing(p)
               /\ proc' = [proc EXCEPT ![p].at = "restore", ![p].todo = @ \ {proc[p].slug}]
      <4> DEFINE todo == proc[p].todo \ {proc[p].slug}
      <4>1. todo \in SUBSET Slug BY <1>1 DEF TypeOK
      <4>2. proc' = [proc EXCEPT ![p].at = "restore", ![p].todo = todo] BY <3>2
      <4> HIDE DEF todo
      <4>3. OthersStay(p) /\ proc'[p].at = "restore" /\ proc'[p].op = proc[p].op
        BY <4>1, <4>2, ToWithTodo DEF BucketInv
      <4> QED BY <1>1, <2>1, <3>2, <4>3 DEF WorkAt, NewPlaces, Initializing
    <3> QED BY <1>7, <3>1, <3>2 DEF CreateInJoined
  <2>3. Calm(p) BY <2>1, <2>2, SameRecordsCalm
  <2> QED BY <2>2, <2>3, CombineUsable
<1> QED BY <1>3, <1>4, <1>5, <1>6, <1>7

\* A call that fails leaves nothing to save, and an initialization where it was
\* or at an end.
LEMMA FailUsable ==
  ASSUME BucketInv, UsableInv, NEW p \in Proc, Fails(p)
  PROVE  UsableInv'
<1>1. PlaceAt(p) /\ WorkAt(p) /\ TypeOK /\ UNCHANGED <<metas, data, mode>>
  BY DEF BucketInv, UsableInv, Fails
<1>2. OthersStay(p) /\ WorkAt(p)' /\ (Initializing(p)' => Initializing(p))
  <2>1. CASE Stop(p) BY <1>1, <2>1, StopWork
  <2>2. CASE proc[p].at \in {"find", "newdb", "record"} /\ To(p, "find2")
    <3>1. /\ OthersStay(p) /\ proc'[p].at = "find2" /\ proc'[p].op = proc[p].op
          /\ proc'[p].todo = proc[p].todo
      BY <2>2, ToFields DEF BucketInv, Places
    <3>2. HasDefault' = HasDefault BY <1>1 DEF HasDefault, Rec
    <3> QED BY <1>1, <2>2, <3>1, <3>2 DEF WorkAt, NewPlaces, Initializing
  <2>3. CASE /\ proc[p].op = "initialize" /\ proc[p].at \in {"save", "joined"}
             /\ proc' = [proc EXCEPT ![p].at = "restore", ![p].todo = @ \ {proc[p].slug}]
    <3> DEFINE todo == proc[p].todo \ {proc[p].slug}
    <3>1. todo \in SUBSET Slug BY <1>1 DEF TypeOK
    <3>2. proc' = [proc EXCEPT ![p].at = "restore", ![p].todo = todo] BY <2>3
    <3> HIDE DEF todo
    <3>3. OthersStay(p) /\ proc'[p].at = "restore" /\ proc'[p].op = proc[p].op
      BY <3>1, <3>2, ToWithTodo DEF BucketInv
    <3> QED BY <1>1, <2>3, <3>3 DEF WorkAt, NewPlaces, Initializing
  <2> QED BY <2>1, <2>2, <2>3 DEF Fails, Fail
<1>3. Calm(p) BY <1>1, <1>2, SameRecordsCalm
<1> QED BY <1>2, <1>3, CombineUsable

\* An initialization begins when there is none, and a handler when there was one.
LEMMA StartUsable ==
  ASSUME BucketInv, UsableInv, NEW p \in Proc, Starts(p)
  PROVE  UsableInv'
<1>1. PICK op \in Ops \ {"idle"}, s \in Slug \cup {None} :
        /\ Begin(p, op, s)
        /\ op \notin {"initialize", "RestoreDB", "mirror"} => isInitialized
        /\ op \in {"initialize", "RestoreDB"} =>
             ~isInitialized /\ \A q \in Proc : ~Initializing(q)
  BY DEF Starts, Initialize, RestoreDB, processCreateBucket, CreateBucket, GetBucket,
         ToggleBucketBackup, JoinBucket, Ops
<1> DEFINE at == IF stored THEN First(op) ELSE "meta"
           x == [Idle EXCEPT !.op = op, !.slug = s, !.creating = op = "create", !.at = at]
<1>2. proc' = [proc EXCEPT ![p] = x] /\ UNCHANGED <<metas, data>> BY <1>1 DEF Begin
<1>3. UNCHANGED <<isInitialized, misled>>
  BY DEF Starts, Initialize, RestoreDB, processCreateBucket, CreateBucket, GetBucket,
         ToggleBucketBackup, JoinBucket
<1>4. /\ at \in {"list", "find", "addr", "read", "meta"}
      /\ at = "find" => op \notin {"initialize", "RestoreDB", "mirror"}
      /\ at = "read" => op \in {"toggle", "mirror"}
      /\ op = "mirror" => at \in {"read", "meta"}
  BY <1>1 DEF First, Ops
<1> HIDE DEF at
<1>5. x.at = at /\ x.op = op BY DEF Idle
<1> HIDE DEF x
<1>6. OthersStay(p) /\ proc'[p] = x BY <1>2 DEF BucketInv, TypeOK, OthersStay
<1>7. Initializing(p)' <=> op \in {"initialize", "RestoreDB"} BY <1>5, <1>6 DEF Initializing
<1>8. WorkAt(p)' BY <1>1, <1>3, <1>4, <1>5, <1>6, <1>7 DEF WorkAt, NewPlaces, Ops
<1>9. Calm(p) BY <1>1, <1>2, <1>3, <1>6, <1>7, SameRecordsCalm
<1> QED BY <1>8, <1>9, CombineUsable

\* The daemon starts again with nothing to save and nothing initialized.
LEMMA RestartUsable ==
  ASSUME BucketInv, UsableInv, Crash \/ LoseDevice
  PROVE  UsableInv'
<1>1. (\A p \in Proc : proc'[p] = Idle) /\ isInitialized' = FALSE
  BY DEF Crash, LoseDevice, Restarted
<1>2. \A p \in Proc : WorkAt(p)' /\ ~Initializing(p)'
  BY <1>1 DEF WorkAt, Idle, Initializing, NewPlaces
<1>3. CASE Crash BY <1>1, <1>2, <1>3 DEF Crash, UsableInv, Rec
<1>4. CASE LoseDevice
  <2>1. PICK sent \in SUBSET Listed :
          hubMeta' = [s \in Slug |-> IF s \in sent THEN meta[s] ELSE None]
    BY <1>4 DEF LoseDevice
  <2>2. \A s \in Listed : meta[s] = Rec(s) /\ OwnOrShared(meta[s])
    BY DEF Listed, Rec, UsableInv
  <2>3. \A s \in Slug : hubMeta'[s] # None => OwnOrShared(hubMeta'[s])
    BY <2>1, <2>2
  <2>4. meta' = None /\ Shared \in roots' BY <1>4 DEF LoseDevice, UsableInv
  <2> QED BY <1>1, <1>2, <2>3, <2>4 DEF UsableInv, Rec
<1> QED BY <1>3, <1>4

LEMMA InitUsable == Init => UsableInv
<1> SUFFICES ASSUME Init PROVE UsableInv
  OBVIOUS
<1>1. \A p \in Proc : proc[p] = Idle BY IdleProcs DEF Init
<1>2. \A p \in Proc : WorkAt(p) /\ ~Initializing(p)
  BY <1>1 DEF WorkAt, Idle, Initializing, NewPlaces
<1> QED BY <1>1, <1>2 DEF Init, UsableInv, Rec

\* An initialized client has its default bucket, in a thread that its record
\* names, for any number of goroutines, crashes and lost devices, unless an error
\* of FindBucket was taken for a bucket that is not there (client.go:389-445).
THEOREM DefaultBucketIsThere == Spec => []InitializedIsUsable
<1>1. ASSUME BucketInv, UsableInv, [Next]_vars PROVE UsableInv'
  <2>1. CASE UNCHANGED vars
    BY <1>1, <2>1 DEF UsableInv, WorkAt, HasDefault, Initializing, Rec, NewPlaces
  <2>2. CASE \E p \in Proc : Step(p) \/ Fails(p) \/ Starts(p)
    <3>1. PICK p \in Proc : Step(p) \/ Fails(p) \/ Starts(p) BY <2>2
    <3>2. CASE Step(p)
      BY <1>1, <3>2, MetaUsable, FindUsable, CreateUsable, RestoreUsable, SaveUsable DEF Step
    <3> QED BY <1>1, <3>1, <3>2, FailUsable, StartUsable
  <2>3. CASE Crash \/ LoseDevice BY <1>1, <2>3, RestartUsable
  <2> QED BY <1>1, <2>1, <2>2, <2>3 DEF Next
<1>2. UsableInv => InitializedIsUsable
  BY BucketAssumption DEF UsableInv, InitializedIsUsable, HasDefault, Default, Listed, Rec
<1> QED BY <1>1, <1>2, InitUsable, BucketInductive, PTL DEF Spec

===============================================================================
