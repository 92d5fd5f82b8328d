------------------------------- MODULE FileCache -------------------------------
(***************************************************************************)
(* What GetFile returns of a file of a remote bucket, given the cache that *)
(* maps the CID of an encrypted file to a local copy of it.  The race of   *)
(* the three sources is left to PullFile: here any of them may win.        *)
(*                                                                         *)
(* A file's content is the number of the push it came from, which is also  *)
(* its CID.  Every call to the hub, to IPFS and to the store is one step.  *)
(***************************************************************************)
EXTENDS Naturals

CONSTANTS
  Get,         \* concurrent calls of GetFile for one file
  MaxVersion,  \* bound of the model: pushes of the file
  NoFile       \* no version

ASSUME CacheAssumption == MaxVersion \in Nat \ {0} /\ NoFile \notin Nat

VARIABLES
  current,  \* the version the bucket has
  cache,    \* file_cache:<encCid> in the store
  get,      \* progress of each call
  from      \* history: the version the bucket had when the call began

cacheVars == <<current, cache, get, from>>

Version == 1 .. MaxVersion
Idle == [at |-> "idle", cid |-> NoFile, val |-> NoFile]

CacheTypeOK ==
  /\ current \in Version
  /\ cache \in [Version -> Version \cup {NoFile}]
  /\ get \in [Get -> [at : {"idle", "begun", "local", "dht", "pulled", "keyed", "done"},
                      cid : Version \cup {NoFile}, val : Version \cup {NoFile}]]
  /\ from \in [Get -> Version]

PushPath ==
  /\ current < MaxVersion
  /\ current' = current + 1
  /\ UNCHANGED <<cache, get, from>>

Begin(g) ==
  /\ get[g].at = "idle"
  /\ get' = [get EXCEPT ![g].at = "begun"]
  /\ from' = [from EXCEPT ![g] = current]
  /\ UNCHANGED <<current, cache>>

\* pullFileFromLocal and pullFileFromDHT ask the bucket for the file's CID.
ListPath(g, source) ==
  /\ get[g].at = "begun"
  /\ get' = [get EXCEPT ![g].at = source, ![g].cid = current]
  /\ UNCHANGED <<current, cache, from>>

\* Mutant: any cached version of the path will do.
MutantPullFileFromLocal(g) ==
  /\ get[g].at = "local"
  /\ \E c \in Version : cache[c] # NoFile
       /\ get' = [get EXCEPT ![g].at = "done", ![g].val = cache[c]]
  /\ UNCHANGED <<current, cache, from>>

pullFileFromLocal(g) ==
  /\ get[g].at = "local" /\ cache[get[g].cid] # NoFile
  /\ get' = [get EXCEPT ![g].at = "done", ![g].val = cache[get[g].cid]]
  /\ UNCHANGED <<current, cache, from>>

pullFileFromDHT(g) ==
  /\ get[g].at = "dht"
  /\ get' = [get EXCEPT ![g].at = "done", ![g].val = get[g].cid]
  /\ UNCHANGED <<current, cache, from>>

\* The other source has failed or is slower.
Lose(g) ==
  /\ get[g].at \in {"local", "dht"}
  /\ get' = [get EXCEPT ![g].at = "begun", ![g].cid = NoFile]
  /\ UNCHANGED <<current, cache, from>>

pullFileFromClient(g) ==
  /\ get[g].at = "begun"
  /\ get' = [get EXCEPT ![g].at = "pulled", ![g].val = current]
  /\ UNCHANGED <<current, cache, from>>

\* Mutant: the error of ListPath is not looked at, the CID is empty.
MutantCacheKey(g) ==
  /\ get[g].at = "pulled"
  /\ get' = [get EXCEPT ![g].at = "keyed", ![g].cid = 0]
  /\ UNCHANGED <<current, cache, from>>

\* The key under which the pulled file is cached is asked for after the pull.
CacheKey(g) ==
  /\ get[g].at = "pulled"
  /\ get' = [get EXCEPT ![g].at = "keyed", ![g].cid = current]
  /\ UNCHANGED <<current, cache, from>>

\* Mutant: one key for all versions of the path.
MutantCacheSet(g) ==
  /\ get[g].at = "keyed"
  /\ cache' = [c \in Version |-> get[g].val]
  /\ get' = [get EXCEPT ![g].at = "done"]
  /\ UNCHANGED <<current, from>>

CacheSet(g) ==
  /\ get[g].at = "keyed"
  /\ cache' = [cache EXCEPT ![get[g].cid] = get[g].val]
  /\ get' = [get EXCEPT ![g].at = "done"]
  /\ UNCHANGED <<current, from>>

\* An error of the cache, or of the pull, is the error of GetFile.
Fail(g) ==
  /\ get[g].at \in {"begun", "pulled", "keyed"}
  /\ get' = [get EXCEPT ![g] = Idle]
  /\ UNCHANGED <<current, cache, from>>

Return(g) ==
  /\ get[g].at = "done"
  /\ get' = [get EXCEPT ![g] = Idle]
  /\ UNCHANGED <<current, cache, from>>

CacheInit ==
  /\ current = 1
  /\ cache = [c \in Version |-> NoFile]
  /\ get = [g \in Get |-> Idle]
  /\ from = [g \in Get |-> 1]

GetFile(g) ==
  \/ Begin(g) \/ ListPath(g, "local") \/ ListPath(g, "dht")
  \/ pullFileFromLocal(g) \/ pullFileFromDHT(g) \/ Lose(g)
  \/ pullFileFromClient(g) \/ CacheKey(g) \/ CacheSet(g) \/ Fail(g) \/ Return(g)

CacheNext == PushPath \/ \E g \in Get : GetFile(g)
CacheSpec == CacheInit /\ [][CacheNext]_cacheVars

\* Nobody pushes the file while a file that was pulled is being cached.
QuietNext ==
  \/ (\A g \in Get : get[g].at \notin {"pulled", "keyed"}) /\ PushPath
  \/ \E g \in Get : GetFile(g)
QuietSpec == CacheInit /\ [][QuietNext]_cacheVars

-------------------------------------------------------------------------------
\* The copy cached under a CID is the file with that CID: concurrent calls
\* that cache different versions do not mix up their keys (406-445).
CacheIsExact == \A c \in Version : cache[c] \in {NoFile, c}

\* bucket_file.go:110: "GetFile pulls path from bucket writing it to writer if
\* it's a file": what is written is what the bucket had at some time of the call.
ReadsAreCurrent ==
  \A g \in Get : get[g].at = "done" => get[g].val \in from[g] .. current

===============================================================================
