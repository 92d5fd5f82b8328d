---------------------------- MODULE SharingProofs ----------------------------
(* Theorems about Sharing, for any paths, handlers and number of messages. *)
EXTENDS Sharing, TLAPS

\* What a job of the owner has done so far is what its place says.
JobInv ==
  \A s \in Sharer :
    /\ job[s].todo \subseteq job[s].paths
    /\ job[s].op = "share" /\ job[s].at = "record" => job[s].paths \ job[s].todo \subseteq sent
    /\ job[s].op = "share" /\ job[s].at = "roles" => job[s].paths \subseteq sent
    /\ job[s].op = "unshare" => job[s].at # "record"
    /\ job[s].op = "none" => job[s].at = "idle"

OwnerInv == TypeOK /\ JobInv /\ SharedIsListed

\* A handler has nothing to do or an invitation.
HandlerInv == \A c \in Handler : call[c] = Done \/ call[c].inv \in Invitation

Types == TypeOK /\ HandlerInv

\* What a handler of the invitee has stored of its invitation.
StoredSoFar ==
  \A c \in Handler : call[c].inv # 0 /\ ~call[c].err =>
    /\ call[c].inv \in Invitation
    /\ \A p \in inbox[call[c].inv].ItemPaths :
         p \in call[c].todo \/ Recorded(p) \/ RevokedPath(p)

RecordInv == Types /\ StoredSoFar /\ AcceptedIsRecorded

\* Handlers that have one invitation have clashed; one that has not is alone.
ClashInv ==
  \A c, d \in Handler :
    call[c].inv # 0 /\ call[c].inv = call[d].inv => c = d \/ call[c].inv \in clashed

DecisionInv ==
  \A c \in Handler : \A r \in received :
    call[c].inv # 0 /\ r.inv = call[c].inv /\ r.inv \notin clashed =>
      r.accepted = call[c].accept

OneInv == Types /\ ClashInv /\ DecisionInv /\ OneDecision

USE DEF owner, invitee, vars

-------------------------------------------------------------------------------
\* The initial state and every step of both daemons keep the types.
LEMMA InitType == Init => TypeOK
<1> SUFFICES ASSUME Init PROVE TypeOK OBVIOUS
<1>1. inbox \in Seq(Message) /\ Len(inbox) <= MaxMessages
  BY SharingAssumption DEF Init
<1>2. job \in [Sharer -> [at : {"idle", "record", "roles", "send"},
                         op : {"none", "share", "unshare"},
                         paths : SUBSET Path, todo : SUBSET Path]]
  BY DEF Init, Idle
<1>3. call \in [Handler -> [inv : Id \cup {0}, accept : BOOLEAN, todo : SUBSET Path, err : BOOLEAN]]
  BY DEF Init, Done
<1> QED BY <1>1, <1>2, <1>3 DEF Init, TypeOK

\* A message goes behind the others and changes none of them.
LEMMA SendAppends ==
  ASSUME TypeOK, NEW s \in Sharer, SendMessage(s)
  PROVE  /\ inbox' \in Seq(Message) /\ Len(inbox') <= MaxMessages
         /\ Len(inbox') = Len(inbox) + 1
         /\ \A i \in DOMAIN inbox : inbox'[i] = inbox[i]
         /\ Invitation \subseteq Invitation'
         /\ DOMAIN inbox \ Invitation \subseteq DOMAIN inbox' \ Invitation'
<1> DEFINE msg == [type |-> IF job[s].op = "share" THEN "INVITATION" ELSE "REVOKED_INVITATION",
                   ItemPaths |-> job[s].paths]
<1>1. msg \in Message BY DEF TypeOK, Message
<1>2. inbox' = Append(inbox, msg) /\ Len(inbox) < MaxMessages BY DEF SendMessage
<1> HIDE DEF msg
<1>3. inbox \in Seq(Message) BY DEF TypeOK
<1>4. inbox' \in Seq(Message) /\ Len(inbox') = Len(inbox) + 1 BY <1>1, <1>2, <1>3
<1>5. \A i \in DOMAIN inbox : i \in DOMAIN inbox' /\ inbox'[i] = inbox[i]
  BY <1>1, <1>2, <1>3
<1>6. Len(inbox') <= MaxMessages BY <1>2, <1>3, <1>4, SharingAssumption
<1> QED BY <1>4, <1>5, <1>6 DEF Invitation

\* A handler of the owner keeps the types of its job, and of what it sends.
LEMMA OwnerType ==
  ASSUME TypeOK, NEW s \in Sharer,
         \/ \E paths \in SUBSET Path \ {{}} :
              ShareFilesViaPublicKey(s, paths) \/ UnshareFilesViaPublicKey(s, paths)
         \/ \E p \in Path : CreateSentFileViaInvitation(s, p) \/ PushPathAccessRoles(s, p)
         \/ SendMessage(s) \/ JobFails(s)
  PROVE  TypeOK'
<1>1. ASSUME NEW op \in {"share", "unshare"}, NEW at \in {"record", "roles"},
             NEW paths \in SUBSET Path, StartJob(s, op, at, paths)
      PROVE  TypeOK'
  BY <1>1 DEF StartJob, TypeOK, Invitation
<1>2. ASSUME NEW p \in Path, CreateSentFileViaInvitation(s, p) PROVE TypeOK'
  BY <1>2 DEF CreateSentFileViaInvitation, Advance, TypeOK, Invitation
<1>3. ASSUME NEW p \in Path, PushPathAccessRoles(s, p) PROVE TypeOK'
  BY <1>3 DEF PushPathAccessRoles, Advance, TypeOK, Invitation
<1>4. CASE SendMessage(s)
  BY <1>4, SendAppends DEF SendMessage, TypeOK, Idle
<1>5. CASE JobFails(s)
  BY <1>5 DEF JobFails, TypeOK, Idle, Invitation
<1> QED BY <1>1, <1>2, <1>3, <1>4, <1>5 DEF ShareFilesViaPublicKey, UnshareFilesViaPublicKey

Calls == [Handler -> [inv : Id \cup {0}, accept : BOOLEAN, todo : SUBSET Path, err : BOOLEAN]]

StorePath(c, p) == FindReceivedFile(c, p) \/ CreateReceivedFile(c, p) \/ CreateFails(c, p)

\* A handler that has done one more path of its invitation still has it.
LEMMA StepOfHandler ==
  ASSUME Types, NEW c \in Handler, NEW p \in Path, StorePath(c, p)
  PROVE  /\ call' \in Calls /\ HandlerInv'
         /\ UNCHANGED <<owner, inbox, accepted, clashed>>
         /\ call[c].inv \in Invitation /\ call[c].inv \in Id /\ call[c].accept \in BOOLEAN
         /\ call'[c].inv = call[c].inv /\ call'[c].accept = call[c].accept
         /\ call'[c].todo = call[c].todo \ {p}
         /\ ~call'[c].err => ~call[c].err /\ ~CreateFails(c, p)
         /\ \A d \in Handler : d # c => call'[d] = call[d]
<1>1. /\ call \in Calls
      /\ inbox \in Seq(Message) /\ Len(inbox) <= MaxMessages
  BY DEF Types, TypeOK, Calls
<1>2. call[c].inv \in Invitation
  BY DEF Types, HandlerInv, Done, StorePath, FindReceivedFile, CreateReceivedFile, CreateFails
<1>3. call[c].inv \in Id BY <1>1, <1>2, SharingAssumption DEF Invitation, Id
<1>4. call[c] \in [inv : Id \cup {0}, accept : BOOLEAN, todo : SUBSET Path, err : BOOLEAN]
  BY <1>1 DEF Calls
<1> DEFINE one == [call EXCEPT ![c].todo = @ \ {p}]
<1>6. /\ one \in Calls
      /\ one[c].inv = call[c].inv /\ one[c].accept = call[c].accept
      /\ one[c].todo = call[c].todo \ {p} /\ one[c].err = call[c].err
      /\ \A d \in Handler : d # c => one[d] = call[d]
  BY <1>1, <1>4 DEF Calls
<1>7. /\ call' \in Calls
      /\ call'[c].inv = call[c].inv /\ call'[c].accept = call[c].accept
      /\ call'[c].todo = call[c].todo \ {p}
      /\ ~call'[c].err => ~call[c].err /\ ~CreateFails(c, p)
      /\ \A d \in Handler : d # c => call'[d] = call[d]
  <2>1. CASE CreateFails(c, p)
    <3>1. call' = [one EXCEPT ![c].err = TRUE] BY <2>1, <1>1, <1>4 DEF CreateFails, Calls
    <3> HIDE DEF one
    <3>2. one[c] \in [inv : Id \cup {0}, accept : BOOLEAN, todo : SUBSET Path, err : BOOLEAN]
      BY <1>6 DEF Calls
    <3>3. call' \in Calls BY <1>6, <3>1, <3>2 DEF Calls
    <3>4. /\ call'[c].inv = one[c].inv /\ call'[c].accept = one[c].accept
          /\ call'[c].todo = one[c].todo /\ call'[c].err
          /\ \A d \in Handler : d # c => call'[d] = one[d]
      BY <1>6, <3>1, <3>2 DEF Calls
    <3> QED BY <1>6, <3>3, <3>4
  <2>2. CASE ~CreateFails(c, p)
    <3>1. call' = one BY <2>2 DEF StorePath, FindReceivedFile, CreateReceivedFile
    <3> HIDE DEF one
    <3>2. ~call'[c].err => ~call[c].err /\ ~CreateFails(c, p) BY <1>6, <2>2, <3>1, Zenon
    <3> QED BY <1>6, <3>1, <3>2
  <2> QED BY <2>1, <2>2
<1>8. UNCHANGED <<owner, inbox, accepted, clashed>>
  BY DEF StorePath, FindReceivedFile, CreateReceivedFile, CreateFails
<1>9. HandlerInv' BY <1>2, <1>7, <1>8 DEF Types, HandlerInv, Invitation
<1> QED BY <1>2, <1>3, <1>4, <1>7, <1>8, <1>9

\* So does every step of the invitee, a handler of which has an invitation.
LEMMA InviteeType == ASSUME Types, InviteeStep PROVE Types'
<1>1. ASSUME NEW c \in Handler, NEW i \in DOMAIN inbox, NEW accept \in BOOLEAN,
             HandleSharedFilesInvitation(c, i, accept)
      PROVE  Types'
  <2>1. i \in Id BY SharingAssumption DEF Types, TypeOK, Id
  <2>2. inbox[i] \in Message BY DEF Types, TypeOK
  <2>3. inbox[i].ItemPaths \in SUBSET Path BY <2>2 DEF Message
  <2> QED
    BY <1>1, <2>1, <2>3
    DEF HandleSharedFilesInvitation, extractInvitation, Types, TypeOK, HandlerInv, Done, Invitation
<1>2. ASSUME NEW c \in Handler, NEW p \in Path, StorePath(c, p) PROVE Types'
  <2>1. /\ call' \in Calls /\ HandlerInv'
        /\ UNCHANGED <<owner, inbox, accepted, clashed>>
        /\ call[c].inv \in Id /\ call[c].accept \in BOOLEAN
    BY <1>2, StepOfHandler
  <2>2. received' \subseteq [path : Path, bucket : {defaultPersonalMirrorBucketSlug},
                            inv : Id, accepted : BOOLEAN]
    BY <1>2, <2>1
    DEF StorePath, FindReceivedFile, CreateReceivedFile, CreateFails, Types, TypeOK
  <2> QED BY <2>1, <2>2 DEF Types, TypeOK, Calls, Invitation
<1>5. ASSUME NEW c \in Handler, EndHandle(c) PROVE Types'
  BY <1>5 DEF EndHandle, Types, HandlerInv, TypeOK, Done, Invitation
<1>6. CASE Crash
  BY <1>6 DEF Crash, Types, HandlerInv, TypeOK, Done, Invitation
<1>7. ASSUME NEW i \in DOMAIN inbox, DeleteReceivedFiles(i) PROVE Types'
  BY <1>7 DEF DeleteReceivedFiles, Types, HandlerInv, TypeOK, Invitation
<1> QED BY <1>1, <1>2, <1>5, <1>6, <1>7 DEF InviteeStep, StorePath

\* The owner's steps leave the invitee and the messages that were sent alone.
LEMMA OwnerFrame ==
  ASSUME TypeOK, OwnerStep
  PROVE  /\ UNCHANGED <<received, call, accepted, clashed>>
         /\ \A i \in DOMAIN inbox : i \in DOMAIN inbox' /\ inbox'[i] = inbox[i]
         /\ Invitation \subseteq Invitation'
         /\ DOMAIN inbox \ Invitation \subseteq DOMAIN inbox' \ Invitation'
<1>1. PICK s \in Sharer :
         \/ \E paths \in SUBSET Path \ {{}} :
              ShareFilesViaPublicKey(s, paths) \/ UnshareFilesViaPublicKey(s, paths)
         \/ \E p \in Path : CreateSentFileViaInvitation(s, p) \/ PushPathAccessRoles(s, p)
         \/ SendMessage(s) \/ JobFails(s)
  BY DEF OwnerStep
<1>2. CASE SendMessage(s)
  <2>1. inbox \in Seq(Message) BY DEF TypeOK
  <2>2. inbox' \in Seq(Message) /\ Len(inbox') = Len(inbox) + 1 BY <1>2, SendAppends
  <2>3. DOMAIN inbox \subseteq DOMAIN inbox' BY <2>1, <2>2
  <2> QED BY <1>2, <2>3, SendAppends DEF SendMessage
<1>3. CASE ~SendMessage(s)
  BY <1>1, <1>3 DEF ShareFilesViaPublicKey, UnshareFilesViaPublicKey, StartJob,
     CreateSentFileViaInvitation, PushPathAccessRoles, JobFails, Invitation
<1> QED BY <1>2, <1>3

\* So the types, and that a handler has an invitation, are inductive.
LEMMA NextType == Types /\ [Next]_vars => Types'
<1> SUFFICES ASSUME Types, [Next]_vars PROVE Types' OBVIOUS
<1>1. CASE OwnerStep
  <2>1. TypeOK' BY <1>1, OwnerType DEF Types, OwnerStep
  <2>2. HandlerInv' BY <1>1, OwnerFrame DEF Types, HandlerInv, Done
  <2> QED BY <2>1, <2>2 DEF Types
<1>2. CASE InviteeStep BY <1>2, InviteeType
<1>3. CASE UNCHANGED vars
  BY <1>3 DEF Types, TypeOK, HandlerInv, Invitation
<1> QED BY <1>1, <1>2, <1>3 DEF Next

\* At first no handler has one.
LEMMA InitTypes == Init => Types
  BY InitType DEF Types, Init, HandlerInv

\* Jobs, roles, messages, records and decisions have the types that the code gives
\* them (services_sharing.go:308-569).
THEOREM TypeCorrect == Spec => []TypeOK
<1>1. Types => TypeOK BY DEF Types
<1> QED BY <1>1, InitTypes, NextType, PTL DEF Spec

-------------------------------------------------------------------------------
(* The owner's list *)

\* The places of a job and what they promise survive a step of any other handler,
\* because records are only added.
LEMMA JobFrame ==
  ASSUME OwnerInv, NEW s \in Sharer, sent \subseteq sent',
         \A t \in Sharer : t # s => job'[t] = job[t]
  PROVE  \A t \in Sharer : t # s =>
           /\ job'[t].todo \subseteq job'[t].paths
           /\ job'[t].op = "share" /\ job'[t].at = "record" =>
                job'[t].paths \ job'[t].todo \subseteq sent'
           /\ job'[t].op = "share" /\ job'[t].at = "roles" => job'[t].paths \subseteq sent'
           /\ job'[t].op = "unshare" => job'[t].at # "record"
           /\ job'[t].op = "none" => job'[t].at = "idle"
  BY DEF OwnerInv, JobInv

\* Every step of either daemon keeps the list: a role is given by a job that has
\* recorded all its paths.
LEMMA OwnerKeeps == OwnerInv /\ Types /\ [Next]_vars => OwnerInv'
<1> SUFFICES ASSUME OwnerInv, Types, [Next]_vars PROVE JobInv' /\ SharedIsListed'
  BY NextType DEF OwnerInv, Types
<1>1. job \in [Sharer -> [at : {"idle", "record", "roles", "send"},
                         op : {"none", "share", "unshare"},
                         paths : SUBSET Path, todo : SUBSET Path]]
  BY DEF Types, TypeOK
<1>2. ASSUME NEW s \in Sharer, NEW op \in {"share", "unshare"}, NEW at \in {"record", "roles"},
             NEW paths \in SUBSET Path, StartJob(s, op, at, paths), op = "share" <=> at = "record"
      PROVE  JobInv' /\ SharedIsListed'
  <2>1. job'[s] = [at |-> at, op |-> op, paths |-> paths, todo |-> paths]
    BY <1>1, <1>2 DEF StartJob
  <2>2. \A t \in Sharer : t # s => job'[t] = job[t] BY <1>1, <1>2 DEF StartJob
  <2>3. UNCHANGED <<sent, roles>> BY <1>2 DEF StartJob
  <2> QED BY <1>2, <2>1, <2>2, <2>3, JobFrame DEF OwnerInv, JobInv, SharedIsListed
<1>3. ASSUME NEW s \in Sharer, NEW p \in Path, CreateSentFileViaInvitation(s, p)
      PROVE  JobInv' /\ SharedIsListed'
  <2>1. job'[s] = [at |-> IF job[s].todo = {p} THEN "roles" ELSE "record",
                   op |-> job[s].op, paths |-> job[s].paths,
                   todo |-> IF job[s].todo = {p} THEN job[s].paths ELSE job[s].todo \ {p}]
    BY <1>1, <1>3 DEF CreateSentFileViaInvitation, Advance
  <2>2. \A t \in Sharer : t # s => job'[t] = job[t]
    BY <1>1, <1>3 DEF CreateSentFileViaInvitation, Advance
  <2>3. sent' = sent \cup {p} /\ UNCHANGED roles BY <1>3 DEF CreateSentFileViaInvitation
  <2>4. /\ job[s].op = "share" /\ job[s].todo \subseteq job[s].paths
        /\ job[s].paths \ job[s].todo \subseteq sent
    BY <1>1, <1>3 DEF CreateSentFileViaInvitation, OwnerInv, JobInv
  <2>5. JobInv' BY <2>1, <2>2, <2>3, <2>4, JobFrame DEF JobInv
  <2> QED BY <2>3, <2>5 DEF OwnerInv, SharedIsListed
<1>4. ASSUME NEW s \in Sharer, NEW p \in Path, PushPathAccessRoles(s, p)
      PROVE  JobInv' /\ SharedIsListed'
  <2>1. job'[s] = [at |-> IF job[s].todo = {p} THEN "send" ELSE "roles",
                   op |-> job[s].op, paths |-> job[s].paths,
                   todo |-> IF job[s].todo = {p} THEN job[s].paths ELSE job[s].todo \ {p}]
    BY <1>1, <1>4 DEF PushPathAccessRoles, Advance
  <2>2. \A t \in Sharer : t # s => job'[t] = job[t]
    BY <1>1, <1>4 DEF PushPathAccessRoles, Advance
  <2>3. UNCHANGED sent BY <1>4 DEF PushPathAccessRoles
  <2>4. job[s].op = "share" => p \in sent
    BY <1>4 DEF PushPathAccessRoles, OwnerInv, JobInv
  <2>5. job[s].at = "roles" BY <1>4 DEF PushPathAccessRoles
  <2>6. JobInv' BY <2>1, <2>2, <2>3, <2>5, JobFrame DEF OwnerInv, JobInv
  <2>7. SharedIsListed' BY <1>4, <2>3, <2>4 DEF PushPathAccessRoles, OwnerInv, SharedIsListed
  <2> QED BY <2>6, <2>7
<1>5. ASSUME NEW s \in Sharer, job' = [job EXCEPT ![s] = Idle], UNCHANGED <<sent, roles>>
      PROVE  JobInv' /\ SharedIsListed'
  <2>1. job'[s] = Idle BY <1>1, <1>5
  <2>2. \A t \in Sharer : t # s => job'[t] = job[t] BY <1>1, <1>5
  <2> QED BY <1>5, <2>1, <2>2, JobFrame DEF OwnerInv, JobInv, SharedIsListed, Idle
<1>6. ASSUME UNCHANGED owner PROVE JobInv' /\ SharedIsListed'
  BY <1>6 DEF OwnerInv, JobInv, SharedIsListed
<1>7. CASE OwnerStep
  BY <1>7, <1>2, <1>3, <1>4, <1>5
  DEF OwnerStep, ShareFilesViaPublicKey, UnshareFilesViaPublicKey, SendMessage, JobFails
<1>8. CASE InviteeStep
  <2>1. UNCHANGED owner
    BY <1>8 DEF InviteeStep, HandleSharedFilesInvitation, FindReceivedFile, CreateReceivedFile,
       CreateFails, EndHandle, Crash, DeleteReceivedFiles
  <2> QED BY <1>6, <2>1
<1>9. CASE UNCHANGED vars BY <1>6, <1>9
<1> QED BY <1>7, <1>8, <1>9 DEF Next

\* Every file that the invitee has a role for is recorded as shared by the owner,
\* for any number of concurrent shares and unshares, each of which may fail
\* anywhere: the record comes before the role (services_sharing.go:308-332) and no
\* call removes one.
THEOREM SharedStaysListed == Spec => []SharedIsListed
<1>1. Init => OwnerInv
  <2> SUFFICES ASSUME Init PROVE OwnerInv OBVIOUS
  <2> QED BY InitType DEF Init, OwnerInv, JobInv, SharedIsListed, Idle
<1>2. OwnerInv => SharedIsListed BY DEF OwnerInv
<1> QED BY <1>1, <1>2, InitTypes, NextType, OwnerKeeps, PTL DEF Spec

-------------------------------------------------------------------------------
(* The invitee's records *)

\* What starts, and what ends, the call of one handler of the invitee.
LEMMA CallFrame ==
  ASSUME Types, NEW c \in Handler, NEW x, call' = [call EXCEPT ![c] = x]
  PROVE  call'[c] = x /\ \A d \in Handler : d # c => call'[d] = call[d]
  BY DEF Types, TypeOK

\* A step of the invitee leaves the messages alone and takes away only records of
\* files that a message revokes.
LEMMA InviteeFrame ==
  ASSUME InviteeStep
  PROVE  /\ UNCHANGED inbox /\ clashed \subseteq clashed'
         /\ \A p : Recorded(p) => Recorded(p)' \/ RevokedPath(p)'
<1>1. UNCHANGED inbox /\ clashed \subseteq clashed'
  BY DEF InviteeStep, HandleSharedFilesInvitation, FindReceivedFile, CreateReceivedFile,
     CreateFails, EndHandle, Crash, DeleteReceivedFiles
<1>2. ASSUME NEW i \in DOMAIN inbox, DeleteReceivedFiles(i), NEW p, Recorded(p)
      PROVE  Recorded(p)' \/ RevokedPath(p)'
  <2>1. i \in DOMAIN inbox' \ Invitation' BY <1>1, <1>2 DEF DeleteReceivedFiles, Invitation
  <2>2. PICK r \in received : r.path = p BY <1>2 DEF Recorded
  <2>3. CASE r \in Revoked(i) BY <1>1, <2>1, <2>2, <2>3 DEF Revoked, RevokedPath
  <2>4. CASE r \notin Revoked(i) BY <1>2, <2>2, <2>4 DEF DeleteReceivedFiles, Recorded
  <2> QED BY <2>3, <2>4
<1>3. ASSUME received \subseteq received', NEW p, Recorded(p) PROVE Recorded(p)'
  BY <1>3 DEF Recorded
<1>4. received \subseteq received' \/ \E i \in DOMAIN inbox : DeleteReceivedFiles(i)
  BY DEF InviteeStep, HandleSharedFilesInvitation, FindReceivedFile, CreateReceivedFile,
     CreateFails, EndHandle, Crash
<1> QED BY <1>1, <1>2, <1>3, <1>4

\* No step undoes what a handler has stored so far, and a handler that ends without
\* an error has stored everything.
LEMMA RecordKeeps == RecordInv /\ [Next]_vars => RecordInv'
<1> SUFFICES ASSUME RecordInv, [Next]_vars PROVE StoredSoFar' /\ AcceptedIsRecorded'
  BY NextType DEF RecordInv
<1> USE DEF RecordInv
<1>1. CASE OwnerStep
  <2>1. \A i \in DOMAIN inbox : i \in DOMAIN inbox' /\ inbox'[i] = inbox[i]
    BY <1>1, OwnerFrame DEF Types
  <2>2. \A p : RevokedPath(p) => RevokedPath(p)'
    BY <1>1, <2>1, OwnerFrame DEF RevokedPath, Types
  <2>3. UNCHANGED <<received, call, accepted>> /\ Invitation \subseteq Invitation'
    BY <1>1, OwnerFrame DEF Types
  <2>4. \A p : Recorded(p) => Recorded(p)' BY <2>3 DEF Recorded
  <2>5. StoredSoFar' BY <2>1, <2>2, <2>3, <2>4 DEF StoredSoFar, Invitation
  <2>6. accepted \subseteq DOMAIN inbox BY DEF Types, TypeOK, Invitation
  <2>7. AcceptedIsRecorded' BY <2>1, <2>2, <2>3, <2>4, <2>6 DEF AcceptedIsRecorded
  <2> QED BY <2>5, <2>7
<1>2. CASE InviteeStep
  <2>1. UNCHANGED inbox BY <1>2, InviteeFrame
  <2>2. \A p : RevokedPath(p) => RevokedPath(p)' BY <2>1 DEF RevokedPath, Invitation
  <2>3. \A p : Recorded(p) => Recorded(p)' \/ RevokedPath(p)' BY <1>2, InviteeFrame
  <2>4. ASSUME UNCHANGED accepted PROVE AcceptedIsRecorded'
    BY <2>1, <2>2, <2>3, <2>4 DEF AcceptedIsRecorded
  <2>5. ASSUME NEW c \in Handler, call'[c] = call[c], call'[c].inv # 0, ~call'[c].err
        PROVE  /\ call'[c].inv \in Invitation'
               /\ \A p \in inbox'[call'[c].inv].ItemPaths :
                    p \in call'[c].todo \/ Recorded(p)' \/ RevokedPath(p)'
    BY <2>1, <2>2, <2>3, <2>5 DEF StoredSoFar, Invitation
  <2>6. ASSUME NEW c \in Handler, NEW i \in DOMAIN inbox, NEW accept \in BOOLEAN,
               HandleSharedFilesInvitation(c, i, accept)
        PROVE  StoredSoFar' /\ AcceptedIsRecorded'
    <3>1. /\ call'[c] = [Done EXCEPT !.inv = i, !.accept = accept, !.todo = inbox[i].ItemPaths]
          /\ \A d \in Handler : d # c => call'[d] = call[d]
      BY <2>6, CallFrame DEF HandleSharedFilesInvitation
    <3>2. i \in Invitation' BY <2>1, <2>6 DEF HandleSharedFilesInvitation, extractInvitation, Invitation
    <3>3. call'[c].inv = i /\ call'[c].todo = inbox'[i].ItemPaths BY <2>1, <3>1 DEF Done
    <3>4. StoredSoFar' BY <2>5, <3>1, <3>2, <3>3 DEF StoredSoFar
    <3> QED BY <2>4, <2>6, <3>4 DEF HandleSharedFilesInvitation
  <2>7. ASSUME NEW c \in Handler, NEW q \in Path, StorePath(c, q)
        PROVE  StoredSoFar' /\ AcceptedIsRecorded'
    <3>1. ~CreateFails(c, q) => Recorded(q)'
      <4>1. CASE FindReceivedFile(c, q) BY <4>1 DEF FindReceivedFile, Recorded
      <4>2. CASE CreateReceivedFile(c, q)
        <5>1. [path |-> q, bucket |-> defaultPersonalMirrorBucketSlug,
               inv |-> call[c].inv, accepted |-> call[c].accept] \in received'
          BY <4>2 DEF CreateReceivedFile
        <5> QED BY <5>1 DEF Recorded
      <4> QED BY <2>7, <4>1, <4>2 DEF StorePath
    <3>2. /\ call[c].inv \in Invitation /\ call[c].inv \in Id
          /\ call'[c].inv = call[c].inv /\ call'[c].todo = call[c].todo \ {q}
          /\ ~call'[c].err => ~call[c].err /\ ~CreateFails(c, q)
          /\ \A d \in Handler : d # c => call'[d] = call[d]
          /\ UNCHANGED accepted
      BY <2>7, StepOfHandler
    <3>3. call[c].inv # 0 BY <3>2, SharingAssumption DEF Id
    <3>4. ASSUME ~call'[c].err
          PROVE  /\ call'[c].inv \in Invitation'
                 /\ \A p \in inbox'[call'[c].inv].ItemPaths :
                      p \in call'[c].todo \/ Recorded(p)' \/ RevokedPath(p)'
      <4>1. \A p \in inbox[call[c].inv].ItemPaths :
              p \in call[c].todo \/ Recorded(p) \/ RevokedPath(p)
        BY <3>2, <3>3, <3>4 DEF StoredSoFar
      <4> QED BY <2>1, <2>2, <2>3, <3>1, <3>2, <3>4, <4>1 DEF Invitation
    <3>5. StoredSoFar' BY <2>5, <3>2, <3>4 DEF StoredSoFar
    <3> QED BY <2>4, <3>2, <3>5
  <2>8. ASSUME NEW c \in Handler, EndHandle(c) PROVE StoredSoFar' /\ AcceptedIsRecorded'
    <3>1. call'[c] = Done /\ \A d \in Handler : d # c => call'[d] = call[d]
      BY <2>8, CallFrame DEF EndHandle
    <3>2. StoredSoFar' BY <2>5, <3>1 DEF StoredSoFar, Done
    <3>3. ASSUME call[c].accept, ~call[c].err
          PROVE  \A p \in inbox[call[c].inv].ItemPaths : Recorded(p) \/ RevokedPath(p)
      <4>1. call[c].inv \in Invitation BY <2>8 DEF EndHandle, Types, HandlerInv
      <4>2. call[c].inv # 0 BY <4>1, SharingAssumption DEF Types, TypeOK, Invitation
      <4> QED BY <2>8, <3>3, <4>2 DEF StoredSoFar, EndHandle
    <3>4. AcceptedIsRecorded'
      BY <2>1, <2>2, <2>3, <2>8, <3>3 DEF AcceptedIsRecorded, EndHandle
    <3> QED BY <3>2, <3>4
  <2>9. CASE Crash
    <3>1. StoredSoFar' BY <2>9 DEF Crash, StoredSoFar, Done
    <3> QED BY <2>4, <2>9, <3>1 DEF Crash
  <2>10. ASSUME NEW i \in DOMAIN inbox, DeleteReceivedFiles(i)
         PROVE  StoredSoFar' /\ AcceptedIsRecorded'
    <3>1. UNCHANGED <<call, accepted>> BY <2>10 DEF DeleteReceivedFiles
    <3>2. StoredSoFar' BY <2>5, <3>1 DEF StoredSoFar
    <3> QED BY <2>4, <3>1, <3>2
  <2> QED BY <1>2, <2>6, <2>7, <2>8, <2>9, <2>10 DEF InviteeStep, StorePath
<1>3. CASE UNCHANGED vars
  BY <1>3 DEF StoredSoFar, AcceptedIsRecorded, Invitation, Recorded, RevokedPath
<1> QED BY <1>1, <1>2, <1>3 DEF Next

\* An acceptance that returned no error left a record of every file that was not
\* revoked, however many handlers store at once and whichever of them fail or are
\* cut off by a crash: createReceivedFiles keeps an error and goes on, and takes
\* back nothing (sharing.go:119-152).
THEOREM AcceptedStaysRecorded == Spec => []AcceptedIsRecorded
<1>1. Init => RecordInv
  <2> SUFFICES ASSUME Init PROVE RecordInv OBVIOUS
  <2> QED BY InitTypes DEF Init, RecordInv, StoredSoFar, AcceptedIsRecorded, Done
<1>2. RecordInv => AcceptedIsRecorded BY DEF RecordInv
<1> QED BY <1>1, <1>2, RecordKeeps, PTL DEF Spec

-------------------------------------------------------------------------------
(* Decisions *)

\* A step that makes no call, no record and no invitation that was not there keeps
\* what is known of decisions.
LEMMA FewerKeep ==
  ASSUME ClashInv, DecisionInv, OneDecision,
         clashed \subseteq clashed', received' \subseteq received,
         \A c \in Handler : call'[c].inv # 0 =>
           call'[c].inv = call[c].inv /\ call'[c].accept = call[c].accept
  PROVE  ClashInv' /\ DecisionInv' /\ OneDecision'
<1>1. ClashInv' BY DEF ClashInv
<1>2. DecisionInv' BY DEF DecisionInv
<1>3. OneDecision' BY DEF OneDecision
<1> QED BY <1>1, <1>2, <1>3

\* A handler decides an invitation that has no record yet; a second one makes the
\* invitation clashed.
LEMMA OneKeeps == OneInv /\ [Next]_vars => OneInv'
<1> SUFFICES ASSUME OneInv, [Next]_vars PROVE ClashInv' /\ DecisionInv' /\ OneDecision'
  BY NextType DEF OneInv
<1> USE DEF OneInv
<1>1. CASE OwnerStep
  BY <1>1, OwnerFrame, FewerKeep DEF Types
<1>2. ASSUME NEW c \in Handler, NEW i \in DOMAIN inbox, NEW accept \in BOOLEAN,
             HandleSharedFilesInvitation(c, i, accept)
      PROVE  ClashInv' /\ DecisionInv' /\ OneDecision'
  <2>1. /\ call'[c] = [Done EXCEPT !.inv = i, !.accept = accept, !.todo = inbox[i].ItemPaths]
        /\ \A d \in Handler : d # c => call'[d] = call[d]
    BY <1>2, CallFrame DEF HandleSharedFilesInvitation
  <2>2. /\ call'[c].inv = i
        /\ \A d \in Handler : d # c =>
             call'[d].inv = call[d].inv /\ call'[d].accept = call[d].accept
    BY <2>1 DEF Done
  <2>3. UNCHANGED received /\ Pending(i) BY <1>2 DEF HandleSharedFilesInvitation
  <2>4. clashed \subseteq clashed' /\ \A d \in Handler : call[d].inv = i => i \in clashed'
    BY <1>2 DEF HandleSharedFilesInvitation
  <2>5. ClashInv'
    <3> SUFFICES ASSUME NEW d \in Handler, NEW e \in Handler, call'[d].inv # 0,
                        call'[d].inv = call'[e].inv, d # e
                 PROVE  call'[d].inv \in clashed'
      BY DEF ClashInv
    <3>1. CASE d # c /\ e # c BY <2>2, <2>4, <3>1 DEF ClashInv
    <3>2. CASE d = c \/ e = c BY <2>2, <2>4, <3>2
    <3> QED BY <3>1, <3>2
  <2>6. DecisionInv'
    <3> SUFFICES ASSUME NEW d \in Handler, NEW r \in received, call'[d].inv # 0,
                        r.inv = call'[d].inv, r.inv \notin clashed'
                 PROVE  r.accepted = call'[d].accept
      BY <2>3 DEF DecisionInv
    <3>1. d # c BY <2>2, <2>3 DEF Pending
    <3> QED BY <2>2, <2>4, <3>1 DEF DecisionInv
  <2>7. OneDecision' BY <2>3, <2>4 DEF OneDecision
  <2> QED BY <2>5, <2>6, <2>7
<1>3. ASSUME NEW c \in Handler, NEW p \in Path, StorePath(c, p)
      PROVE  ClashInv' /\ DecisionInv' /\ OneDecision'
  <2>1. /\ UNCHANGED clashed
        /\ call[c].inv \in Id
        /\ \A d \in Handler : call'[d].inv = call[d].inv /\ call'[d].accept = call[d].accept
    BY <1>3, StepOfHandler
  <2>2. call[c].inv # 0 BY <2>1, SharingAssumption DEF Id
  <2>3. CASE received' \subseteq received
    BY <2>1, <2>3, FewerKeep
  <2>4. CASE CreateReceivedFile(c, p)
    <3> DEFINE new == [path |-> p, bucket |-> defaultPersonalMirrorBucketSlug,
                       inv |-> call[c].inv, accepted |-> call[c].accept]
    <3>1. received' = received \cup {new} BY <2>4 DEF CreateReceivedFile
    <3>2. new.inv = call[c].inv /\ new.accepted = call[c].accept OBVIOUS
    <3> HIDE DEF new
    <3>3. ClashInv' BY <2>1 DEF ClashInv
    <3>4. ASSUME NEW d \in Handler, call[d].inv = new.inv, new.inv \notin clashed
          PROVE  new.accepted = call[d].accept
      BY <2>2, <3>2, <3>4 DEF ClashInv
    <3>5. DecisionInv' BY <2>1, <3>1, <3>4 DEF DecisionInv
    <3>6. ASSUME NEW q \in received, q.inv = new.inv, new.inv \notin clashed
          PROVE  q.accepted = new.accepted
      BY <2>2, <3>2, <3>6 DEF DecisionInv
    <3>7. OneDecision' BY <2>1, <3>1, <3>6 DEF OneDecision
    <3> QED BY <3>3, <3>5, <3>7
  <2> QED BY <1>3, <2>3, <2>4 DEF StorePath, FindReceivedFile, CreateFails
<1>4. ASSUME NEW c \in Handler, EndHandle(c) PROVE ClashInv' /\ DecisionInv' /\ OneDecision'
  <2>1. call'[c] = Done /\ \A d \in Handler : d # c => call'[d] = call[d]
    BY <1>4, CallFrame DEF EndHandle
  <2>2. UNCHANGED <<received, clashed>> BY <1>4 DEF EndHandle
  <2> QED BY <2>1, <2>2, FewerKeep DEF Done
<1>5. CASE Crash
  BY <1>5, FewerKeep DEF Crash, Done
<1>6. ASSUME NEW i \in DOMAIN inbox, DeleteReceivedFiles(i)
      PROVE  ClashInv' /\ DecisionInv' /\ OneDecision'
  BY <1>6, FewerKeep DEF DeleteReceivedFiles
<1>7. CASE UNCHANGED vars BY <1>7, FewerKeep
<1> QED BY <1>1, <1>2, <1>3, <1>4, <1>5, <1>6, <1>7 DEF Next, InviteeStep, StorePath

\* The records of an invitation say one thing, accepted or rejected, unless two
\* handlers had it at once: the status is derived from the records before they are
\* made, so that what a crash left half made cannot be decided again
\* (sharing.go:77-117, mailbox.go:105-114).
THEOREM DecisionsStayOne == Spec => []OneDecision
<1>1. Init => OneInv
  <2> SUFFICES ASSUME Init PROVE OneInv OBVIOUS
  <2> QED BY InitTypes DEF Init, OneInv, ClashInv, DecisionInv, OneDecision, Done
<1>2. OneInv => OneDecision BY DEF OneInv
<1> QED BY <1>1, <1>2, OneKeeps, PTL DEF Spec
===============================================================================
