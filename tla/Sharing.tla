------------------------------- MODULE Sharing -------------------------------
(***************************************************************************)
(* Files shared with another user: the owner's daemon records them, gives  *)
(* the invitee a role on the hub and sends a message; the invitee's daemon *)
(* lists the messages, accepts or rejects an invitation and forgets what   *)
(* was revoked (services_sharing.go, sharing.go, mailbox.go,               *)
(* model/received_file.go, model/sent_file.go).  Nothing is a transaction, *)
(* and handlers of one daemon run at the same time.                        *)
(*                                                                         *)
(* Abstractions.  One owner and one invitee; the files are the owner's own *)
(* (a received file that is shared on takes the same steps).  An           *)
(* invitation's id is its place in the inbox.  The key of a file does not  *)
(* change (Buckets).  The paths of a request come in any order.            *)
(***************************************************************************)
EXTENDS Naturals, Sequences

CONSTANTS
  Path,
  defaultPersonalMirrorBucketSlug, RemoteBucketKey,  \* the two names of the mirror bucket
  Sharer, Handler,  \* handlers of the owner's and of the invitee's daemon
  MaxMessages       \* bound of the model: messages in the inbox

ASSUME SharingAssumption ==
  MaxMessages \in Nat /\ defaultPersonalMirrorBucketSlug # RemoteBucketKey

VARIABLES
  sent,      \* the owner's SentFile records
  roles,     \* the paths the invitee has a role for on the hub
  job,       \* what each handler of the owner is doing
  inbox,     \* the invitee's messages
  received,  \* the invitee's ReceivedFile records
  call,      \* what each handler of the invitee is doing
  accepted,  \* invitations that were accepted without an error
  clashed    \* history: invitations that two handlers had at the same time

owner == <<sent, roles, job>>
invitee == <<received, call, accepted, clashed>>
vars == <<owner, inbox, invitee>>

Idle == [at |-> "idle", op |-> "none", paths |-> {}, todo |-> {}]
Done == [inv |-> 0, accept |-> FALSE, todo |-> {}, err |-> FALSE]
Message == [type : {"INVITATION", "REVOKED_INVITATION"}, ItemPaths : SUBSET Path]
Id == 1 .. MaxMessages
Invitation == {i \in DOMAIN inbox : inbox[i].type = "INVITATION"}

TypeOK ==
  /\ sent \subseteq Path /\ roles \subseteq Path
  /\ job \in [Sharer -> [at : {"idle", "record", "roles", "send"},
                         op : {"none", "share", "unshare"},
                         paths : SUBSET Path, todo : SUBSET Path]]
  /\ inbox \in Seq(Message) /\ Len(inbox) <= MaxMessages
  /\ received \subseteq [path : Path, bucket : {defaultPersonalMirrorBucketSlug},
                         inv : Id, accepted : BOOLEAN]
  /\ call \in [Handler -> [inv : Id \cup {0}, accept : BOOLEAN,
                           todo : SUBSET Path, err : BOOLEAN]]
  /\ accepted \subseteq Invitation /\ clashed \subseteq Id

-------------------------------------------------------------------------------
(* The owner: ShareFilesViaPublicKey and UnshareFilesViaPublicKey *)

StartJob(s, op, at, paths) ==
  /\ job[s] = Idle
  /\ job' = [job EXCEPT ![s] = [at |-> at, op |-> op, paths |-> paths, todo |-> paths]]
  /\ UNCHANGED <<sent, roles, inbox, invitee>>

\* Mutant: the records are made by whoever lists them later.
MutantShareFilesViaPublicKey(s, paths) == StartJob(s, "share", "roles", paths)

ShareFilesViaPublicKey(s, paths) == StartJob(s, "share", "record", paths)

UnshareFilesViaPublicKey(s, paths) == StartJob(s, "unshare", "roles", paths)

\* On to the next path, or with all paths to the next part.
Advance(s, p, next) ==
  LET last == job[s].todo = {p} IN
  job' = [job EXCEPT ![s] = [at |-> IF last THEN next ELSE job[s].at,
                             op |-> job[s].op, paths |-> job[s].paths,
                             todo |-> IF last THEN job[s].paths ELSE job[s].todo \ {p}]]

\* One that is in the collection is left as it is, whomever it was made for.
CreateSentFileViaInvitation(s, p) ==
  /\ job[s].at = "record" /\ p \in job[s].todo
  /\ sent' = sent \cup {p}
  /\ Advance(s, p, "roles")
  /\ UNCHANGED <<roles, inbox, invitee>>

PushPathAccessRoles(s, p) ==
  /\ job[s].at = "roles" /\ p \in job[s].todo
  /\ roles' = IF job[s].op = "share" THEN roles \cup {p} ELSE roles \ {p}
  /\ Advance(s, p, "send")
  /\ UNCHANGED <<sent, inbox, invitee>>

SendMessage(s) ==
  /\ job[s].at = "send" /\ Len(inbox) < MaxMessages
  /\ inbox' = Append(inbox, [type |-> IF job[s].op = "share" THEN "INVITATION"
                                                             ELSE "REVOKED_INVITATION",
                             ItemPaths |-> job[s].paths])
  /\ job' = [job EXCEPT ![s] = Idle]
  /\ UNCHANGED <<sent, roles, invitee>>

\* Any of the calls fails, or the daemon crashes: nothing is undone.
JobFails(s) ==
  /\ job[s] # Idle
  /\ job' = [job EXCEPT ![s] = Idle]
  /\ UNCHANGED <<sent, roles, inbox, invitee>>

-------------------------------------------------------------------------------
(* The invitee: HandleSharedFilesInvitation *)

\* parseMessage: the status is that of a record made for the invitation.
Pending(i) == \A r \in received : r.inv # i

\* Mutant: a message of any type is taken for an invitation.
MutantExtractInvitation(i) == i \in DOMAIN inbox

extractInvitation(i) == i \in Invitation

\* Mutant: an invitation that was decided can be decided again.
MutantHandleSharedFilesInvitation(c, i, accept) ==
  /\ call[c] = Done /\ extractInvitation(i)
  /\ call' = [call EXCEPT ![c] = [Done EXCEPT !.inv = i, !.accept = accept,
                                              !.todo = inbox[i].ItemPaths]]
  /\ clashed' = IF \E d \in Handler : call[d].inv = i THEN clashed \cup {i} ELSE clashed
  /\ UNCHANGED <<owner, inbox, received, accepted>>

HandleSharedFilesInvitation(c, i, accept) ==
  /\ call[c] = Done /\ extractInvitation(i) /\ Pending(i)
  /\ call' = [call EXCEPT ![c] = [Done EXCEPT !.inv = i, !.accept = accept,
                                              !.todo = inbox[i].ItemPaths]]
  /\ clashed' = IF \E d \in Handler : call[d].inv = i THEN clashed \cup {i} ELSE clashed
  /\ UNCHANGED <<owner, inbox, received, accepted>>

\* createReceivedFiles, one path: an existing record will do, whatever it says.
FindReceivedFile(c, p) ==
  /\ p \in call[c].todo /\ \E r \in received : r.path = p
  /\ call' = [call EXCEPT ![c].todo = @ \ {p}]
  /\ UNCHANGED <<owner, inbox, received, accepted, clashed>>

\* An error of the search is taken for no record, so that what another handler
\* stores between the two steps makes no difference.
CreateReceivedFile(c, p) ==
  /\ p \in call[c].todo
  /\ received' = received \cup
       {[path |-> p, bucket |-> defaultPersonalMirrorBucketSlug,
         inv |-> call[c].inv, accepted |-> call[c].accept]}
  /\ call' = [call EXCEPT ![c].todo = @ \ {p}]
  /\ UNCHANGED <<owner, inbox, accepted, clashed>>

\* Mutant: the error of the last path only.
MutantCreateFails(c, p) ==
  /\ p \in call[c].todo
  /\ call' = [call EXCEPT ![c].todo = @ \ {p}, ![c].err = call[c].todo = {p}]
  /\ UNCHANGED <<owner, inbox, received, accepted, clashed>>

\* The error is kept and the other paths are tried.
CreateFails(c, p) ==
  /\ p \in call[c].todo
  /\ call' = [call EXCEPT ![c].todo = @ \ {p}, ![c].err = TRUE]
  /\ UNCHANGED <<owner, inbox, received, accepted, clashed>>

\* An acceptance is replied to the inviter, who does nothing with it.
EndHandle(c) ==
  /\ call[c] # Done /\ call[c].todo = {}
  /\ accepted' = IF call[c].accept /\ ~call[c].err THEN accepted \cup {call[c].inv} ELSE accepted
  /\ call' = [call EXCEPT ![c] = Done]
  /\ UNCHANGED <<owner, inbox, received, clashed>>

Crash ==
  /\ \E c \in Handler : call[c] # Done
  /\ call' = [c \in Handler |-> Done]
  /\ UNCHANGED <<owner, inbox, received, accepted, clashed>>

\* What the query of DeleteReceivedFiles finds.
Revoked(i) ==
  {r \in received : r.bucket = RemoteBucketKey /\ r.path \in inbox[i].ItemPaths /\ r.accepted}

\* Each time the message is fetched, in a goroutine of its own.
DeleteReceivedFiles(i) ==
  /\ inbox[i].type = "REVOKED_INVITATION"
  /\ received' = received \ Revoked(i)
  /\ UNCHANGED <<owner, inbox, call, accepted, clashed>>

-------------------------------------------------------------------------------
Init ==
  /\ sent = {} /\ roles = {} /\ inbox = <<>>
  /\ job = [s \in Sharer |-> Idle]
  /\ received = {} /\ call = [c \in Handler |-> Done]
  /\ accepted = {} /\ clashed = {}

OwnerStep ==
  \E s \in Sharer :
    \/ \E paths \in SUBSET Path \ {{}} :
         ShareFilesViaPublicKey(s, paths) \/ UnshareFilesViaPublicKey(s, paths)
    \/ \E p \in Path : CreateSentFileViaInvitation(s, p) \/ PushPathAccessRoles(s, p)
    \/ SendMessage(s) \/ JobFails(s)

InviteeStep ==
  \/ \E c \in Handler :
       \/ \E i \in DOMAIN inbox, accept \in BOOLEAN : HandleSharedFilesInvitation(c, i, accept)
       \/ \E p \in Path : FindReceivedFile(c, p) \/ CreateReceivedFile(c, p) \/ CreateFails(c, p)
       \/ EndHandle(c)
  \/ \E i \in DOMAIN inbox : DeleteReceivedFiles(i)
  \/ Crash

Next == OwnerStep \/ InviteeStep

Spec == Init /\ [][Next]_vars

-------------------------------------------------------------------------------
\* Every file the invitee can read is in the owner's list of shared files, from
\* which it can be unshared, whichever call failed half-way and whatever is shared
\* and unshared at the same time (services_sharing.go:308-332, 434-450).
SharedIsListed == roles \subseteq sent

\* An acceptance that returned no error has a record for every file of the
\* invitation that was not revoked, although the files are stored one by one and
\* any may fail (sharing.go:119-152, received_file.go:53-90).
RevokedPath(p) == \E i \in DOMAIN inbox \ Invitation : p \in inbox[i].ItemPaths
Recorded(p) == \E r \in received : r.path = p

AcceptedIsRecorded ==
  \A i \in accepted : \A p \in inbox[i].ItemPaths : Recorded(p) \/ RevokedPath(p)

\* An invitation is either accepted or rejected, also when it is decided again
\* after a failure or a crash, unless two handlers have it at once
\* (sharing.go:77-117, mailbox.go:105-114).
OneDecision ==
  \A r, q \in received : r.inv = q.inv /\ r.inv \notin clashed => r.accepted = q.accepted

-------------------------------------------------------------------------------
(* What comments of the code say and the code does not do; TLC refutes each. *)

\* "Failed to delete revoked files" (mailbox.go:133) is what is logged when it
\* fails: it never finds one, because the query compares the bucket's name with
\* the bucket's key.
RevokedIsFound ==
  \A i \in DOMAIN inbox \ Invitation : \A r \in received :
    r.accepted /\ r.path \in inbox[i].ItemPaths => r \in Revoked(i)

\* "invitation is already accepted" (sharing.go:74): of an invitation of which
\* one file was stored and another failed, which cannot be retried.
DecidedIsComplete ==
  \A i \in Invitation :
    (~Pending(i) /\ \A c \in Handler : call[c].inv # i) =>
      \A p \in inbox[i].ItemPaths : \E r \in received : r.path = p

\* The status of an accepted invitation is ACCEPTED (mailbox.go:108-110): the
\* second invitation for a file stays PENDING, its file has the record of the first.
AcceptedIsNotPending == \A i \in accepted : ~Pending(i)

\* A file of an accepted invitation is shared with the user (sharing.go:77-96):
\* one that was rejected before stays rejected.
AcceptedIsShared ==
  \A i \in accepted : \A p \in inbox[i].ItemPaths :
    \E r \in received : r.path = p /\ r.accepted

\* "Creates the metadata for a file that has been shared by the user"
\* (sent_file.go:38): the record comes first and outlives the role.
ListedIsShared == (\A s \in Sharer : job[s] = Idle) => sent \subseteq roles

\* Who was told last that a file is shared can read it: a share and an unshare at
\* the same time, or an unshare whose message fails.
InvitedHasRole ==
  ((\A s \in Sharer : job[s] = Idle) /\ Len(inbox) \in Invitation) =>
    inbox[Len(inbox)].ItemPaths \subseteq roles

===============================================================================
