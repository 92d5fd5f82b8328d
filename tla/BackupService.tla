---------------------------- MODULE BackupService ----------------------------
(***************************************************************************)
(* What the backup of a bucket promises, whatever the tasks, the loops and *)
(* the failures behind it: files get to the hub only while backup is on    *)
(* and are taken off it only while it is off, a file comes back only from  *)
(* the hub, and whenever the work has settled the hub has every file that  *)
(* is here, or none of them.                                               *)
(***************************************************************************)
CONSTANT File

VARIABLES
  here,     \* the files of the bucket on this device
  hub,      \* those the hub has a copy of
  on,       \* backup is on
  coming,   \* files found on the hub that are being restored
  settled   \* no work is left

vars == <<here, hub, on, coming, settled>>

Obeyed == here \cap hub = IF on THEN here ELSE {}

Init ==
  /\ here \in SUBSET File /\ hub \in SUBSET File
  /\ on = TRUE /\ coming = {} /\ settled = FALSE

Save(f) == on /\ here' = here \cup {f} /\ UNCHANGED <<hub, on, coming>>
Remove(f) == on /\ here' = here \ {f} /\ UNCHANGED <<hub, on, coming>>

\* A device that saves and removes nothing while backup is off, and changes that
\* when its work is done.
Turn == settled /\ on' = ~on /\ UNCHANGED <<here, hub, coming>>

Upload(f) == on /\ hub' = hub \cup {f} /\ UNCHANGED <<here, on, coming>>
Delete(f) == ~on /\ hub' = hub \ {f} /\ UNCHANGED <<here, on, coming>>

Find(f) == f \in hub /\ coming' = coming \cup {f} /\ UNCHANGED <<here, hub, on>>
Restore(f) ==
  /\ f \in hub \cup coming
  /\ here' = here \cup {f} /\ coming' = coming \ {f}
  /\ UNCHANGED <<hub, on>>

\* Other work, or a restore that is given up.
Work == coming' \in SUBSET coming /\ UNCHANGED <<here, hub, on>>

Next ==
  /\ \/ Turn \/ Work
     \/ \E f \in File : Save(f) \/ Remove(f) \/ Upload(f) \/ Delete(f) \/ Find(f) \/ Restore(f)
  /\ settled' => Obeyed'

Spec == Init /\ [][Next]_vars

===============================================================================
