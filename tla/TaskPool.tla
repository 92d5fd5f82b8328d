------------------------------- MODULE TaskPool -------------------------------
(***************************************************************************)
(* What the synchronizer promises of a set of tasks, whatever its lists,   *)
(* loops and goroutines do: a task that was accepted stays outstanding     *)
(* until an execution of it ends, only outstanding tasks are executed, and *)
(* a new synchronizer resurrects nothing that was not saved.               *)
(***************************************************************************)
CONSTANT ID

VARIABLES
  outstanding,  \* the tasks accepted and not yet done or given up
  running,      \* the tasks of which some execution is in progress
  saved         \* the tasks outstanding when the lists were last saved

vars == <<outstanding, running, saved>>

Init == outstanding = {} /\ running = {} /\ saved = {}

Submit(id) ==
  /\ outstanding' = outstanding \cup {id}
  /\ UNCHANGED <<running, saved>>

Begin(id) ==
  /\ id \in outstanding
  /\ running' = running \cup {id}
  /\ UNCHANGED <<outstanding, saved>>

\* Done, given up, or kept for another attempt; another execution of the same
\* ID, or another task of it, may remain.
End(id) ==
  /\ id \in running
  /\ running' \in {running, running \ {id}}
  /\ outstanding' \in {outstanding, outstanding \ {id}}
  /\ UNCHANGED saved

Save == saved' = outstanding /\ UNCHANGED <<outstanding, running>>

Reopen ==
  /\ running' = {}
  /\ outstanding' \in SUBSET saved
  /\ UNCHANGED saved

Next == Save \/ Reopen \/ \E id \in ID : Submit(id) \/ Begin(id) \/ End(id)

Spec == Init /\ [][Next]_vars

===============================================================================
