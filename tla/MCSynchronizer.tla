---------------------------- MODULE MCSynchronizer ----------------------------
(* Small instances of Synchronizer: an ADD_ITEM task, which enqueues a      *)
(* PIN_FILE and a parallel ADD_INDEX_ITEM task with a retry budget.         *)
EXTENDS Synchronizer, TLC

CONSTANTS add, pin, index, restore, create, budget

mcHome == [id \in ID |-> IF id = pin THEN "filePinningQueue" ELSE "taskQueue"]
mcMaxRetries == [id \in ID |-> IF id = index THEN budget ELSE -1]
mcSpawns == [id \in ID |-> IF id = add THEN {pin, index} \cap ID ELSE {}]
mcFrontSpawns == [id \in ID |-> IF id = restore THEN {create} ELSE {}]

Addresses == Permutations(Obj)
===============================================================================
