------------------------------ MODULE MCSharing ------------------------------
(* A small instance of Sharing.  Paths and handlers are interchangeable. *)
EXTENDS Sharing, TLC

Names == Permutations(Path) \cup Permutations(Sharer) \cup Permutations(Handler)
===============================================================================
