------------------------------ MODULE MCBuckets ------------------------------
(* A small instance of Buckets: the default bucket with every operation, and *)
(* a second one.  Threads, and goroutines, are interchangeable.              *)
EXTENDS Buckets, TLC

CONSTANTS personal, other

mcAsked ==
  {<<"initialize", None>>, <<"RestoreDB", None>>, <<"create", personal>>,
   <<"toggle", other>>, <<"mirror", personal>>, <<"join", personal>>,
   <<"join", other>>, <<"get", personal>>}

Names == Permutations(Thread) \cup Permutations(Proc)
===============================================================================
