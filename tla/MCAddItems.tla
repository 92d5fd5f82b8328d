------------------------------ MODULE MCAddItems ------------------------------
(* Instances of AddItems: a folder with a file and a folder with a file in it, *)
(* and a second file outside of it; the request names the folder twice, or is  *)
(* empty.                                                                     *)
EXTENDS AddItems

CONSTANTS dir, sub, inner, outer, single

mcParent == [n \in Node |-> CASE n = sub -> dir [] n = inner -> sub
                              [] n = outer -> dir [] OTHER -> Top]
mcSize == [n \in Node |-> IF n \in Folder THEN 0 ELSE IF n = inner THEN 2 ELSE 1]
mcRequests == {<<dir, dir, single>>, <<>>}
===============================================================================
