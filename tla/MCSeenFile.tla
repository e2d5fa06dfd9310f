------------------------------ MODULE MCSeenFile ------------------------------
(* SeenFile with three commits: one file with room for all of them and an  *)
(* orphan, and a second one to switch to, with room for a root and a link. *)
EXTENDS SeenFile

CONSTANTS f1, f2

MCFiles == {f1, f2}

MCMaxNodes == [f \in MCFiles |-> IF f = f1 THEN 4 ELSE 2]
===============================================================================
