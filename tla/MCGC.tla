-------------------------------- MODULE MCGC --------------------------------
(***************************************************************************)
(* The collector on a handful of objects.                                  *)
(***************************************************************************)
EXTENDS PyLiteGC

(* As shipped, and as if the loop collected and every part were marked.    *)
MCDeployments == {[rounds |-> 0, hides |-> TRUE], [rounds |-> 1, hides |-> FALSE]}
=============================================================================
