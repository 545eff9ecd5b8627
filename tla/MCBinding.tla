----------------------------- MODULE MCBinding -----------------------------
(***************************************************************************)
(* Calls of functions with up to three parameters.  Names are only         *)
(* compared, so it is enough to give them to the parameters in one order.  *)
(* One parameter is typed at most, and the keywords have one value.        *)
(***************************************************************************)
EXTENDS PyLiteBinding

MCNames == 1..3
MCInit ==
    /\ Init
    /\ Base = MaxBelow /\ \A k \in 1..Base : below[k] # Callee
    /\ \A k \in 1..Length : params[k].name = k
    /\ \A j, k \in 1..Length : params[j].typed /\ params[k].typed => j = k
    /\ \A x, y \in DOMAIN mapping : mapping[x] = mapping[y]
MCSpec == MCInit /\ [][Next]_vars
=============================================================================
