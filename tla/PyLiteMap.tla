----------------------------- MODULE PyLiteMap -----------------------------
(***************************************************************************)
(* What a dict promises: a partial function from keys to values, changed   *)
(* in one step by each call.  PyLiteHash implements it with a hash table   *)
(* whose rehashing takes many steps; a set is the case of one value.       *)
(***************************************************************************)
CONSTANTS
    Key,        \* the hashable objects, up to pylt_obj_eq
    Value,      \* what they are mapped to
    Absent      \* the result of a lookup that finds nothing (NULL)

VARIABLE map    \* what a lookup of each key gives

MapTypeOK == map \in [Key -> Value \cup {Absent}]

MapInit == map = [k \in Key |-> Absent]

(* d[k] = v for every pair of the argument: setitem, update, NEW_OBJ dict *)
MapStore(pairs) ==
    map' = [k \in Key |-> IF k \in DOMAIN pairs THEN pairs[k] ELSE map[k]]

(* del d[k], pop(k) *)
MapRemove(k) == map[k] # Absent /\ map' = [map EXCEPT ![k] = Absent]

(* clear() *)
MapClear == map' = [k \in Key |-> Absent]

MapNext ==
    \/ \E D \in SUBSET Key : \E pairs \in [D -> Value] : MapStore(pairs)
    \/ \E k \in Key : MapRemove(k)
    \/ MapClear

MapSpec == MapInit /\ [][MapNext]_map
=============================================================================
