----------------------------- MODULE PyLiteHeap -----------------------------
(***************************************************************************)
(* What the collector of src/src/gc.c promises: a heap that a collection   *)
(* shrinks, in one step, by exactly the releasable objects that cannot be  *)
(* reached, and that a shutdown empties.                                   *)
(***************************************************************************)
CONSTANTS Objects

VARIABLES
    heap,       \* objects that are allocated
    freeable,   \* the releasable ones
    child, roots,
    part        \* object |-> what belongs to it, found through it or not

Closed(S) == \A o \in S : child[o] \subseteq S
Reachable ==
    {o \in Objects : \A S \in SUBSET Objects : roots \subseteq S /\ Closed(S) => o \in S}

Init ==
    /\ heap = {} /\ freeable = {} /\ roots = {}
    /\ child = [o \in Objects |-> {}] /\ part = child

(* The program, or the collector itself, makes an object.                  *)
Make ==
    /\ heap \subseteq heap' /\ freeable \subseteq freeable'
    /\ heap' # heap
    /\ roots \subseteq roots' /\ roots' \subseteq roots \cup (heap' \ heap)
    /\ \A o \in Objects : /\ child'[o] \subseteq child[o] \cup (heap' \ heap)
                          /\ part'[o] \subseteq part[o] \cup (heap' \ heap)

(* The program changes what it holds, among what it can reach.             *)
Hold ==
    /\ UNCHANGED <<heap, freeable, part>>
    /\ roots' \subseteq Reachable \cup UNION {part[o] : o \in Reachable}
    /\ \A o \in Objects : child'[o] \subseteq child[o] \cup Reachable

Release ==
    /\ heap' = heap \ (freeable \ Reachable)
    /\ UNCHANGED <<child, roots, part>>

Quit == heap' = {} /\ UNCHANGED <<child, roots, part>>

Next == Make \/ Hold \/ Release \/ Quit
Spec == Init /\ [][Next]_<<heap, freeable, child, roots, part>>
=============================================================================
