------------------------------ MODULE PyLiteGC ------------------------------
(***************************************************************************)
(* The tri-colour collector of src/src/gc.c and the objects it manages.    *)
(* Every object enters the white set when it is made (PyLiteObject_init).  *)
(* An object can be released by a collection only if it carries the flag   *)
(* CANFREE, which the code gives to the parts that an object owns: the     *)
(* attribute dict of a module, class or instance, the constants of a code  *)
(* object, the closure, parameters and defaults of a function, the         *)
(* arguments of an exception.  The marking visits an owner's parts in one  *)
(* of two ways: parameters and defaults are moved to grey like any child;  *)
(* of a dict, list or tuple that is a part, the items are moved, and the   *)
(* part itself is not (of an exception, not even the items).               *)
(*                                                                         *)
(* The interpreter collects when it shuts down (intp.c), followed by       *)
(* pylt_gc_freeall.  The collector is written for repeated rounds (it ends *)
(* with "swap white and black, wait for the next round", and the call in   *)
(* the loop of pylt_vm_run is there, commented out), so a deployment says  *)
(* how many collections there may be while the program runs, and whether   *)
(* there are parts that the marking does not move: [0, TRUE] as shipped.   *)
(***************************************************************************)
EXTENDS Integers, FiniteSets

CONSTANTS
    Objects,        \* addresses; a freed one is not handed out again
    Deployments     \* [rounds, hides]: collections while the program runs,
                    \* and whether parts exist whose items alone are visited

(* With parts that are not moved, a collection before the last would       *)
(* release a part whose owner is still in use.                             *)
ASSUME GCAssumption ==
    /\ Deployments \subseteq [rounds : Nat, hides : BOOLEAN]
    /\ \A d \in Deployments : d.hides => d.rounds = 0

VARIABLES
    kind,       \* object |-> "none" before it is made, "plain", "seq" (a list,
                \* set or tuple), "owner", "part" (flagged CANFREE), "freed"
    child,      \* object |-> the objects that marking reaches from it
    part,       \* object |-> the parts it points to
    roots,      \* frames' locals and functions, operand stack, class
                \* attributes, references held by C code, builtins
    white, grey, black,
    phase,      \* "run", "mark", "sweep", "freeall", "done"
    final,      \* the collection under way is the one of the shutdown
    rounds,     \* collections still allowed before it
    hides

vars == <<kind, child, part, roots, white, grey, black, phase, final, rounds, hides>>
mutator == <<kind, child, part, roots>>

Alive == {o \in Objects : kind[o] \notin {"none", "freed"}}
Freeable == {o \in Objects : kind[o] = "part"}

(* What the marking is to find: every set that holds the roots and is      *)
(* closed under child holds the reachable objects.                         *)
Closed(S, c) == \A o \in S : c[o] \subseteq S
ReachableFrom(r, c) ==
    {o \in Objects : \A S \in SUBSET Objects : r \subseteq S /\ Closed(S, c) => o \in S}
Reachable == ReachableFrom(roots, child)

TypeOK ==
    /\ kind \in [Objects -> {"none", "plain", "seq", "owner", "part", "freed"}]
    /\ child \in [Objects -> SUBSET Objects]
    /\ part \in [Objects -> SUBSET Objects]
    /\ roots \subseteq Objects
    /\ white \subseteq Objects /\ grey \subseteq Objects /\ black \subseteq Objects
    /\ phase \in {"run", "mark", "sweep", "freeall", "done"}
    /\ final \in BOOLEAN /\ rounds \in Nat /\ hides \in BOOLEAN

Init ==
    /\ kind = [o \in Objects |-> "none"]
    /\ child = [o \in Objects |-> {}] /\ part = [o \in Objects |-> {}]
    /\ roots = {}
    /\ white = {} /\ grey = {} /\ black = {}
    /\ phase = "run" /\ final = FALSE
    /\ \E d \in Deployments : rounds = d.rounds /\ hides = d.hides
----------------------------------------------------------------------------
(* The program.  What it makes it holds: a new object is on the stack.     *)
Running == phase = "run" /\ UNCHANGED <<grey, black, phase, final, rounds, hides>>

New(o) ==
    /\ Running /\ kind[o] = "none"
    /\ \E k \in {"plain", "seq"} : kind' = [kind EXCEPT ![o] = k]
    /\ roots' = roots \cup {o}
    /\ white' = white \cup {o}          \* pylt_gc_add
    /\ UNCHANGED <<child, part>>

NewOwner(o, p) ==
    /\ Running /\ kind[o] = "none" /\ kind[p] = "none" /\ o # p
    /\ kind' = [kind EXCEPT ![o] = "owner", ![p] = "part"]
    /\ part' = [part EXCEPT ![o] = {p}]
    /\ \/ child' = [child EXCEPT ![o] = {p}]
       \/ hides /\ UNCHANGED child
    /\ roots' = roots \cup {o}
    /\ white' = white \cup {o, p}

(* An item of an owner is in the dict, list or tuple that is its part, and *)
(* marking reaches it from either.                                         *)
Holders(o) == {o} \cup part[o]

Link(o, q) ==
    /\ Running /\ o \in roots /\ q \in roots /\ kind[o] \in {"seq", "owner"}
    /\ child' = [x \in Objects |-> IF x \in Holders(o) THEN child[x] \cup {q} ELSE child[x]]
    /\ UNCHANGED <<kind, part, roots, white>>

Unlink(o, q) ==
    /\ Running /\ o \in roots /\ kind[o] \in {"seq", "owner"}
    /\ q \in child[o] \ part[o]
    /\ child' = [x \in Objects |-> IF x \in Holders(o) THEN child[x] \ {q} ELSE child[x]]
    /\ UNCHANGED <<kind, part, roots, white>>

(* An element of a container, or a part itself (e.args, f's defaults).     *)
Load(o, q) ==
    /\ Running /\ o \in roots /\ q \in child[o] \cup part[o]
    /\ roots' = roots \cup {q}
    /\ UNCHANGED <<kind, child, part, white>>

Drop(o) ==
    /\ Running /\ o \in roots
    /\ roots' = roots \ {o}
    /\ UNCHANGED <<kind, child, part, white>>
----------------------------------------------------------------------------
CollectUnrooted(last) ==        \* mutant: the roots are not moved
    /\ phase = "run"
    /\ last \/ rounds > 0
    /\ phase' = "mark" /\ final' = last
    /\ rounds' = IF last THEN rounds ELSE rounds - 1
    /\ UNCHANGED <<kind, child, part, roots, white, grey, black, hides>>

(* pylt_gc_collect.  Moving to grey is a no-op for what is not white.      *)
Collect(last) ==
    /\ phase = "run"
    /\ last \/ rounds > 0
    /\ grey' = grey \cup (white \cap roots)
    /\ white' = white \ roots
    /\ phase' = "mark" /\ final' = last
    /\ rounds' = IF last THEN rounds ELSE rounds - 1
    /\ UNCHANGED <<kind, child, part, roots, black, hides>>

MarkShallow(o) ==               \* mutant: children stay white
    /\ phase = "mark" /\ o \in grey
    /\ black' = black \cup {o} /\ grey' = grey \ {o}
    /\ UNCHANGED <<kind, child, part, roots, white, phase, final, rounds, hides>>

(* To go through a list, set or tuple the marking makes an iterator, which *)
(* like every object is born white.                                        *)
Mark(o) ==
    /\ phase = "mark" /\ o \in grey
    /\ black' = black \cup {o}
    /\ grey' = (grey \ {o}) \cup (white \cap child[o])
    /\ \/ /\ kind[o] = "seq"
          /\ \E it \in Objects :
                /\ kind[it] = "none"
                /\ kind' = [kind EXCEPT ![it] = "plain"]
                /\ white' = (white \ child[o]) \cup {it}
       \/ /\ kind[o] # "seq" \/ \A it \in Objects : kind[it] # "none"
          /\ white' = white \ child[o]
          /\ UNCHANGED kind
    /\ UNCHANGED <<child, part, roots, phase, final, rounds, hides>>

MarkingEnds ==
    /\ phase = "mark" /\ grey = {}
    /\ phase' = "sweep"
    /\ UNCHANGED <<mutator, white, grey, black, final, rounds, hides>>

SweepKeepsWhite(o) ==           \* mutant: what is freed stays in white
    /\ phase = "sweep" /\ o \in white \ black
    /\ IF o \in Freeable
       THEN kind' = [kind EXCEPT ![o] = "freed"] /\ UNCHANGED <<white, black>>
       ELSE black' = black \cup {o} /\ UNCHANGED <<kind, white>>
    /\ UNCHANGED <<child, part, roots, grey, phase, final, rounds, hides>>

SweepIgnoresFlag(o) ==          \* mutant: CANFREE is not looked at
    /\ phase = "sweep" /\ o \in white \ black
    /\ kind' = [kind EXCEPT ![o] = "freed"]
    /\ white' = white \ {o}
    /\ UNCHANGED <<child, part, roots, grey, black, phase, final, rounds, hides>>

(* The sweep passes over white; what it may not release becomes black, too.*)
Sweep(o) ==
    /\ phase = "sweep" /\ o \in white \ black
    /\ IF o \in Freeable
       THEN /\ kind' = [kind EXCEPT ![o] = "freed"]
            /\ white' = white \ {o}
            /\ UNCHANGED black
       ELSE black' = black \cup {o} /\ UNCHANGED <<kind, white>>
    /\ UNCHANGED <<child, part, roots, grey, phase, final, rounds, hides>>

SweepEndsEmpty ==               \* mutant: white is expected to empty
    /\ phase = "sweep" /\ white = {}
    /\ white' = black /\ black' = {}
    /\ phase' = IF final THEN "freeall" ELSE "run"
    /\ UNCHANGED <<mutator, grey, final, rounds, hides>>

SweepEnds ==
    /\ phase = "sweep" /\ white \subseteq black
    /\ white' = black /\ black' = {}
    /\ phase' = IF final THEN "freeall" ELSE "run"
    /\ UNCHANGED <<mutator, grey, final, rounds, hides>>

(* pylt_gc_freeall                                                         *)
FreeAll(o) ==
    /\ phase = "freeall" /\ o \in white
    /\ kind' = [kind EXCEPT ![o] = "freed"]
    /\ white' = white \ {o}
    /\ UNCHANGED <<child, part, roots, grey, black, phase, final, rounds, hides>>

Finished ==
    /\ phase = "freeall" /\ white = {}
    /\ phase' = "done"
    /\ UNCHANGED <<mutator, white, grey, black, final, rounds, hides>>

Collector ==
    \/ \E o \in Objects : Mark(o) \/ Sweep(o) \/ FreeAll(o)
    \/ MarkingEnds \/ SweepEnds \/ Finished

Program ==
    \/ \E o \in Objects : New(o) \/ Drop(o)
    \/ \E o, q \in Objects : NewOwner(o, q) \/ Link(o, q) \/ Unlink(o, q) \/ Load(o, q)
    \/ Collect(FALSE)

Shutdown == Collect(TRUE)

Next == Program \/ Shutdown \/ Collector \/ (phase = "done" /\ UNCHANGED vars)

(* A collection runs to its end once begun: it is one C call.  Nothing     *)
(* makes the program shut down.                                            *)
Spec == Init /\ [][Next]_vars /\ WF_vars(Collector)
----------------------------------------------------------------------------
(* Whatever the program can still reach through the references that        *)
(* marking follows has not been released (gc.c:107-275).                   *)
ReachableAlive == phase \in {"run", "mark", "sweep"} => Reachable \subseteq Alive

(* The three sets hold each managed object and no address that was given   *)
(* back: a stale one would be released a second time.                      *)
ManagedAlive ==
    /\ white \cup grey \cup black = Alive
    /\ grey \cap (white \cup black) = {}
    /\ phase # "sweep" => white \cap black = {}

(* While marking, no black object refers to a white one.                   *)
TriColour ==
    phase = "mark" => /\ roots \subseteq grey \cup black
                      /\ \A o \in black : child[o] \subseteq grey \cup black

(* A collection and a shutdown, once begun, end.                           *)
CollectionEnds == phase \in {"mark", "sweep"} ~> phase \in {"run", "done"}
----------------------------------------------------------------------------
(* The inductive invariant.  Nothing refers to an object not made yet.     *)
Made == {o \in Objects : kind[o] # "none"}
RefersToMade ==
    /\ roots \subseteq Made
    /\ \A o \in Objects : /\ child[o] \subseteq Made /\ part[o] \subseteq Made
                          /\ o \notin Made => child[o] = {} /\ part[o] = {}

(* A part has no parts.  The marking moves the parts, or no collection but *)
(* the last can happen and nothing has been released before.               *)
PartsAccounted ==
    /\ \A o \in Objects : \A p \in part[o] : part[p] = {}
    /\ \/ /\ ~ hides
          /\ \A o \in Objects : part[o] \subseteq child[o]
       \/ /\ hides /\ rounds = 0
          /\ final <=> phase # "run"
          /\ phase \in {"run", "mark"} => Alive = Made

(* What the marking has found can be reached; in the end it is everything. *)
MarkedReachable ==
    /\ phase \in {"run", "freeall", "done"} => grey = {} /\ black = {}
    /\ phase = "mark" => grey \cup black \subseteq Reachable
    /\ phase = "sweep" => grey = {} /\ Reachable \subseteq black

IInv ==
    /\ TypeOK
    /\ RefersToMade
    /\ PartsAccounted
    /\ MarkedReachable
    /\ ReachableAlive
    /\ ManagedAlive
    /\ TriColour
----------------------------------------------------------------------------
(* The abstract heap that the collector implements: a collection takes     *)
(* effect when the sweep begins, a shutdown when pylt_gc_freeall does.     *)
Doomed == IF phase = "sweep" THEN Freeable \cap (white \ black) ELSE {}
Ended == phase \in {"freeall", "done"}

Heap == INSTANCE PyLiteHeap WITH
    heap <- IF Ended THEN {} ELSE Alive \ Doomed,
    freeable <- IF Ended THEN {} ELSE Freeable \ Doomed

(* Every run of the collector (gc.c:107-275) is one of the heap that loses *)
(* in one step what cannot be reached, and nothing else.                   *)
Implements == Heap!Spec
=============================================================================
