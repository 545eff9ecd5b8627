--------------------------- MODULE PyLiteGC_proofs ---------------------------
(***************************************************************************)
(* The collector never releases what the program can reach, for any number *)
(* of objects and of collections, provided that it moves every part or     *)
(* that it only runs at the shutdown.                                      *)
(***************************************************************************)
EXTENDS PyLiteGC, TLAPS

(* The reachable objects are the least set that holds r and is closed.     *)
LEMMA ReachableLeast ==
    ASSUME NEW r, NEW c, NEW S \in SUBSET Objects, r \subseteq S, Closed(S, c)
    PROVE  ReachableFrom(r, c) \subseteq S
BY DEF ReachableFrom

LEMMA ReachableClosed ==
    ASSUME NEW r \in SUBSET Objects, NEW c \in [Objects -> SUBSET Objects]
    PROVE  /\ r \subseteq ReachableFrom(r, c)
           /\ Closed(ReachableFrom(r, c), c)
<1>1. r \subseteq ReachableFrom(r, c)
  BY DEF ReachableFrom
<1>2. ASSUME NEW o \in ReachableFrom(r, c), NEW q \in c[o]
      PROVE  q \in ReachableFrom(r, c)
  <2>1. o \in Objects /\ q \in Objects
    BY DEF ReachableFrom
  <2>2. ASSUME NEW S \in SUBSET Objects, r \subseteq S, Closed(S, c)
        PROVE  q \in S
    <3>1. o \in S
      BY <2>2 DEF ReachableFrom
    <3>2. QED
      BY <2>2, <3>1 DEF Closed
  <2>3. QED
    BY <2>1, <2>2 DEF ReachableFrom
<1>3. QED
  BY <1>1, <1>2 DEF Closed

(* What is referred to is made, and so is what is reachable.               *)
LEMMA ReachableMade ==
    ASSUME TypeOK, RefersToMade
    PROVE  Reachable \subseteq Made
<1>1. Closed(Made, child) /\ Made \subseteq Objects
  BY DEF Closed, Made, RefersToMade
<1>2. QED
  BY <1>1, ReachableLeast DEF RefersToMade, Reachable
----------------------------------------------------------------------------
LEMMA InitIInv == Init => IInv
<1> SUFFICES ASSUME Init PROVE IInv
  OBVIOUS
<1>1. TypeOK
  BY GCAssumption DEF Init, TypeOK
<1>2. RefersToMade /\ PartsAccounted
  BY GCAssumption DEF Init, RefersToMade, PartsAccounted, Made, Alive
<1>3. Reachable = {}
  <2>1. Closed({}, child) /\ roots \subseteq {}
    BY DEF Closed, Init
  <2>2. QED
    BY <2>1, ReachableLeast DEF Reachable
<1>4. MarkedReachable /\ ReachableAlive /\ ManagedAlive /\ TriColour
  BY <1>3 DEF Init, MarkedReachable, ReachableAlive, ManagedAlive, TriColour, Alive
<1>5. QED
  BY <1>1, <1>2, <1>4 DEF IInv

(* Types are kept by every step.                                           *)
LEMMA TypeStep == TypeOK /\ [Next]_vars => TypeOK'
<1> SUFFICES ASSUME TypeOK, [Next]_vars PROVE TypeOK'
  OBVIOUS
<1> USE DEF TypeOK
<1>1. ASSUME NEW o \in Objects, New(o) PROVE TypeOK'
  BY <1>1 DEF New, Running
<1>2. ASSUME NEW o \in Objects, Drop(o) PROVE TypeOK'
  BY <1>2 DEF Drop, Running
<1>3. ASSUME NEW o \in Objects, NEW q \in Objects, NewOwner(o, q) PROVE TypeOK'
  BY <1>3 DEF NewOwner, Running
<1>4. ASSUME NEW o \in Objects, NEW q \in Objects, Link(o, q) PROVE TypeOK'
  BY <1>4 DEF Link, Running
<1>5. ASSUME NEW o \in Objects, NEW q \in Objects, Unlink(o, q) PROVE TypeOK'
  BY <1>5 DEF Unlink, Running
<1>6. ASSUME NEW o \in Objects, NEW q \in Objects, Load(o, q) PROVE TypeOK'
  BY <1>6 DEF Load, Running
<1>7. ASSUME NEW last \in BOOLEAN, Collect(last) PROVE TypeOK'
  BY <1>7 DEF Collect
<1>8. ASSUME NEW o \in Objects, Mark(o) PROVE TypeOK'
  BY <1>8 DEF Mark
<1>9. CASE MarkingEnds
  BY <1>9 DEF MarkingEnds, mutator
<1>10. ASSUME NEW o \in Objects, Sweep(o) PROVE TypeOK'
  BY <1>10 DEF Sweep, Freeable
<1>11. CASE SweepEnds
  BY <1>11 DEF SweepEnds, mutator
<1>12. ASSUME NEW o \in Objects, FreeAll(o) PROVE TypeOK'
  BY <1>12 DEF FreeAll
<1>13. CASE Finished
  BY <1>13 DEF Finished, mutator
<1>14. CASE UNCHANGED vars
  BY <1>14 DEF vars
<1>15. QED
  BY <1>1, <1>2, <1>3, <1>4, <1>5, <1>6, <1>7, <1>8, <1>9, <1>10, <1>11, <1>12, <1>13, <1>14
     DEF Next, Program, Shutdown, Collector
----------------------------------------------------------------------------
(* While the program runs the marking sets are empty, so all that a step   *)
(* of the program may break is what refers to what.                        *)
LEMMA RunStep ==
    ASSUME IInv, TypeOK', phase = "run",
           UNCHANGED <<grey, black, phase, final, rounds, hides>>,
           RefersToMade', PartsAccounted', Reachable' \subseteq Alive', white' = Alive'
    PROVE  IInv'
<1>1. MarkedReachable' /\ ManagedAlive' /\ TriColour' /\ ReachableAlive'
  BY DEF IInv, MarkedReachable, ManagedAlive, TriColour, ReachableAlive
<1>2. QED
  BY <1>1 DEF IInv

LEMMA RunFacts ==
    ASSUME IInv, phase = "run"
    PROVE  /\ Reachable \subseteq Alive /\ Alive \subseteq Made
           /\ Reachable \in SUBSET Objects
           /\ roots \subseteq Reachable /\ Closed(Reachable, child)
           /\ white = Alive
<1>1. roots \subseteq Reachable /\ Closed(Reachable, child)
  BY ReachableClosed DEF IInv, TypeOK, Reachable
<1>2. QED
  BY <1>1 DEF IInv, ReachableAlive, ManagedAlive, MarkedReachable, Alive, Made, Reachable,
              ReachableFrom

LEMMA NewStep == ASSUME IInv, TypeOK', NEW o \in Objects, New(o) PROVE IInv'
<1>1. phase = "run" /\ kind[o] = "none" /\ child' = child /\ part' = part
  BY DEF New, Running
<1>2. Alive' = Alive \cup {o} /\ Made' = Made \cup {o} /\ o \notin Made
  BY <1>1 DEF New, Alive, Made, IInv, TypeOK
<1>3. RefersToMade'
  BY <1>1, <1>2 DEF New, IInv, RefersToMade
<1>4. PartsAccounted'
  BY <1>1, <1>2 DEF New, Running, IInv, PartsAccounted
<1>5. Reachable' \subseteq Alive'
  <2>1. Reachable \cup {o} \in SUBSET Objects /\ roots' \subseteq Reachable \cup {o}
    BY <1>1, RunFacts DEF New
  <2>2. Closed(Reachable \cup {o}, child')
    BY <1>1, <1>2, RunFacts DEF Closed, IInv, RefersToMade
  <2>3. Reachable' \subseteq Reachable \cup {o}
    BY <2>1, <2>2, ReachableLeast DEF Reachable
  <2>4. QED
    BY <2>3, <1>1, <1>2, RunFacts
<1>6. white' = Alive'
  BY <1>1, <1>2, RunFacts DEF New
<1>7. QED
  BY <1>1, <1>3, <1>4, <1>5, <1>6, RunStep DEF New, Running

LEMMA NewOwnerStep ==
    ASSUME IInv, TypeOK', NEW o \in Objects, NEW p \in Objects, NewOwner(o, p)
    PROVE  IInv'
<1>1. phase = "run" /\ kind[o] = "none" /\ kind[p] = "none" /\ o # p
  BY DEF NewOwner, Running
<1>2. /\ Alive' = Alive \cup {o, p} /\ Made' = Made \cup {o, p}
      /\ o \notin Made /\ p \notin Made
  BY <1>1 DEF NewOwner, Alive, Made, IInv, TypeOK
<1>3. /\ \A x \in Objects : x # o => child'[x] = child[x] /\ part'[x] = part[x]
      /\ part'[o] = {p} /\ child'[o] \subseteq {p} /\ (~ hides => child'[o] = {p})
  BY <1>1, <1>2 DEF NewOwner, IInv, TypeOK, RefersToMade
<1>4. RefersToMade'
  BY <1>2, <1>3 DEF NewOwner, IInv, RefersToMade
<1>5. PartsAccounted'
  <2>1. ASSUME NEW x \in Objects, NEW y \in part'[x] PROVE part'[y] = {}
    <3>1. CASE x = o
      BY <1>1, <1>2, <1>3, <2>1, <3>1 DEF IInv, RefersToMade
    <3>2. CASE x # o
      <4>1. y \in part[x] /\ y \in Made /\ y \in Objects
        BY <1>3, <2>1, <3>2 DEF IInv, RefersToMade, Made
      <4>2. QED
        BY <1>2, <1>3, <4>1 DEF IInv, PartsAccounted
    <3>3. QED
      BY <3>1, <3>2
  <2>2. UNCHANGED <<phase, final, rounds, hides>>
    BY DEF NewOwner, Running
  <2>3. QED
    BY <1>1, <1>2, <1>3, <2>1, <2>2 DEF IInv, PartsAccounted
<1>6. Reachable' \subseteq Alive'
  <2>1. /\ Reachable \cup {o, p} \in SUBSET Objects
        /\ roots' \subseteq Reachable \cup {o, p}
    BY <1>1, RunFacts DEF NewOwner
  <2>2. Closed(Reachable \cup {o, p}, child')
    BY <1>1, <1>2, <1>3, RunFacts DEF Closed, IInv, RefersToMade
  <2>3. Reachable' \subseteq Reachable \cup {o, p}
    BY <2>1, <2>2, ReachableLeast DEF Reachable
  <2>4. QED
    BY <2>3, <1>1, <1>2, RunFacts
<1>7. white' = Alive'
  BY <1>1, <1>2, RunFacts DEF NewOwner
<1>8. QED
  BY <1>1, <1>4, <1>5, <1>6, <1>7, RunStep DEF NewOwner, Running

(* The other steps of the program make nothing.                            *)
LEMMA HoldStep ==
    ASSUME IInv, TypeOK', phase = "run",
           UNCHANGED <<kind, part, white, grey, black, phase, final, rounds, hides>>,
           roots' \subseteq Reachable \/ (hides /\ roots' \subseteq Made),
           \A x \in Objects : child'[x] \subseteq child[x] \cup roots,
           \A x \in Objects : child'[x] # {} => x \in Made,
           \A x \in Objects : part[x] \cap child[x] \subseteq child'[x]
    PROVE  IInv'
<1>1. Alive' = Alive /\ Made' = Made
  BY DEF Alive, Made
<1>2. RefersToMade'
  BY <1>1, RunFacts DEF IInv, RefersToMade
<1>3. PartsAccounted'
  BY <1>1 DEF IInv, PartsAccounted
<1>4. Reachable' \subseteq Alive'
  <2>1. CASE hides
    <3>1. Alive = Made
      BY <2>1 DEF IInv, PartsAccounted
    <3>2. Closed(Made, child') /\ roots' \subseteq Made /\ Made \in SUBSET Objects
      BY <1>1, <1>2 DEF Closed, RefersToMade, Made
    <3>3. QED
      BY <1>1, <3>1, <3>2, ReachableLeast DEF Reachable
  <2>2. CASE ~ hides
    <3>1. roots' \subseteq Reachable /\ Reachable \in SUBSET Objects
      BY <2>2, RunFacts
    <3>2. Closed(Reachable, child')
      BY RunFacts DEF Closed
    <3>3. QED
      BY <1>1, <3>1, <3>2, ReachableLeast, RunFacts DEF Reachable
  <2>3. QED
    BY <2>1, <2>2
<1>5. white' = Alive'
  BY <1>1, RunFacts
<1>6. QED
  BY <1>2, <1>3, <1>4, <1>5, RunStep

LEMMA LinkStep ==
    ASSUME IInv, TypeOK', NEW o \in Objects, NEW q \in Objects,
           Link(o, q) \/ Unlink(o, q) \/ Load(o, q) \/ Drop(o)
    PROVE  IInv'
<1>1. phase = "run" /\ o \in Made
  BY DEF Link, Unlink, Load, Drop, Running, IInv, RefersToMade
<1>2. roots \subseteq Reachable /\ Closed(Reachable, child)
  BY <1>1, RunFacts
<1>3. part[o] \subseteq Made
  BY DEF IInv, RefersToMade
<1>4. CASE Link(o, q)
  BY <1>1, <1>2, <1>3, <1>4, HoldStep
     DEF Link, Running, Holders, IInv, TypeOK, RefersToMade
<1>5. CASE Unlink(o, q)
  <2>1. \A x \in Objects : child'[x] \subseteq child[x] /\ child[x] \ {q} \subseteq child'[x]
    BY <1>5 DEF Unlink, IInv, TypeOK
  <2>2. ASSUME NEW x \in Objects PROVE part[x] \cap child[x] \subseteq child'[x]
    BY <1>5 DEF Unlink, Holders, IInv, TypeOK, PartsAccounted
  <2>3. QED
    BY <1>1, <1>2, <1>5, <2>1, <2>2, HoldStep DEF Unlink, Running, IInv, RefersToMade
<1>6. CASE Load(o, q)
  <2>1. roots' = roots \cup {q} /\ child' = child /\ o \in roots /\ q \in child[o] \cup part[o]
    BY <1>6 DEF Load
  <2>2. roots' \subseteq Reachable \/ (hides /\ roots' \subseteq Made)
    BY <1>2, <2>1 DEF Closed, IInv, PartsAccounted, RefersToMade
  <2>3. QED
    BY <1>1, <1>6, <2>1, <2>2, HoldStep DEF Load, Running, IInv, RefersToMade
<1>7. CASE Drop(o)
  BY <1>1, <1>2, <1>7, HoldStep DEF Drop, Running, IInv, RefersToMade
<1>8. QED
  BY <1>4, <1>5, <1>6, <1>7
----------------------------------------------------------------------------
LEMMA CollectStep ==
    ASSUME IInv, TypeOK', NEW last \in BOOLEAN, Collect(last) PROVE IInv'
<1>1. /\ phase = "run" /\ phase' = "mark" /\ grey = {} /\ black = {}
      /\ UNCHANGED <<kind, child, part, roots, black, hides>>
  BY DEF Collect, IInv, MarkedReachable
<1>2. Reachable' = Reachable /\ Alive' = Alive /\ Made' = Made
  BY <1>1 DEF Reachable, Alive, Made
<1>3. /\ Reachable \subseteq Alive /\ roots \subseteq Reachable /\ white = Alive
  BY <1>1, RunFacts
<1>4. grey' = roots /\ white' = white \ roots
  BY <1>1, <1>3 DEF Collect
<1>5. RefersToMade'
  BY <1>1, <1>2 DEF IInv, RefersToMade
<1>6. PartsAccounted'
  BY <1>1, <1>2 DEF Collect, IInv, PartsAccounted, TypeOK
<1>7. MarkedReachable' /\ ReachableAlive' /\ ManagedAlive' /\ TriColour'
  BY <1>1, <1>2, <1>3, <1>4 DEF MarkedReachable, ReachableAlive, ManagedAlive, TriColour
<1>8. QED
  BY <1>5, <1>6, <1>7 DEF IInv

LEMMA MarkFacts ==
    ASSUME IInv, phase = "mark", NEW o \in grey
    PROVE  /\ o \in Reachable /\ child[o] \subseteq Reachable
           /\ child[o] \subseteq white \cup grey \cup black /\ o \in Made
<1>1. o \in Reachable /\ o \in Alive
  BY DEF IInv, MarkedReachable, ManagedAlive
<1>2. Closed(Reachable, child)
  BY ReachableClosed DEF Reachable, IInv, TypeOK
<1>3. QED
  BY <1>1, <1>2 DEF Closed, IInv, ReachableAlive, ManagedAlive, Alive, Made

LEMMA MarkStep == ASSUME IInv, TypeOK', NEW o \in Objects, Mark(o) PROVE IInv'
<1>1. /\ phase = "mark" /\ phase' = "mark" /\ o \in grey
      /\ UNCHANGED <<child, part, roots, phase, final, rounds, hides>>
  BY DEF Mark
<1>2. Reachable' = Reachable
  BY <1>1 DEF Reachable
<1> DEFINE Makes(new) == /\ Alive' = Alive \cup new /\ Made' = Made \cup new
                         /\ new \cap Made = {}
                         /\ white' = (white \ child[o]) \cup new
<1>3. PICK new \in SUBSET Objects : Makes(new)
  <2>1. CASE kind' = kind /\ white' = white \ child[o]
    <3>1. Makes({})
      BY <2>1 DEF Alive, Made
    <3>2. QED
      BY <2>1, <3>1
  <2>2. ASSUME NEW it \in Objects, kind[it] = "none",
               kind' = [kind EXCEPT ![it] = "plain"],
               white' = (white \ child[o]) \cup {it}
        PROVE  \E new \in SUBSET Objects : Makes(new)
    <3>1. Makes({it})
      BY <2>2 DEF Alive, Made, IInv, TypeOK
    <3>2. QED
      BY <3>1
  <2>3. QED
    BY <2>1, <2>2 DEF Mark
<1>4. /\ black' = black \cup {o} /\ grey' = (grey \ {o}) \cup (white \cap child[o])
  BY DEF Mark
<1>5. RefersToMade'
  BY <1>1, <1>3 DEF IInv, RefersToMade
<1>6. PartsAccounted'
  BY <1>1, <1>3 DEF IInv, PartsAccounted
<1>7. MarkedReachable'
  BY <1>1, <1>2, <1>4, MarkFacts DEF IInv, MarkedReachable
<1>8. ReachableAlive'
  BY <1>1, <1>2, <1>3 DEF IInv, ReachableAlive
<1>9. ManagedAlive'
  <2>1. Alive \subseteq Made
    BY DEF Alive, Made
  <2>2. QED
    BY <1>1, <1>3, <1>4, <2>1, MarkFacts DEF IInv, ManagedAlive
<1>10. TriColour'
  BY <1>1, <1>4, MarkFacts DEF IInv, TriColour
<1>11. QED
  BY <1>5, <1>6, <1>7, <1>8, <1>9, <1>10 DEF IInv

LEMMA MarkingEndsStep == ASSUME IInv, TypeOK', MarkingEnds PROVE IInv'
<1>1. /\ phase = "mark" /\ grey = {} /\ phase' = "sweep"
      /\ UNCHANGED <<kind, child, part, roots, white, grey, black, final, rounds, hides>>
  BY DEF MarkingEnds, mutator
<1>2. Reachable' = Reachable /\ Alive' = Alive /\ Made' = Made
  BY <1>1 DEF Reachable, Alive, Made
<1>3. Reachable \subseteq black
  <2>1. roots \subseteq black /\ Closed(black, child) /\ black \in SUBSET Objects
    BY <1>1 DEF IInv, TriColour, Closed, TypeOK
  <2>2. QED
    BY <2>1, ReachableLeast DEF Reachable
<1>4. RefersToMade' /\ PartsAccounted'
  BY <1>1, <1>2 DEF IInv, RefersToMade, PartsAccounted
<1>5. MarkedReachable' /\ ReachableAlive' /\ ManagedAlive' /\ TriColour'
  BY <1>1, <1>2, <1>3
     DEF IInv, MarkedReachable, ReachableAlive, ManagedAlive, TriColour
<1>6. QED
  BY <1>4, <1>5 DEF IInv

LEMMA SweepStep == ASSUME IInv, TypeOK', NEW o \in Objects, Sweep(o) PROVE IInv'
<1>1. /\ phase = "sweep" /\ phase' = "sweep" /\ grey = {} /\ o \in white \ black
      /\ UNCHANGED <<child, part, roots, grey, phase, final, rounds, hides>>
  BY DEF Sweep, IInv, MarkedReachable
<1>2. Reachable' = Reachable
  BY <1>1 DEF Reachable
<1>3. Reachable \subseteq black /\ white \cup black = Alive
  BY <1>1 DEF IInv, MarkedReachable, ManagedAlive
<1>4. Made' = Made
  <2>1. o \in Made
    BY <1>1, <1>3 DEF Alive, Made
  <2>2. QED
    BY <2>1 DEF Sweep, Made, IInv, TypeOK
<1>5. white' \cup black' = Alive' /\ black \subseteq black'
  <2>1. CASE o \in Freeable
    <3>1. kind' = [kind EXCEPT ![o] = "freed"] /\ white' = white \ {o} /\ black' = black
      BY <2>1 DEF Sweep
    <3>2. Alive' = Alive \ {o}
      BY <3>1 DEF Alive, IInv, TypeOK
    <3>3. QED
      BY <1>1, <1>3, <3>1, <3>2
  <2>2. CASE o \notin Freeable
    BY <1>1, <1>3, <2>2 DEF Sweep, Alive
  <2>3. QED
    BY <2>1, <2>2
<1>6. RefersToMade' /\ PartsAccounted'
  BY <1>1, <1>4 DEF IInv, RefersToMade, PartsAccounted
<1>7. MarkedReachable' /\ ReachableAlive' /\ ManagedAlive' /\ TriColour'
  BY <1>1, <1>2, <1>3, <1>5
     DEF IInv, MarkedReachable, ReachableAlive, ManagedAlive, TriColour
<1>8. QED
  BY <1>6, <1>7 DEF IInv

LEMMA SweepEndsStep == ASSUME IInv, TypeOK', SweepEnds PROVE IInv'
<1>1. /\ phase = "sweep" /\ grey = {} /\ white \subseteq black
      /\ white' = black /\ black' = {}
      /\ phase' = IF final THEN "freeall" ELSE "run"
      /\ UNCHANGED <<kind, child, part, roots, grey, final, rounds, hides>>
  BY DEF SweepEnds, mutator, IInv, MarkedReachable
<1>2. Reachable' = Reachable /\ Alive' = Alive /\ Made' = Made
  BY <1>1 DEF Reachable, Alive, Made
<1>3. white' = Alive
  BY <1>1 DEF IInv, ManagedAlive
<1>4. RefersToMade' /\ PartsAccounted'
  BY <1>1, <1>2 DEF IInv, RefersToMade, PartsAccounted, TypeOK
<1>5. MarkedReachable' /\ ReachableAlive' /\ ManagedAlive' /\ TriColour'
  BY <1>1, <1>2, <1>3
     DEF IInv, MarkedReachable, ReachableAlive, ManagedAlive, TriColour
<1>6. QED
  BY <1>4, <1>5 DEF IInv

LEMMA FreeAllStep == ASSUME IInv, TypeOK', NEW o \in Objects, FreeAll(o) PROVE IInv'
<1>1. /\ phase = "freeall" /\ o \in white /\ grey = {} /\ black = {}
      /\ kind' = [kind EXCEPT ![o] = "freed"] /\ white' = white \ {o}
      /\ UNCHANGED <<child, part, roots, grey, black, phase, final, rounds, hides>>
  BY DEF FreeAll, IInv, MarkedReachable
<1>2. white = Alive
  BY <1>1 DEF IInv, ManagedAlive
<1>3. Alive' = Alive \ {o} /\ Made' = Made
  BY <1>1, <1>2 DEF Alive, Made, IInv, TypeOK
<1>4. RefersToMade' /\ PartsAccounted'
  BY <1>1, <1>3 DEF IInv, RefersToMade, PartsAccounted
<1>5. MarkedReachable' /\ ReachableAlive' /\ ManagedAlive' /\ TriColour'
  BY <1>1, <1>2, <1>3 DEF MarkedReachable, ReachableAlive, ManagedAlive, TriColour
<1>6. QED
  BY <1>4, <1>5 DEF IInv

LEMMA QuietStep == ASSUME IInv, TypeOK', Finished \/ UNCHANGED vars PROVE IInv'
<1>1. UNCHANGED <<kind, child, part, roots, white, grey, black, final, rounds, hides>>
  BY DEF Finished, vars, mutator
<1>2. phase' = phase \/ (phase = "freeall" /\ phase' = "done")
  BY DEF Finished, vars
<1>3. Reachable' = Reachable /\ Alive' = Alive /\ Made' = Made
  BY <1>1 DEF Reachable, Alive, Made
<1>4. RefersToMade' /\ PartsAccounted'
  BY <1>1, <1>2, <1>3 DEF IInv, RefersToMade, PartsAccounted
<1>5. MarkedReachable' /\ ReachableAlive' /\ ManagedAlive' /\ TriColour'
  BY <1>1, <1>2, <1>3
     DEF IInv, MarkedReachable, ReachableAlive, ManagedAlive, TriColour
<1>6. QED
  BY <1>4, <1>5 DEF IInv
----------------------------------------------------------------------------
(* The invariant of the collector, in every state of every run.            *)
THEOREM Invariance == Spec => []IInv
<1>1. IInv /\ [Next]_vars => IInv'
  <2> SUFFICES ASSUME IInv, [Next]_vars PROVE IInv'
    OBVIOUS
  <2>1. TypeOK'
    BY TypeStep DEF IInv
  <2>2. ASSUME NEW o \in Objects, New(o) PROVE IInv'
    BY <2>1, <2>2, NewStep
  <2>3. ASSUME NEW o \in Objects, NEW q \in Objects, NewOwner(o, q) PROVE IInv'
    BY <2>1, <2>3, NewOwnerStep
  <2>4. ASSUME NEW o \in Objects, NEW q \in Objects,
               Link(o, q) \/ Unlink(o, q) \/ Load(o, q) \/ Drop(o)
        PROVE  IInv'
    BY <2>1, <2>4, LinkStep
  <2>5. ASSUME NEW last \in BOOLEAN, Collect(last) PROVE IInv'
    BY <2>1, <2>5, CollectStep
  <2>6. ASSUME NEW o \in Objects, Mark(o) \/ Sweep(o) \/ FreeAll(o) PROVE IInv'
    BY <2>1, <2>6, MarkStep, SweepStep, FreeAllStep
  <2>7. CASE MarkingEnds \/ SweepEnds
    BY <2>1, <2>7, MarkingEndsStep, SweepEndsStep
  <2>8. CASE Finished \/ UNCHANGED vars
    BY <2>1, <2>8, QuietStep
  <2>9. QED
    BY <2>2, <2>3, <2>4, <2>5, <2>6, <2>7, <2>8 DEF Next, Program, Shutdown, Collector
<1>2. QED
  BY InitIInv, <1>1, PTL DEF Spec

(* An object that the program can reach is never one that was released     *)
(* (gc.c:107-275), however many objects and collections there are.         *)
THEOREM NeverReleasesReachable == Spec => []ReachableAlive
BY Invariance, PTL DEF IInv

(* The sets of the collector hold the objects there are, each in one place.*)
THEOREM ManagesAll == Spec => []ManagedAlive
BY Invariance, PTL DEF IInv

(* While marking, no black object refers to a white one.                   *)
THEOREM KeepsTriColour == Spec => []TriColour
BY Invariance, PTL DEF IInv
----------------------------------------------------------------------------
(* The refinement of PyLiteHeap.  The abstract state, and what every step  *)
(* that is not a stutter does to it.                                       *)
AbsHeap == IF Ended THEN {} ELSE Alive \ Doomed
AbsFreeable == IF Ended THEN {} ELSE Freeable \ Doomed
AbsSame == UNCHANGED <<AbsHeap, AbsFreeable, child, roots, part>>

(* The two modules mean the same by what can be reached.                   *)
LEMMA SameReachable == Heap!Reachable = Reachable
BY DEF Heap!Reachable, Heap!Closed, Reachable, ReachableFrom, Closed

LEMMA InitHeap == Init => Heap!Init
<1> SUFFICES ASSUME Init PROVE Heap!Init
  OBVIOUS
<1>1. ~ Ended /\ Doomed = {} /\ Alive = {} /\ Freeable = {}
  BY DEF Init, Ended, Doomed, Alive, Freeable
<1>2. QED
  BY <1>1 DEF Init, Heap!Init

(* While the program runs or the collector marks, the heap is what is      *)
(* alive.                                                                  *)
LEMMA AbsUndoomed ==
    ASSUME phase \in {"run", "mark"}
    PROVE  ~ Ended /\ Doomed = {} /\ AbsHeap = Alive /\ AbsFreeable = Freeable
BY DEF Ended, Doomed, AbsHeap, AbsFreeable

LEMMA AbsUndoomedNext ==
    ASSUME phase' \in {"run", "mark"}
    PROVE  AbsHeap' = Alive' /\ AbsFreeable' = Freeable'
BY DEF Ended, Doomed, AbsHeap, AbsFreeable

(* New, NewOwner and the iterator of the marking.                          *)
LEMMA MakeMaps ==
    ASSUME phase \in {"run", "mark"}, phase' \in {"run", "mark"},
           Alive' # Alive, Alive \subseteq Alive', Freeable \subseteq Freeable',
           roots \subseteq roots', roots' \subseteq roots \cup (Alive' \ Alive),
           \A o \in Objects : /\ child'[o] \subseteq child[o] \cup (Alive' \ Alive)
                              /\ part'[o] \subseteq part[o] \cup (Alive' \ Alive)
    PROVE  Heap!Make
<1>1. AbsHeap = Alive /\ AbsFreeable = Freeable /\ AbsHeap' = Alive' /\ AbsFreeable' = Freeable'
  BY AbsUndoomed, AbsUndoomedNext
<1>2. QED
  BY <1>1 DEF Heap!Make, AbsHeap, AbsFreeable

(* Link, Unlink, Load and Drop.                                            *)
LEMMA HoldMaps ==
    ASSUME phase = "run", phase' = "run", UNCHANGED <<kind, part>>,
           roots' \subseteq Reachable \cup UNION {part[o] : o \in Reachable},
           \A o \in Objects : child'[o] \subseteq child[o] \cup Reachable
    PROVE  Heap!Hold
<1>1. AbsHeap' = AbsHeap /\ AbsFreeable' = AbsFreeable
  BY AbsUndoomed, AbsUndoomedNext DEF Alive, Freeable
<1>2. QED
  BY <1>1, SameReachable DEF Heap!Hold, AbsHeap, AbsFreeable

LEMMA ProgramMaps ==
    ASSUME IInv, NEW o \in Objects, NEW q \in Objects,
           \/ New(o) \/ NewOwner(o, q)
           \/ Link(o, q) \/ Unlink(o, q) \/ Load(o, q) \/ Drop(o)
    PROVE  Heap!Next
<1>1. phase = "run" /\ phase' = "run"
  BY DEF New, NewOwner, Link, Unlink, Load, Drop, Running
<1>2. roots \subseteq Reachable /\ Closed(Reachable, child) /\ Reachable \in SUBSET Objects
  BY <1>1, RunFacts
<1>3. CASE New(o)
  <2>1. Alive' = Alive \cup {o} /\ o \notin Alive /\ Freeable' = Freeable
    BY <1>3 DEF New, Alive, Freeable, IInv, TypeOK
  <2>2. child' = child /\ part' = part /\ roots' = roots \cup {o}
    BY <1>3 DEF New
  <2>3. QED
    BY <1>1, <2>1, <2>2, MakeMaps DEF Heap!Next
<1>4. CASE NewOwner(o, q)
  <2>1. Alive' = Alive \cup {o, q} /\ o \notin Alive /\ q \notin Alive /\ Freeable' = Freeable \cup {q}
    BY <1>4 DEF NewOwner, Alive, Freeable, IInv, TypeOK
  <2>2. \A x \in Objects : /\ child'[x] \subseteq child[x] \cup {q}
                           /\ part'[x] \subseteq part[x] \cup {q}
    BY <1>4 DEF NewOwner, IInv, TypeOK
  <2>3. roots' = roots \cup {o}
    BY <1>4 DEF NewOwner
  <2>4. QED
    BY <1>1, <2>1, <2>2, <2>3, MakeMaps DEF Heap!Next
<1>5. CASE Link(o, q) \/ Unlink(o, q) \/ Load(o, q) \/ Drop(o)
  <2>1. UNCHANGED <<kind, part>> /\ o \in Reachable
    BY <1>2, <1>5 DEF Link, Unlink, Load, Drop
  <2>2. \A x \in Objects : child'[x] \subseteq child[x] \cup Reachable
    BY <1>2, <1>5 DEF Link, Unlink, Load, Drop
  <2>3. roots' \subseteq Reachable \cup UNION {part[x] : x \in Reachable}
    BY <1>2, <1>5, <2>1 DEF Link, Unlink, Load, Drop, Closed
  <2>4. QED
    BY <1>1, <2>1, <2>2, <2>3, HoldMaps DEF Heap!Next
<1>6. QED
  BY <1>3, <1>4, <1>5

LEMMA CollectMaps == ASSUME NEW last \in BOOLEAN, Collect(last) PROVE AbsSame
<1>1. phase = "run" /\ phase' = "mark" /\ UNCHANGED <<kind, child, part, roots>>
  BY DEF Collect
<1>2. QED
  BY <1>1, AbsUndoomed, AbsUndoomedNext DEF AbsSame, Alive, Freeable

LEMMA MarkMaps ==
    ASSUME IInv, NEW o \in Objects, Mark(o)
    PROVE  Heap!Make \/ AbsSame
<1>1. phase = "mark" /\ phase' = "mark" /\ UNCHANGED <<child, part, roots>>
  BY DEF Mark
<1>2. CASE kind' = kind
  BY <1>1, <1>2, AbsUndoomed, AbsUndoomedNext DEF AbsSame, Alive, Freeable
<1>3. ASSUME NEW it \in Objects, kind[it] = "none", kind' = [kind EXCEPT ![it] = "plain"]
      PROVE  Heap!Make
  <2>1. Alive' = Alive \cup {it} /\ it \notin Alive /\ Freeable' = Freeable
    BY <1>3 DEF Alive, Freeable, IInv, TypeOK
  <2>2. QED
    BY <1>1, <2>1, MakeMaps
<1>4. QED
  BY <1>2, <1>3 DEF Mark

(* The marking has found all that can be reached, and only that: the sweep *)
(* will release the releasable rest.                                       *)
LEMMA MarkingEndsMaps == ASSUME IInv, MarkingEnds PROVE Heap!Release
<1>1. /\ phase = "mark" /\ grey = {} /\ phase' = "sweep"
      /\ UNCHANGED <<kind, child, part, roots, white, black>>
  BY DEF MarkingEnds, mutator
<1>2. Reachable = black
  <2>1. roots \subseteq black /\ Closed(black, child) /\ black \in SUBSET Objects
    BY <1>1 DEF IInv, TriColour, Closed, TypeOK
  <2>2. Reachable \subseteq black
    BY <2>1, ReachableLeast DEF Reachable
  <2>3. QED
    BY <1>1, <2>2 DEF IInv, MarkedReachable
<1>3. white \cup black = Alive
  BY <1>1 DEF IInv, ManagedAlive
<1>4. AbsHeap = Alive /\ AbsFreeable = Freeable
  BY <1>1, AbsUndoomed
<1>5. AbsHeap' = Alive \ (Freeable \cap (white \ black))
  BY <1>1 DEF AbsHeap, Ended, Doomed, Alive, Freeable
<1>6. AbsHeap' = AbsHeap \ (AbsFreeable \ Reachable)
  BY <1>2, <1>3, <1>4, <1>5
<1>7. QED
  BY <1>1, <1>6, SameReachable DEF Heap!Release, AbsHeap, AbsFreeable

LEMMA SweepMaps == ASSUME IInv, NEW o \in Objects, Sweep(o) PROVE AbsSame
<1>1. /\ phase = "sweep" /\ phase' = "sweep" /\ o \in white \ black
      /\ UNCHANGED <<child, part, roots>>
  BY DEF Sweep
<1>2. /\ AbsHeap = Alive \ (Freeable \cap (white \ black))
      /\ AbsFreeable = Freeable \ (Freeable \cap (white \ black))
      /\ AbsHeap' = Alive' \ (Freeable' \cap (white' \ black'))
      /\ AbsFreeable' = Freeable' \ (Freeable' \cap (white' \ black'))
  BY <1>1 DEF AbsHeap, AbsFreeable, Ended, Doomed
<1>3. CASE o \in Freeable
  <2>1. kind' = [kind EXCEPT ![o] = "freed"] /\ white' = white \ {o} /\ black' = black
    BY <1>3 DEF Sweep
  <2>2. Alive' = Alive \ {o} /\ Freeable' = Freeable \ {o}
    BY <2>1 DEF Alive, Freeable, IInv, TypeOK
  <2>3. QED
    BY <1>1, <1>2, <1>3, <2>1, <2>2 DEF AbsSame
<1>4. CASE o \notin Freeable
  <2>1. kind' = kind /\ white' = white /\ black' = black \cup {o}
    BY <1>4 DEF Sweep
  <2>2. Alive' = Alive /\ Freeable' = Freeable
    BY <2>1 DEF Alive, Freeable
  <2>3. QED
    BY <1>1, <1>2, <1>4, <2>1, <2>2 DEF AbsSame
<1>5. QED
  BY <1>3, <1>4

LEMMA SweepEndsMaps == ASSUME IInv, SweepEnds PROVE Heap!Quit \/ AbsSame
<1>1. /\ phase = "sweep" /\ white \subseteq black /\ UNCHANGED <<kind, child, part, roots>>
      /\ phase' = IF final THEN "freeall" ELSE "run"
  BY DEF SweepEnds, mutator
<1>2. CASE final
  BY <1>1, <1>2 DEF Heap!Quit, Ended
<1>3. CASE ~ final
  <2>1. phase' = "run" /\ Doomed = {} /\ ~ Ended
    BY <1>1, <1>3 DEF Doomed, Ended
  <2>2. QED
    BY <1>1, <2>1, AbsUndoomedNext DEF AbsSame, AbsHeap, AbsFreeable, Alive, Freeable
<1>4. QED
  BY <1>2, <1>3

LEMMA EndMaps ==
    ASSUME (\E o \in Objects : FreeAll(o)) \/ Finished \/ UNCHANGED vars
    PROVE  AbsSame
<1>1. CASE (\E o \in Objects : FreeAll(o)) \/ Finished
  <2>1. Ended /\ Ended' /\ UNCHANGED <<child, part, roots>>
    BY <1>1 DEF FreeAll, Finished, Ended, mutator
  <2>2. QED
    BY <2>1 DEF AbsSame, AbsHeap, AbsFreeable
<1>2. CASE UNCHANGED vars
  BY <1>2 DEF vars, AbsSame, AbsHeap, AbsFreeable, Ended, Doomed, Alive, Freeable
<1>3. QED
  BY <1>1, <1>2

(* The collector of gc.c:107-275 implements the heap of PyLiteHeap: seen   *)
(* from outside, a collection takes exactly what is releasable and out of  *)
(* reach, in one step, and nothing else is ever taken before the shutdown. *)
THEOREM RefinesHeap == Spec => Implements
<1>1. IInv /\ [Next]_vars => [Heap!Next]_<<AbsHeap, AbsFreeable, child, roots, part>>
  <2> SUFFICES ASSUME IInv, [Next]_vars PROVE Heap!Next \/ AbsSame
    BY DEF AbsSame
  <2>1. ASSUME NEW o \in Objects, New(o) \/ Drop(o) PROVE Heap!Next
    BY <2>1, ProgramMaps
  <2>2. ASSUME NEW o \in Objects, NEW q \in Objects,
               NewOwner(o, q) \/ Link(o, q) \/ Unlink(o, q) \/ Load(o, q)
        PROVE  Heap!Next
    BY <2>2, ProgramMaps
  <2>3. ASSUME NEW last \in BOOLEAN, Collect(last) PROVE AbsSame
    BY <2>3, CollectMaps
  <2>4. ASSUME NEW o \in Objects, Mark(o) PROVE Heap!Next \/ AbsSame
    BY <2>4, MarkMaps DEF Heap!Next
  <2>5. ASSUME NEW o \in Objects, Sweep(o) PROVE AbsSame
    BY <2>5, SweepMaps
  <2>6. CASE MarkingEnds
    BY <2>6, MarkingEndsMaps DEF Heap!Next
  <2>7. CASE SweepEnds
    BY <2>7, SweepEndsMaps DEF Heap!Next
  <2>8. CASE (\E o \in Objects : FreeAll(o)) \/ Finished \/ UNCHANGED vars
    BY <2>8, EndMaps
  <2>9. QED
    BY <2>1, <2>2, <2>3, <2>4, <2>5, <2>6, <2>7, <2>8
       DEF Next, Program, Shutdown, Collector
<1>2. IInv /\ [Next]_vars =>
        [Heap!Next]_<<IF Ended THEN {} ELSE Alive \ Doomed,
                      IF Ended THEN {} ELSE Freeable \ Doomed, child, roots, part>>
  BY <1>1 DEF AbsHeap, AbsFreeable
<1>3. QED
  BY InitHeap, Invariance, <1>2, PTL DEF Spec, Implements, Heap!Spec
=============================================================================
