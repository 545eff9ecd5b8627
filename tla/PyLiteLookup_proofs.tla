-------------------------- MODULE PyLiteLookup_proofs --------------------------
(***************************************************************************)
(* Names and attributes: what a lookup finds is what the text means, for   *)
(* programs of any size.                                                   *)
(***************************************************************************)
EXTENDS PyLiteNames, PyLiteObjects, SequenceTheorems, WellFoundedInduction, TLAPS

-----------------------------------------------------------------------------
(* Least elements, in place of induction *)
Below == {ss \in Nat \X Nat : ss[1] < ss[2]}

(* A set of natural numbers has a least element. *)
LEMMA LeastOf ==
    ASSUME NEW T \in SUBSET Nat, T # {}
    PROVE  \E x \in T : \A y \in T : x <= y
<1>1. IsWellFoundedOn(Below, Nat)
    BY NatLessThanWellFounded DEF OpToRel, Below
<1>2. PICK x \in T : \A y \in T : <<y, x>> \notin Below
    BY <1>1, WFMin, Zenon
<1>3. ASSUME NEW y \in T PROVE x <= y
    <2>1. <<y, x>> \notin Below
        BY <1>2
    <2>2. ~(y < x)
        BY <2>1 DEF Below
    <2> QED BY <2>2
<1> QED BY <1>2, <1>3

(* What is not at 0 and comes nowhere for the first time never comes.      *)
LEMMA NeverComes ==
    ASSUME NEW m \in Nat, NEW T \in SUBSET (0 .. m), 0 \notin T,
           \A k \in 1 .. m : k \in T => k - 1 \in T
    PROVE  T = {}
<1> SUFFICES ASSUME T # {} PROVE FALSE
    OBVIOUS
<1>1. T \in SUBSET Nat
    OBVIOUS
<1>2. PICK x \in T : \A y \in T : x <= y
    BY <1>1, LeastOf
<1>3. x \in 1 .. m
    OBVIOUS
<1> QED BY <1>2, <1>3

(* The function Min of FiniteSetsExt does give the least. *)
LEMMA MinIs ==
    ASSUME NEW T \in SUBSET Nat, T # {}
    PROVE  Min(T) \in T /\ \A y \in T : Min(T) <= y
<1>1. \E x \in T : \A y \in T : x <= y
    BY LeastOf
<1> QED BY <1>1 DEF Min

-----------------------------------------------------------------------------
(* Attributes *)

(* Every type but object has a base that is older. *)
Rooted(ts) ==
    \A t \in 1 .. Len(ts) :
        ts[t].base \in 1 .. Len(ts) /\ (t # ObjectType => ts[t].base < t)
TypesOK ==
    /\ types \in Seq(Range(types)) /\ Len(types) >= 2
    /\ \A t \in 1 .. Len(types) : types[t] = [base |-> types[t].base, attrs |-> types[t].attrs]
    /\ Rooted(types)
(* No attribute of an instance is the value for "not found". *)
OwnAttrs(o) == \A n \in DOMAIN objects[o].attrs : objects[o].attrs[n] # None
InstancesOK ==
    /\ objects \in Seq(Range(objects))
    /\ \A o \in 1 .. Len(objects) :
          /\ objects[o] = [type |-> objects[o].type, attrs |-> objects[o].attrs]
          /\ objects[o].type \in 1 .. Len(types)
          /\ OwnAttrs(o)
ObjectsInv == TypesOK /\ InstancesOK

(* The types above t, one by one *)
NextUp(g, ts, t, k) ==
    IF k = 0 THEN <<t>>
    ELSE IF Last(g[k - 1]) = ObjectType THEN g[k - 1]
    ELSE Append(g[k - 1], ts[Last(g[k - 1])].base)
(* A chain from t upwards *)
Climb(c, ts, t) ==
    /\ c \in Seq(1 .. Len(ts)) /\ Len(c) >= 1 /\ c[1] = t
    /\ \A k \in 1 .. Len(c) - 1 : c[k] # ObjectType /\ c[k + 1] = ts[c[k]].base
Climbs(g, ts, t, m) ==
    g = [k \in 0 .. m |-> NextUp(g, ts, t, k)]

(* The recursive function that climbs the bases exists. *)
LEMMA ClimbsExist ==
    ASSUME NEW m \in Nat, NEW ts, NEW t
    PROVE  \E g : Climbs(g, ts, t, m)
<1> DEFINE T == {n \in 0 .. m : ~\E g : Climbs(g, ts, t, n)}
<1>1. 0 \notin T
    <2>1. Climbs([k \in 0 .. 0 |-> <<t>>], ts, t, 0)
        BY DEF Climbs, NextUp
    <2> QED BY <2>1
<1>2. ASSUME NEW n \in 1 .. m, n - 1 \notin T PROVE n \notin T
    <2>1. n - 1 \in 0 .. m
        OBVIOUS
    <2>2. PICK g : Climbs(g, ts, t, n - 1)
        BY <1>2, <2>1
    <2> DEFINE h == [k \in 0 .. n |-> NextUp(g, ts, t, k)]
    <2>3. \A k \in 0 .. n - 1 : h[k] = g[k]
        <3> SUFFICES ASSUME NEW k \in 0 .. n - 1 PROVE h[k] = g[k]
            OBVIOUS
        <3>1. g[k] = NextUp(g, ts, t, k)
            BY <2>2 DEF Climbs
        <3>2. k \in 0 .. n
            OBVIOUS
        <3> QED BY <3>1, <3>2
    <2>4. \A k \in 0 .. n : h[k] = NextUp(h, ts, t, k)
        <3> SUFFICES ASSUME NEW k \in 0 .. n
                     PROVE  NextUp(g, ts, t, k) = NextUp(h, ts, t, k)
            OBVIOUS
        <3>1. CASE k = 0
            BY <3>1 DEF NextUp
        <3>2. CASE k # 0
            <4>1. k - 1 \in 0 .. n - 1
                BY <3>2
            <4> HIDE DEF h
            <4>2. h[k - 1] = g[k - 1]
                BY <4>1, <2>3
            <4> QED BY <4>2, <3>2 DEF NextUp
        <3> QED BY <3>1, <3>2
    <2>5. Climbs(h, ts, t, n)
        <3>1. h = [k \in 0 .. n |-> h[k]]
            OBVIOUS
        <3> HIDE DEF h
        <3> QED BY <3>1, <2>4 DEF Climbs
    <2> QED BY <2>5
<1> HIDE DEF T
<1>3. T = {}
    <2>1. T \in SUBSET (0 .. m)
        BY DEF T
    <2> QED BY <1>1, <1>2, <2>1, NeverComes
<1>4. m \in 0 .. m
    OBVIOUS
<1> QED BY <1>3, <1>4 DEF T

(* A climb goes down in age: it comes to its end. *)
LEMMA ClimbFalls ==
    ASSUME NEW ts, Len(ts) \in Nat, Rooted(ts), NEW t \in 1 .. Len(ts),
           NEW c, Climb(c, ts, t), NEW i \in 1 .. Len(c), NEW j \in i .. Len(c)
    PROVE  c[j] <= c[i] - (j - i)
<1> DEFINE T == {d \in 0 .. Len(c) - i : ~(c[i + d] <= c[i] - d)}
<1>0. Len(c) \in Nat /\ i \in Nat /\ j \in Nat /\ \A k \in 1 .. Len(c) : c[k] \in 1 .. Len(ts)
    BY DEF Climb
<1>1. 0 \notin T
    BY <1>0
<1>2. ASSUME NEW d \in 1 .. Len(c) - i, d - 1 \notin T PROVE d \notin T
    <2>1. d - 1 \in 0 .. Len(c) - i /\ i + (d - 1) \in 1 .. Len(c) - 1 /\ i + d \in 1 .. Len(c)
        BY <1>0
    <2>2. c[i + (d - 1)] <= c[i] - (d - 1)
        BY <1>2, <2>1
    <2> DEFINE a == i + (d - 1)
    <2>3. c[a + 1] = ts[c[a]].base /\ c[a] # ObjectType /\ c[a] \in 1 .. Len(ts)
        BY <2>1, <1>0, SMTT(30) DEF Climb
    <2>4. c[a + 1] < c[a]
        BY <2>3, <1>0 DEF Rooted
    <2>5. a + 1 = i + d
        BY <1>0
    <2>6. c[i + d] < c[i + (d - 1)]
        BY <2>4, <2>5
    <2>7. c[i + d] \in Int /\ c[i + (d - 1)] \in Int /\ c[i] \in Int
        BY <2>1, <1>0
    <2>8. c[i + d] <= c[i] - d
        BY <2>2, <2>6, <2>7, SMTT(30)
    <2> QED BY <2>8
<1> HIDE DEF T
<1>3. T = {}
    <2>1. T \in SUBSET (0 .. Len(c) - i) /\ Len(c) - i \in Nat
        BY <1>0 DEF T
    <2> QED BY <1>1, <1>2, <2>1, NeverComes
<1>4. j - i \in 0 .. Len(c) - i /\ i + (j - i) = j
    BY <1>0
<1> QED BY <1>3, <1>4 DEF T

(* Each step upwards reaches an older type, until object. *)
LEMMA ClimbsRise ==
    ASSUME NEW ts, Len(ts) \in Nat, Rooted(ts), NEW t \in 1 .. Len(ts), NEW m \in Nat,
           NEW g, Climbs(g, ts, t, m)
    PROVE  \A k \in 0 .. m : Climb(g[k], ts, t) /\ (Last(g[k]) = ObjectType \/ Len(g[k]) = k + 1)
<1> DEFINE S == 1 .. Len(ts)
           Good(c, k) == Climb(c, ts, t) /\ (Last(c) = ObjectType \/ Len(c) = k + 1)
           T == {k \in 0 .. m : ~Good(g[k], k)}
<1>0. \A k \in 0 .. m : g[k] = NextUp(g, ts, t, k)
    BY DEF Climbs
<1>1. 0 \notin T
    <2>1. g[0] = <<t>>
        BY <1>0 DEF NextUp
    <2>2. Climb(<<t>>, ts, t) /\ Len(<<t>>) = 0 + 1
        BY DEF Climb
    <2> QED BY <2>1, <2>2
<1>2. ASSUME NEW k \in 1 .. m, k - 1 \notin T PROVE k \notin T
    <2>1. k \in 0 .. m /\ k - 1 \in 0 .. m /\ k # 0
        OBVIOUS
    <2> DEFINE c == g[k - 1]
               e == ts[Last(c)].base
    <2>2. Good(c, k - 1)
        BY <1>2, <2>1
    <2>3. g[k] = IF Last(c) = ObjectType THEN c ELSE Append(c, e)
        BY <2>1, <1>0 DEF NextUp
    <2> HIDE DEF c
    <2>4. CASE Last(c) = ObjectType
        BY <2>4, <2>3, <2>2
    <2>5. CASE Last(c) # ObjectType
        <3>1. c \in Seq(S) /\ Len(c) = k /\ Len(c) >= 1 /\ Len(c) \in Nat /\ c[1] = t
            BY <2>5, <2>2 DEF Climb
        <3>2. Last(c) = c[Len(c)] /\ Last(c) \in S
            BY <3>1 DEF Last
        <3>3. e \in S
            BY <3>2 DEF Rooted
        <3> HIDE DEF e
        <3> DEFINE a == Append(c, e)
        <3>4. a \in Seq(S) /\ Len(a) = Len(c) + 1 /\ a[Len(c) + 1] = e
              /\ \A i \in 1 .. Len(c) : a[i] = c[i]
            BY <3>1, <3>3, AppendProperties
        <3> HIDE DEF a
        <3>5. ASSUME NEW i \in 1 .. Len(a) - 1
              PROVE  a[i] # ObjectType /\ a[i + 1] = ts[a[i]].base
            <4>1. CASE i = Len(c)
                BY <4>1, <3>1, <3>2, <3>4, <2>5 DEF e
            <4>2. CASE i # Len(c)
                <5>1. i \in 1 .. Len(c) - 1 /\ i \in 1 .. Len(c) /\ i + 1 \in 1 .. Len(c)
                    BY <4>2, <3>4, <3>1
                <5>2. c[i] # ObjectType /\ c[i + 1] = ts[c[i]].base
                    BY <5>1, <2>2 DEF Climb
                <5> QED BY <5>1, <5>2, <3>4
            <4> QED BY <4>1, <4>2
        <3>6. Climb(a, ts, t)
            BY <3>1, <3>4, <3>5 DEF Climb
        <3>7. Good(a, k)
            BY <3>6, <3>4, <3>1
        <3> QED BY <3>7, <2>3, <2>5 DEF a
    <2> QED BY <2>4, <2>5
<1> HIDE DEF T
<1>3. T = {}
    <2>1. T \in SUBSET (0 .. m)
        BY DEF T
    <2> QED BY <1>1, <1>2, <2>1, NeverComes
<1> QED BY <1>3 DEF T

(* A climb up to object *)
Whole(c, ts, t) == Climb(c, ts, t) /\ c[Len(c)] = ObjectType

(* The chain of a type is the whole climb from it. *)
LEMMA ChainIs ==
    ASSUME TypesOK, NEW t \in 1 .. Len(types)
    PROVE  Whole(Chain(t), types, t)
<1> DEFINE m == Len(types)
           up == CHOOSE g : g = [k \in 0 .. m |->
                     IF k = 0 THEN <<t>>
                     ELSE IF Last(g[k - 1]) = ObjectType THEN g[k - 1]
                     ELSE Append(g[k - 1], types[Last(g[k - 1])].base)]
<1>1. m \in Nat /\ m >= 1
    BY DEF TypesOK
<1>2. PICK g : Climbs(g, types, t, m)
    BY <1>1, ClimbsExist
<1>3. g = [k \in 0 .. m |->
              IF k = 0 THEN <<t>>
              ELSE IF Last(g[k - 1]) = ObjectType THEN g[k - 1]
              ELSE Append(g[k - 1], types[Last(g[k - 1])].base)]
    BY <1>2 DEF Climbs, NextUp
<1>4. up = [k \in 0 .. m |->
              IF k = 0 THEN <<t>>
              ELSE IF Last(up[k - 1]) = ObjectType THEN up[k - 1]
              ELSE Append(up[k - 1], types[Last(up[k - 1])].base)]
    BY <1>3
<1>5. Chain(t) = up[m]
    BY DEF Chain
<1> HIDE DEF up
<1>6. Climbs(up, types, t, m)
    BY <1>4 DEF Climbs, NextUp
<1> DEFINE c == up[m]
<1>7. Climb(c, types, t) /\ (Last(c) = ObjectType \/ Len(c) = m + 1)
    <2>1. Rooted(types) /\ m \in 0 .. m
        BY <1>1 DEF TypesOK
    <2> HIDE DEF m
    <2> QED BY <1>1, <1>6, <2>1, ClimbsRise DEF m
<1> HIDE DEF c
<1>8. Len(c) \in Nat /\ Len(c) >= 1 /\ c[1] = t /\ c[Len(c)] \in 1 .. m
    BY <1>7 DEF Climb
<1>9. Len(c) # m + 1
    <2> SUFFICES ASSUME Len(c) = m + 1 PROVE FALSE
        OBVIOUS
    <2>1. 1 \in 1 .. Len(c) /\ Len(c) \in 1 .. Len(c)
        BY <1>8
    <2>2. c[Len(c)] <= c[1] - (Len(c) - 1)
        BY <1>1, <1>7, <2>1, ClimbFalls DEF TypesOK
    <2> QED BY <2>2, <1>8, <1>1
<1> QED BY <1>5, <1>7, <1>9 DEF Whole, Last, c

(* The climb from a type on the way is the rest of the way. *)
LEMMA RestOfChain ==
    ASSUME NEW ts, Len(ts) \in Nat, NEW t, NEW c, Whole(c, ts, t),
           NEW i \in 1 .. Len(c), NEW d, Whole(d, ts, c[i])
    PROVE  \A j \in i .. Len(c) : j - i + 1 \in 1 .. Len(d) /\ d[j - i + 1] = c[j]
<1>0. Len(c) \in Nat /\ i \in Nat /\ Len(d) \in Nat /\ Len(d) >= 1
    BY DEF Whole, Climb
<1> DEFINE T == {k \in 0 .. Len(c) - i : ~(k + 1 \in 1 .. Len(d) /\ d[k + 1] = c[i + k])}
<1>1. 0 \notin T
    BY <1>0 DEF Whole, Climb
<1>2. ASSUME NEW k \in 1 .. Len(c) - i, k - 1 \notin T PROVE k \notin T
    <2>1. k - 1 \in 0 .. Len(c) - i /\ (k - 1) + 1 = k
        BY <1>0
    <2> DEFINE a == i + (k - 1)
    <2>2. k \in 1 .. Len(d) /\ d[k] = c[a]
        BY <1>2, <2>1
    <2>3. a \in 1 .. Len(c) - 1 /\ a + 1 = i + k
        BY <1>0
    <2>4. c[a] # ObjectType /\ c[a + 1] = ts[c[a]].base
        BY <2>3 DEF Whole, Climb
    <2>5. k # Len(d)
        BY <2>2, <2>4 DEF Whole
    <2>6. k \in 1 .. Len(d) - 1
        BY <2>2, <2>5, <1>0
    <2>7. d[k + 1] = ts[d[k]].base
        BY <2>6 DEF Whole, Climb
    <2>8. d[k + 1] = c[i + k] /\ k + 1 \in 1 .. Len(d)
        BY <2>2, <2>3, <2>4, <2>6, <2>7, <1>0
    <2> QED BY <2>8
<1> HIDE DEF T
<1>3. T = {}
    <2>1. T \in SUBSET (0 .. Len(c) - i) /\ Len(c) - i \in Nat
        BY <1>0 DEF T
    <2> QED BY <1>1, <1>2, <2>1, NeverComes
<1>4. ASSUME NEW j \in i .. Len(c)
      PROVE  j - i + 1 \in 1 .. Len(d) /\ d[j - i + 1] = c[j]
    <2>1. j - i \in 0 .. Len(c) - i /\ i + (j - i) = j /\ j - i + 1 = (j - i) + 1
        BY <1>0
    <2>2. j - i \notin T
        BY <1>3
    <2> QED BY <2>1, <2>2 DEF T
<1> QED BY <1>4

(* The code takes the first type on the way that has the attribute; it is  *)
(* the one that descends from all the others that have it.                 *)
LEMMA AlongIsInherited ==
    ASSUME TypesOK, NEW t \in 1 .. Len(types), NEW n
    PROVE  AlongTypes(t, n) = Inherited(t, n)
<1> DEFINE c == Chain(t)
           hits == {i \in DOMAIN c : n \in DOMAIN types[c[i]].attrs}
           having == {u \in Range(c) : n \in DOMAIN types[u].attrs}
           Nearest(u) == u \in having /\ having \subseteq Range(Chain(u))
<1>0. Len(types) \in Nat /\ Rooted(types)
    BY DEF TypesOK
<1>1. Whole(c, types, t)
    BY ChainIs
<1>2. AlongTypes(t, n) = IF hits = {} THEN None ELSE types[c[Min(hits)]].attrs[n]
    BY DEF AlongTypes
<1>3. Inherited(t, n) = IF having = {} THEN None
          ELSE types[CHOOSE u \in having : having \subseteq Range(Chain(u))].attrs[n]
    BY DEF Inherited
<1> HIDE DEF c
<1>4. Climb(c, types, t) /\ c \in Seq(1 .. Len(types)) /\ DOMAIN c = 1 .. Len(c) /\ Len(c) \in Nat
    BY <1>1 DEF Whole, Climb
<1>5. having = {c[i] : i \in hits}
    BY DEF Range
<1>6. CASE hits = {}
    BY <1>6, <1>2, <1>3, <1>5
<1>7. CASE hits # {}
    <2> DEFINE i == Min(hits)
    <2>1. hits \in SUBSET Nat
        BY <1>4
    <2>2. i \in hits /\ \A j \in hits : i <= j
        BY <1>7, <2>1, MinIs
    <2> HIDE DEF i
    <2>3. i \in 1 .. Len(c) /\ \A j \in hits : j \in i .. Len(c)
        BY <2>2, <1>4
    <2>4. c[i] \in 1 .. Len(types)
        BY <2>3, <1>4
    <2>5. Whole(Chain(c[i]), types, c[i])
        BY <2>4, ChainIs
    <2>6. Nearest(c[i])
        <3>1. ASSUME NEW j \in hits PROVE c[j] \in Range(Chain(c[i]))
            <4> DEFINE d == Chain(c[i])
            <4>1. j \in i .. Len(c)
                BY <2>3
            <4> HIDE DEF d
            <4>2. Whole(d, types, c[i])
                BY <2>5 DEF d
            <4>3. j - i + 1 \in 1 .. Len(d) /\ d[j - i + 1] = c[j]
                BY <1>0, <1>1, <2>3, <4>1, <4>2, RestOfChain, SMTT(30)
            <4>4. DOMAIN d = 1 .. Len(d)
                BY <4>2 DEF Whole, Climb
            <4>5. c[j] \in Range(d)
                BY <4>3, <4>4 DEF Range
            <4> QED BY <4>5 DEF d
        <3> QED BY <3>1, <2>2, <1>5
    <2>7. ASSUME NEW u, Nearest(u) PROVE u = c[i]
        <3>1. PICK j \in hits : u = c[j]
            BY <2>7, <1>5
        <3>2. j \in i .. Len(c) /\ j \in 1 .. Len(c) /\ u \in 1 .. Len(types)
            BY <3>1, <2>3, <1>4
        <3>3. c[i] \in Range(Chain(u))
            BY <2>7, <2>2, <1>5
        <3> DEFINE d == Chain(u)
        <3>4. Whole(d, types, u)
            BY <3>2, ChainIs
        <3> HIDE DEF d
        <3>5. PICK k \in DOMAIN d : c[i] = d[k]
            BY <3>3 DEF Range, d
        <3>6. k \in 1 .. Len(d) /\ d \in Seq(1 .. Len(types)) /\ d[1] = u /\ 1 \in 1 .. Len(d)
              /\ Len(d) \in Nat /\ Climb(d, types, u)
            BY <3>4, <3>5 DEF Whole, Climb
        <3>7. k \in 1 .. Len(d) /\ d[k] <= d[1] - (k - 1)
            BY <1>0, <3>2, <3>6, ClimbFalls
        <3>8. c[i] <= u
            BY <3>5, <3>6, <3>7, <2>4, <3>2
        <3>9. u <= c[i] - (j - i)
            BY <1>0, <1>4, <2>3, <3>1, <3>2, ClimbFalls
        <3>10. j = i
            BY <3>8, <3>9, <2>4, <3>2, <2>3
        <3> QED BY <3>1, <3>10
    <2>8. (CHOOSE u \in having : having \subseteq Range(Chain(u))) = c[i]
        <3> HIDE DEF having
        <3> QED BY <2>6, <2>7
    <2>9. having # {}
        BY <1>5, <1>7
    <2> QED BY <1>2, <1>3, <1>7, <2>8, <2>9 DEF i
<1> QED BY <1>6, <1>7

(* What the code pushes for f, and what is meant when the class has class  *)
(* and the thing itself own (None if neither)                              *)
Pushed(f, called) ==
    [value |-> IF f.atType /\ ~called /\ f.value[1] = "property" THEN <<"got", f.value[2]>> ELSE f.value,
     self  |-> f.atType /\ called /\ f.value # None]
Wanting(class, own) ==
    IF class[1] = "property" THEN [value |-> <<"got", class[2]>>, self |-> FALSE]
    ELSE IF own # None THEN [value |-> own, self |-> FALSE]
    ELSE [value |-> class, self |-> class[1] = "function"]
Excused(class, own, called) ==
    \/ own # None /\ class[1] = "property"
    \/ called /\ class[1] = "property"
    \/ called /\ own = None /\ class[1] \notin {"function", "property"}
    \/ ~called /\ own = None /\ class[1] = "function"

(* An attribute found before those of the class is pushed alone. *)
LEMMA OwnAlone ==
    ASSUME NEW class, NEW own, own # None, NEW called \in BOOLEAN
    PROVE  Pushed(Found(own, FALSE), called) # Wanting(class, own) => Excused(class, own, called)
<1>1. Pushed(Found(own, FALSE), called) = [value |-> own, self |-> FALSE]
    BY DEF Pushed, Found
<1> QED BY <1>1 DEF Wanting, Excused

(* One of the class is given to a function, and its getter is called. *)
LEMMA OfClassRight ==
    ASSUME NEW class, NEW at \in BOOLEAN, class # None => at, NEW called \in BOOLEAN
    PROVE  Pushed(Found(class, at), called) # Wanting(class, None) => Excused(class, None, called)
<1> SUFFICES ASSUME ~Excused(class, None, called)
             PROVE  Pushed(Found(class, at), called) = Wanting(class, None)
    OBVIOUS
<1>1. Found(class, at).value = class /\ Found(class, at).atType = at
    BY DEF Found
<1>2. None[1] = "none" /\ "none" # "property" /\ "none" # "function"
    BY DEF None
<1>3. CASE called
    <2>1. class[1] = "function"
        BY <1>3 DEF Excused
    <2>2. class # None /\ at
        BY <2>1, <1>2
    <2>3. Pushed(Found(class, at), called) = [value |-> class, self |-> TRUE]
        BY <1>1, <1>3, <2>2 DEF Pushed
    <2>4. Wanting(class, None) = [value |-> class, self |-> TRUE]
        BY <2>1 DEF Wanting
    <2> QED BY <2>3, <2>4
<1>4. CASE ~called
    <2>1. class[1] # "function"
        BY <1>4 DEF Excused
    <2>2. CASE class[1] = "property"
        <3>1. at
            BY <2>2, <1>2
        <3>2. Pushed(Found(class, at), called) = [value |-> <<"got", class[2]>>, self |-> FALSE]
            BY <1>1, <1>4, <2>2, <3>1 DEF Pushed
        <3> QED BY <2>2, <3>2 DEF Wanting
    <2>3. CASE class[1] # "property"
        <3>1. Pushed(Found(class, at), called) = [value |-> class, self |-> FALSE]
            BY <1>1, <1>4, <2>3 DEF Pushed
        <3>2. Wanting(class, None) = [value |-> class, self |-> FALSE]
            BY <2>1, <2>3 DEF Wanting
        <3> QED BY <3>1, <3>2
    <2> QED BY <2>2, <2>3
<1> QED BY <1>3, <1>4

(* What the three lookup functions find is what an attribute means. *)
LEMMA LookupRight ==
    ASSUME ObjectsInv
    PROVE  LookupAsMeant
<1> SUFFICES ASSUME NEW v \in Things, NEW n \in Names, NEW called \in BOOLEAN,
                    Fetched(v, n, called) # Meant(v, n)
             PROVE  Reasons(v, n, called) # {}
    BY DEF LookupAsMeant
<1> DEFINE class == OfItsClass(v, n)
           own == Own(v, n)
<1>1. Fetched(v, n, called) = Pushed(GetAttr(v, n), called)
    BY DEF Fetched, Pushed
<1>2. Meant(v, n) = Wanting(class, own)
    BY DEF Meant, Wanting
<1>3. Excused(class, own, called) => Reasons(v, n, called) # {}
    <2>1. own # None /\ class[1] = "property" => "shadowed" \in Reasons(v, n, called)
        BY DEF Reasons
    <2>2. called /\ class[1] = "property" => "calling" \in Reasons(v, n, called)
        BY DEF Reasons
    <2>3. called /\ own = None /\ class[1] \notin {"function", "property"} => "given" \in Reasons(v, n, called)
        BY DEF Reasons
    <2>4. ~called /\ own = None /\ class[1] = "function" => "loose" \in Reasons(v, n, called)
        BY DEF Reasons
    <2> HIDE DEF class, own
    <2> QED BY <2>1, <2>2, <2>3, <2>4 DEF Excused
<1>4. ASSUME NEW t \in 1 .. Len(types), v = <<"class", t>>
      PROVE  Pushed(GetAttr(v, n), called) # Wanting(class, own) => Excused(class, own, called)
    <2> DEFINE meta == types[TypeType].attrs
    <2>1. own = Inherited(t, n) /\ class = IF n \in DOMAIN meta THEN meta[n] ELSE None
        BY <1>4 DEF Own, OfItsClass
    <2>2. AlongTypes(t, n) = own
        BY <2>1, AlongIsInherited DEF ObjectsInv
    <2>3. GetAttr(v, n) = IF own # None THEN Found(own, FALSE) ELSE Found(class, TRUE)
        BY <1>4, <2>1, <2>2 DEF GetAttr, OfType
    <2> HIDE DEF class, own
    <2>4. CASE own # None
        BY <2>3, <2>4, OwnAlone
    <2>5. CASE own = None
        BY <2>3, <2>5, OfClassRight
    <2> QED BY <2>4, <2>5
<1>5. ASSUME NEW o \in 1 .. Len(objects), v = <<"object", o>>
      PROVE  Pushed(GetAttr(v, n), called) # Wanting(class, own) => Excused(class, own, called)
    <2> DEFINE has == n \in DOMAIN objects[o].attrs
    <2>1. /\ class = Inherited(objects[o].type, n)
          /\ own = IF has THEN objects[o].attrs[n] ELSE None
        BY <1>5 DEF Own, OfItsClass
    <2>2. objects[o].type \in 1 .. Len(types) /\ (has => objects[o].attrs[n] # None)
        BY DEF ObjectsInv, InstancesOK, OwnAttrs
    <2>3. AlongTypes(objects[o].type, n) = class
        BY <2>1, <2>2, AlongIsInherited DEF ObjectsInv
    <2>4. GetAttr(v, n) = IF has THEN Found(own, FALSE) ELSE Found(class, class # None)
        BY <1>5, <2>1, <2>3 DEF GetAttr, OfObject
    <2> HIDE DEF class, own, has
    <2>5. CASE has
        <3>1. own # None
            BY <2>1, <2>2, <2>5 DEF has
        <3> QED BY <2>4, <2>5, <3>1, OwnAlone
    <2>6. CASE ~has
        <3>1. own = None
            BY <2>1, <2>6
        <3> QED BY <2>4, <2>6, <3>1, OfClassRight
    <2> QED BY <2>5, <2>6
<1>6. (\E t \in 1 .. Len(types) : v = <<"class", t>>) \/ (\E o \in 1 .. Len(objects) : v = <<"object", o>>)
    <2>1. DOMAIN types = 1 .. Len(types) /\ DOMAIN objects = 1 .. Len(objects)
        BY DEF ObjectsInv, TypesOK, InstancesOK
    <2> QED BY <2>1 DEF Things, Classes
<1> HIDE DEF class, own
<1> QED BY <1>1, <1>2, <1>3, <1>4, <1>5, <1>6

-----------------------------------------------------------------------------
(* Every step keeps the bases and the types *)

(* An element appended to a sequence, and one replaced *)
LEMMA Appended ==
    ASSUME NEW s, s \in Seq(Range(s)), NEW e
    PROVE  /\ Len(Append(s, e)) = Len(s) + 1 /\ Append(s, e)[Len(s) + 1] = e
           /\ \A i \in 1 .. Len(s) : Append(s, e)[i] = s[i]
           /\ Append(s, e) \in Seq(Range(Append(s, e)))
<1> DEFINE S == Range(s) \cup {e}
           a == Append(s, e)
<1>1. s \in Seq(S) /\ e \in S
    OBVIOUS
<1>2. /\ a \in Seq(S) /\ Len(a) = Len(s) + 1 /\ a[Len(s) + 1] = e
      /\ \A i \in 1 .. Len(s) : a[i] = s[i]
    BY <1>1, AppendProperties
<1> HIDE DEF a, S
<1>3. Len(a) \in Nat /\ a \in [1 .. Len(a) -> Range(a)]
    BY <1>2 DEF Range
<1>4. a \in Seq(Range(a))
    BY <1>3
<1> QED BY <1>2, <1>4 DEF a

(* A sequence with one element replaced. *)
LEMMA Replaced ==
    ASSUME NEW s, s \in Seq(Range(s)), NEW k, NEW e
    PROVE  LET r == [s EXCEPT ![k] = e]
           IN  /\ Len(r) = Len(s) /\ r \in Seq(Range(r))
               /\ \A i \in 1 .. Len(s) : r[i] = IF i = k THEN e ELSE s[i]
<1> DEFINE r == [s EXCEPT ![k] = e]
<1>1. DOMAIN r = 1 .. Len(s) /\ Len(s) \in Nat /\ DOMAIN s = 1 .. Len(s)
    OBVIOUS
<1>2. \A i \in 1 .. Len(s) : r[i] = IF i = k THEN e ELSE s[i]
    BY <1>1
<1>3. r = [i \in 1 .. Len(s) |-> r[i]]
    BY <1>1
<1> HIDE DEF r
<1>4. r \in [1 .. Len(s) -> Range(r)]
    BY <1>1, <1>3 DEF Range
<1>5. r \in Seq(Range(r)) /\ Len(r) = Len(s)
    BY <1>1, <1>4
<1> QED BY <1>2, <1>5 DEF r

(* The builtin types begin with bases older than themselves. *)
LEMMA InitObjects ==
    ASSUME ObjectsInit
    PROVE  ObjectsInv
<1>1. Builtin \in Seq(Range(Builtin)) /\ Len(Builtin) >= 2
    BY ObjectsAssumption
<1> DEFINE first(t) == [base |-> ObjectType, attrs |-> Builtin[t]]
<1>2. types = [t \in 1 .. Len(Builtin) |-> first(t)] /\ objects = <<>>
    BY <1>1 DEF ObjectsInit
<1>3. DOMAIN types = 1 .. Len(Builtin) /\ Len(types) = Len(Builtin)
    BY <1>1, <1>2
<1>4. \A t \in 1 .. Len(types) : types[t] = first(t)
    BY <1>2, <1>3
<1>5. types \in [1 .. Len(types) -> Range(types)]
    BY <1>2, <1>3 DEF Range
<1>6. types \in Seq(Range(types)) /\ Len(types) >= 2
    BY <1>1, <1>3, <1>5
<1>7. ASSUME NEW t \in 1 .. Len(types)
      PROVE  /\ types[t] = [base |-> types[t].base, attrs |-> types[t].attrs]
             /\ types[t].base = 1
    <2> DEFINE r == [base |-> ObjectType, attrs |-> Builtin[t]]
    <2>1. types[t] = r
        BY <1>4
    <2>2. r.base = 1 /\ r = [base |-> r.base, attrs |-> r.attrs]
        BY DEF ObjectType
    <2> HIDE DEF r
    <2> QED BY <2>1, <2>2
<1>9. Rooted(types)
    BY <1>1, <1>3, <1>7 DEF Rooted, ObjectType
<1>10. TypesOK
    BY <1>6, <1>7, <1>9 DEF TypesOK
<1>8. InstancesOK
    BY <1>2 DEF InstancesOK
<1> QED BY <1>8, <1>10 DEF ObjectsInv

(* A class is younger than its base. *)
LEMMA NewClassKeeps ==
    ASSUME ObjectsInv, NewClass
    PROVE  ObjectsInv'
<1>1. PICK base \in DOMAIN types \ {TypeType} :
          types' = Append(types, [base |-> base, attrs |-> Nothing])
    BY DEF NewClass
<1> DEFINE e == [base |-> base, attrs |-> Nothing]
<1>2. types \in Seq(Range(types)) /\ Len(types) >= 2 /\ Len(types) \in Nat /\ base \in 1 .. Len(types)
    BY DEF ObjectsInv, TypesOK
<1>3. /\ Len(types') = Len(types) + 1 /\ types'[Len(types) + 1] = e
      /\ \A i \in 1 .. Len(types) : types'[i] = types[i]
      /\ types' \in Seq(Range(types'))
    BY <1>1, <1>2, Appended
<1>4. e = [base |-> e.base, attrs |-> e.attrs] /\ e.base = base
    OBVIOUS
<1> HIDE DEF e
<1>5. ASSUME NEW t \in 1 .. Len(types')
      PROVE  /\ types'[t] = [base |-> types'[t].base, attrs |-> types'[t].attrs]
             /\ types'[t].base \in 1 .. Len(types')
             /\ t # ObjectType => types'[t].base < t
    <2>1. CASE t = Len(types) + 1
        <3>1. types'[t] = e
            BY <2>1, <1>3
        <3>2. base \in 1 .. Len(types') /\ base < t
            BY <2>1, <1>2, <1>3
        <3> QED BY <3>1, <3>2, <1>4
    <2>2. CASE t # Len(types) + 1
        <3>1. t \in 1 .. Len(types) /\ types'[t] = types[t]
            BY <2>2, <1>2, <1>3
        <3>2. /\ types[t] = [base |-> types[t].base, attrs |-> types[t].attrs]
              /\ types[t].base \in 1 .. Len(types)
              /\ t # ObjectType => types[t].base < t
            BY <3>1 DEF ObjectsInv, TypesOK, Rooted
        <3>3. types[t].base \in 1 .. Len(types')
            BY <3>2, <1>2, <1>3
        <3> QED BY <3>1, <3>2, <3>3
    <2> QED BY <2>1, <2>2
<1>6. TypesOK'
    BY <1>2, <1>3, <1>5 DEF TypesOK, Rooted
<1>7. InstancesOK'
    <2>1. objects' = objects
        BY DEF NewClass
    <2>2. \A k \in 1 .. Len(types) : k \in 1 .. Len(types')
        BY <1>2, <1>3
    <2> QED BY <2>1, <2>2 DEF ObjectsInv, InstancesOK, OwnAttrs
<1> QED BY <1>6, <1>7 DEF ObjectsInv

(* An instance is of a type that exists. *)
LEMMA NewKeeps ==
    ASSUME ObjectsInv, New
    PROVE  ObjectsInv'
<1>1. PICK t \in Classes : objects' = Append(objects, [type |-> t, attrs |-> Nothing])
    BY DEF New
<1> DEFINE e == [type |-> t, attrs |-> Nothing]
<1>2. types' = types /\ DOMAIN types = 1 .. Len(types) /\ t \in 1 .. Len(types)
    BY DEF New, ObjectsInv, TypesOK, Classes
<1>3. objects \in Seq(Range(objects)) /\ Len(objects) \in Nat
    BY DEF ObjectsInv, InstancesOK
<1>4. /\ Len(objects') = Len(objects) + 1 /\ objects'[Len(objects) + 1] = e
      /\ \A i \in 1 .. Len(objects) : objects'[i] = objects[i]
      /\ objects' \in Seq(Range(objects'))
    BY <1>1, <1>3, Appended
<1>5. e = [type |-> e.type, attrs |-> e.attrs] /\ e.type = t /\ DOMAIN e.attrs = {}
    BY DEF Nothing
<1> HIDE DEF e
<1>6. ASSUME NEW o \in 1 .. Len(objects')
      PROVE  /\ objects'[o] = [type |-> objects'[o].type, attrs |-> objects'[o].attrs]
             /\ objects'[o].type \in 1 .. Len(types)
             /\ \A n \in DOMAIN objects'[o].attrs : objects'[o].attrs[n] # None
    <2>1. CASE o = Len(objects) + 1
        BY <2>1, <1>2, <1>4, <1>5
    <2>2. CASE o # Len(objects) + 1
        <3>1. o \in 1 .. Len(objects)
            BY <2>2, <1>3, <1>4
        <3> QED BY <3>1, <1>4 DEF ObjectsInv, InstancesOK, OwnAttrs
    <2> QED BY <2>1, <2>2
<1>7. InstancesOK'
    BY <1>2, <1>4, <1>6 DEF InstancesOK, OwnAttrs
<1>8. TypesOK'
    BY <1>2 DEF ObjectsInv, TypesOK, Rooted
<1> QED BY <1>7, <1>8 DEF ObjectsInv

(* A store or a deletion changes one dict of attributes. *)
LEMMA StoreKeeps ==
    ASSUME ObjectsInv, NEW v \in Things, NEW attrs,
           v[1] # "class" => \A n \in DOMAIN attrs : attrs[n] # None,
           Store(v, attrs)
    PROVE  ObjectsInv'
<1>0. /\ DOMAIN types = 1 .. Len(types) /\ DOMAIN objects = 1 .. Len(objects)
      /\ types \in Seq(Range(types)) /\ objects \in Seq(Range(objects))
    BY DEF ObjectsInv, TypesOK, InstancesOK
<1>1. ASSUME NEW t \in 1 .. Len(types), v = <<"class", t>> PROVE ObjectsInv'
    <2> DEFINE e == [types[t] EXCEPT !.attrs = attrs]
    <2>1. types' = [types EXCEPT ![t] = e] /\ objects' = objects
        BY <1>1 DEF Store
    <2>2. types[t] = [base |-> types[t].base, attrs |-> types[t].attrs]
        BY DEF ObjectsInv, TypesOK
    <2>3. e = [base |-> types[t].base, attrs |-> attrs]
        BY <2>2
    <2>4. e = [base |-> e.base, attrs |-> e.attrs] /\ e.base = types[t].base
        BY <2>3
    <2> HIDE DEF e
    <2>5. /\ Len(types') = Len(types) /\ types' \in Seq(Range(types'))
          /\ \A i \in 1 .. Len(types) : types'[i] = IF i = t THEN e ELSE types[i]
        BY <1>0, <2>1, Replaced
    <2>6. TypesOK'
        BY <2>4, <2>5 DEF ObjectsInv, TypesOK, Rooted
    <2>7. InstancesOK'
        BY <2>1, <2>5 DEF ObjectsInv, InstancesOK, OwnAttrs
    <2> QED BY <2>6, <2>7 DEF ObjectsInv
<1>2. ASSUME NEW o \in 1 .. Len(objects), v = <<"object", o>> PROVE ObjectsInv'
    <2> DEFINE e == [objects[o] EXCEPT !.attrs = attrs]
    <2>1. objects' = [objects EXCEPT ![o] = e] /\ types' = types
        BY <1>2 DEF Store
    <2>2. objects[o] = [type |-> objects[o].type, attrs |-> objects[o].attrs]
        BY DEF ObjectsInv, InstancesOK
    <2>3. e = [type |-> objects[o].type, attrs |-> attrs]
        BY <2>2
    <2>4. e = [type |-> e.type, attrs |-> e.attrs] /\ e.type = objects[o].type /\ e.attrs = attrs
        BY <2>3
    <2> HIDE DEF e
    <2>5. /\ Len(objects') = Len(objects) /\ objects' \in Seq(Range(objects'))
          /\ \A i \in 1 .. Len(objects) : objects'[i] = IF i = o THEN e ELSE objects[i]
        BY <1>0, <2>1, Replaced
    <2>6. \A n \in DOMAIN attrs : attrs[n] # None
        BY <1>2
    <2>7. ASSUME NEW i \in 1 .. Len(objects')
          PROVE  /\ objects'[i] = [type |-> objects'[i].type, attrs |-> objects'[i].attrs]
                 /\ objects'[i].type \in 1 .. Len(types)
                 /\ \A n \in DOMAIN objects'[i].attrs : objects'[i].attrs[n] # None
        <3>1. CASE i = o
            BY <3>1, <2>4, <2>5, <2>6 DEF ObjectsInv, InstancesOK
        <3>2. CASE i # o
            BY <3>2, <2>5 DEF ObjectsInv, InstancesOK, OwnAttrs
        <3> QED BY <3>1, <3>2
    <2>8. InstancesOK'
        BY <2>1, <2>5, <2>7 DEF InstancesOK, OwnAttrs
    <2>9. TypesOK'
        BY <2>1 DEF ObjectsInv, TypesOK, Rooted
    <2> QED BY <2>8, <2>9 DEF ObjectsInv
<1> QED BY <1>0, <1>1, <1>2 DEF Things, Classes

(* Every step keeps the invariant. *)
LEMMA ObjectsStep ==
    ASSUME ObjectsInv, [ObjectsNext]_objvars
    PROVE  ObjectsInv'
<1>1. CASE UNCHANGED objvars
    BY <1>1 DEF objvars, ObjectsInv, TypesOK, Rooted, InstancesOK, OwnAttrs
<1>2. CASE NewClass \/ New
    BY <1>2, NewClassKeeps, NewKeeps
(* What an instance has, and what is not among the classes *)
<1>3. ASSUME NEW v \in Things, v[1] # "class"
      PROVE  \A m \in DOMAIN AttrsOf(v) : AttrsOf(v)[m] # None
    <2>1. PICK o \in DOMAIN objects : v = <<"object", o>>
        BY <1>3 DEF Things
    <2>2. o \in 1 .. Len(objects)
        BY DEF ObjectsInv, InstancesOK
    <2> QED BY <2>1, <2>2 DEF ObjectsInv, InstancesOK, OwnAttrs, AttrsOf
<1>4. CASE SetAttr
    <2>1. PICK v \in Things, n \in Names, new \in Values : Store(v, With(AttrsOf(v), n, new))
        BY <1>4 DEF SetAttr
    <2> DEFINE attrs == With(AttrsOf(v), n, new)
    <2>2. ASSUME v[1] # "class", NEW m \in DOMAIN attrs PROVE attrs[m] # None
        <3>1. new # None
            BY ObjectsAssumption
        <3> QED BY <3>1, <2>2, <1>3 DEF With
    <2> HIDE DEF attrs
    <2> QED BY <2>1, <2>2, StoreKeeps DEF attrs
<1>5. CASE DelAttr
    <2>1. PICK v \in Things, n \in Names : Store(v, Without(AttrsOf(v), n))
        BY <1>5 DEF DelAttr
    <2> DEFINE attrs == Without(AttrsOf(v), n)
    <2>2. ASSUME v[1] # "class", NEW m \in DOMAIN attrs PROVE attrs[m] # None
        BY <2>2, <1>3 DEF Without
    <2> HIDE DEF attrs
    <2> QED BY <2>1, <2>2, StoreKeeps DEF attrs
<1> QED BY <1>1, <1>2, <1>4, <1>5 DEF ObjectsNext

(* An attribute is the one of the nearest ancestor that has it, a function *)
(* of the class gets the object and a property is called, but for the four *)
(* cases of Reasons, whatever classes there are and however they derive    *)
(* from each other (custom.c, type.c, BC_GET_ATTR).                        *)
THEOREM AttributesRight == ObjectsSpec => []LookupAsMeant
<1>1. ObjectsSpec => []ObjectsInv
    BY InitObjects, ObjectsStep, PTL DEF ObjectsSpec
<1> QED BY <1>1, LookupRight, PTL

-----------------------------------------------------------------------------
(* Names.  What is said here of bodies b, frames fr, scopes sc and         *)
(* functions fu is said of the variables of these names below.             *)

(* A function or a scope that a value names has been made. *)
Sound(v, ns, nf) ==
    /\ v[1] = "function" => v[2] \in 1 .. nf
    /\ v[1] \in {"module", "class"} => v[2] \in 1 .. ns

OwnIn(b, u) == Params[u] \cup UNION {Named(b[u][i]) : i \in DOMAIN b[u]}
IsMod(sc, s) == Kind[sc[s].unit] = "module"

(* A body is one that its unit may have. *)
BodiesOK(b) == \A u \in DOMAIN b : u \in Units /\ b[u] \in Bodies[u]

(* Only the names of its own unit are stored in a scope, unless that is a  *)
(* module, and a module is around it.                                      *)
ScopeOK(s, b, sc, nf) ==
    /\ sc[s] = [unit |-> sc[s].unit, locals |-> sc[s].locals, env |-> sc[s].env]
    /\ sc[s].unit \in DOMAIN b
    /\ sc[s].env \in Seq(1 .. Len(sc))
    /\ IsMod(sc, s) \/ \E i \in DOMAIN sc[s].env : IsMod(sc, sc[s].env[i])
    /\ IsMod(sc, s) \/ DOMAIN sc[s].locals \subseteq OwnIn(b, sc[s].unit)
    /\ \A n \in DOMAIN sc[s].locals : Sound(sc[s].locals[n], Len(sc), nf)
ScopesOK(b, sc, nf) ==
    /\ sc \in Seq(Range(sc)) /\ Len(sc) >= 1 /\ IsMod(sc, 1)
    /\ \A s \in 1 .. Len(sc) : ScopeOK(s, b, sc, nf)

(* The frames that ran when a function was made, and what they had *)
RunningOK(run, ns) ==
    /\ run \in Seq(Range(run)) /\ Len(run) >= 1 /\ run[1].scope = 1
    /\ \A i \in 1 .. Len(run) : run[i].scope \in 1 .. ns
    /\ \A i, j \in 1 .. Len(run) : i < j => run[i].scope < run[j].scope
(* The closure has the free names that one of them had,                    *)
Closes(f, b) ==
    \A n : n \in DOMAIN f.closure <=>
        n \in Upvalues(f.unit, b[f.unit]) /\ \E i \in 1 .. Len(f.running) : n \in f.running[i].bound
(* and where nothing has changed since, these frames have them still, the  *)
(* last one with the value in the closure.                                 *)
Agrees(f, sc) ==
    \A i \in 1 .. Len(f.running) : \A n : <<f.running[i].scope, n>> \notin f.changed =>
        /\ n \in f.running[i].bound <=> n \in DOMAIN sc[f.running[i].scope].locals
        /\ n \in DOMAIN f.closure /\ n \in f.running[i].bound
           /\ (\A j \in 1 .. Len(f.running) : j > i => n \notin f.running[j].bound)
              => f.closure[n] = sc[f.running[i].scope].locals[n]
FuncOK(f, b, sc, nf) ==
    /\ f = [unit |-> f.unit, closure |-> f.closure, env |-> f.env, running |-> f.running, changed |-> f.changed]
    /\ f.unit \in DOMAIN b
    /\ f.env \in Seq(1 .. Len(sc)) /\ \E i \in DOMAIN f.env : IsMod(sc, f.env[i])
    /\ \A n \in DOMAIN f.closure : Sound(f.closure[n], Len(sc), nf)
    /\ RunningOK(f.running, Len(sc)) /\ Closes(f, b) /\ Agrees(f, sc)
FuncsOK(b, sc, fu) ==
    /\ fu \in Seq(Range(fu))
    /\ \A k \in 1 .. Len(fu) : FuncOK(fu[k], b, sc, Len(fu))

(* A frame runs a function in its own surroundings, or a module. *)
Frame == [scope : Nat, fn : Nat, pc : Nat \ {0}]
FrameOK(r, sc, fu) ==
    /\ r.scope \in 1 .. Len(sc) /\ r.fn \in 0 .. Len(fu)
    /\ r.fn = 0 => sc[r.scope].env = <<>>
    /\ r.fn # 0 => sc[r.scope].unit = fu[r.fn].unit /\ sc[r.scope].env = fu[r.fn].env
(* A frame below the top is at the statement that called. *)
Calling == {"call", "get", "member", "class", "import"}
Waits(r, b, sc) ==
    LET code == b[sc[r.scope].unit] IN r.pc \in 1 .. Len(code) /\ code[r.pc][1] \in Calling
FramesOK(b, fr, sc, fu) ==
    /\ fr \in Seq(Frame) /\ Len(fr) >= 1 /\ fr[1].scope = 1 /\ fr[1].fn = 0
    /\ \A i \in 1 .. Len(fr) : FrameOK(fr[i], sc, fu)
    /\ \A i, j \in 1 .. Len(fr) : i < j => fr[i].scope < fr[j].scope
    /\ \A i \in 1 .. Len(fr) - 1 : Waits(fr[i], b, sc)

InvOf(b, fr, sc, fu) ==
    BodiesOK(b) /\ ScopesOK(b, sc, Len(fu)) /\ FuncsOK(b, sc, fu) /\ FramesOK(b, fr, sc, fu)
NamesInv == InvOf(body, frames, scopes, funcs)

-----------------------------------------------------------------------------
(* A load *)

(* Facts of the frame on top *)
LEMMA TopIs ==
    ASSUME NamesInv
    PROVE  /\ Top \in Frame /\ Top = frames[Len(frames)] /\ Len(frames) \in Nat \ {0}
           /\ FrameOK(Top, scopes, funcs)
           /\ Top.scope \in 1 .. Len(scopes) /\ Here = scopes[Top.scope]
           /\ ScopeOK(Top.scope, body, scopes, Len(funcs))
           /\ Here.unit \in DOMAIN body /\ Here.unit \in Units
           /\ Code \in Bodies[Here.unit] /\ Code \in Seq(Range(Code))
           /\ (Len(frames) = 1 <=> Top.scope = 1) /\ Len(scopes) \in Nat
<1>1. frames \in Seq(Frame) /\ Len(frames) \in Nat \ {0}
    BY DEF NamesInv, InvOf, FramesOK
<1>2. Top = frames[Len(frames)] /\ Len(frames) \in 1 .. Len(frames)
    BY <1>1 DEF Top, Last
<1>3. FrameOK(Top, scopes, funcs) /\ Top \in Frame
    BY <1>1, <1>2 DEF NamesInv, InvOf, FramesOK
<1>4. Top.scope \in 1 .. Len(scopes) /\ Here = scopes[Top.scope]
    BY <1>3 DEF FrameOK, Here
<1>5. ScopeOK(Top.scope, body, scopes, Len(funcs))
    BY <1>4 DEF NamesInv, InvOf, ScopesOK
<1>6. Here.unit \in DOMAIN body
    BY <1>4, <1>5 DEF ScopeOK
<1>7. Here.unit \in Units /\ Code \in Bodies[Here.unit]
    BY <1>6 DEF NamesInv, InvOf, BodiesOK, Code
<1>8. Code \in Seq(Range(Code))
    BY <1>7, NamesAssumption
<1>9. Len(frames) = 1 <=> Top.scope = 1
    <2>1. frames[1].scope = 1 /\ 1 \in 1 .. Len(frames)
        BY <1>1 DEF NamesInv, InvOf, FramesOK
    <2>2. Len(frames) # 1 => 1 < Len(frames)
        <3> DEFINE m == Len(frames)
        <3>1. m \in Nat \ {0}
            BY <1>1
        <3> HIDE DEF m
        <3>2. m # 1 => 1 < m
            BY <3>1
        <3> QED BY <3>2 DEF m
    <2>3. Len(frames) # 1 => frames[1].scope < frames[Len(frames)].scope
        BY <2>1, <2>2, <1>2 DEF NamesInv, InvOf, FramesOK
    <2> QED BY <2>1, <2>3, <1>2
<1>10. Len(scopes) \in Nat
    BY DEF NamesInv, InvOf, ScopesOK
<1> QED BY <1>1, <1>2, <1>3, <1>4, <1>5, <1>6, <1>7, <1>8, <1>9, <1>10

(* The scope that a name belongs to is the one that runs if this is a      *)
(* module or stores to the name.                                           *)
LEMMA OwnerIs ==
    ASSUME NamesInv, NEW n
    PROVE  /\ Owner(n) \in 1 .. Len(scopes)
           /\ IsModule(Owner(n)) \/ n \in OwnNames(scopes[Owner(n)].unit)
           /\ IsModule(Top.scope) \/ n \in OwnNames(Here.unit) => Owner(n) = Top.scope
<1> DEFINE s == Top.scope
           around == Around(s)
           owners == {i \in DOMAIN around : IsModule(around[i]) \/ n \in OwnNames(scopes[around[i]].unit)}
           env == scopes[s].env
<1>1. /\ s \in 1 .. Len(scopes) /\ Here = scopes[s] /\ env \in Seq(1 .. Len(scopes))
      /\ IsMod(scopes, s) \/ \E i \in DOMAIN env : IsMod(scopes, env[i])
    BY TopIs DEF ScopeOK
<1>2. around = <<s>> \o env
    BY DEF Around
<1>3. Owner(n) = around[Min(owners)]
    BY DEF Owner
<1> HIDE DEF s, env
<1>4. /\ DOMAIN around = 1 .. Len(env) + 1 /\ Len(env) \in Nat
      /\ around[1] = s /\ \A i \in DOMAIN env : i + 1 \in DOMAIN around /\ around[i + 1] = env[i]
      /\ \A i \in DOMAIN around : around[i] \in 1 .. Len(scopes)
    BY <1>1, <1>2
<1> HIDE DEF around
<1>5. \A x : IsMod(scopes, x) <=> IsModule(x)
    BY DEF IsMod, IsModule
<1>6. owners # {} /\ owners \in SUBSET Nat
    <2>1. CASE IsMod(scopes, s)
        <3>1. 1 \in DOMAIN around
            BY <1>4
        <3> QED BY <2>1, <3>1, <1>4, <1>5
    <2>2. CASE \E i \in DOMAIN env : IsMod(scopes, env[i])
        <3>1. PICK i \in DOMAIN env : IsMod(scopes, env[i])
            BY <2>2
        <3>2. i + 1 \in owners
            BY <3>1, <1>4, <1>5
        <3> QED BY <3>2, <1>4
    <2> QED BY <2>1, <2>2, <1>1
<1>7. Min(owners) \in owners /\ \A i \in owners : Min(owners) <= i
    BY <1>6, MinIs
<1> DEFINE m == Min(owners)
<1> HIDE DEF m
<1>8. m \in owners /\ \A i \in owners : m <= i
    BY <1>7 DEF m
<1>9. IsModule(s) \/ n \in OwnNames(Here.unit) => m = 1
    <2> SUFFICES ASSUME IsModule(s) \/ n \in OwnNames(Here.unit) PROVE m = 1
        OBVIOUS
    <2>1. 1 \in owners
        BY <1>1, <1>4
    <2> QED BY <2>1, <1>4, <1>8
<1>10. Owner(n) = around[m]
    BY <1>3 DEF m
<1>11. /\ Owner(n) \in 1 .. Len(scopes)
       /\ IsModule(Owner(n)) \/ n \in OwnNames(scopes[Owner(n)].unit)
    BY <1>4, <1>8, <1>10
<1> QED BY <1>4, <1>9, <1>10, <1>11 DEF s

(* What stands behind the four causes *)
LEMMA NoCause ==
    ASSUME NEW n, Causes(n) = {}
    PROVE  /\ IsBound(Owner(n), n) \/ Owner(n) = 1
           /\ Top.fn # 0 /\ Owner(n) # Top.scope =>
                /\ <<Owner(n), n>> \notin funcs[Top.fn].changed
                   \/ (Owner(n) = 1 /\ n \notin DOMAIN Closure)
                /\ \E i \in DOMAIN funcs[Top.fn].running : funcs[Top.fn].running[i].scope = Owner(n)
                /\ \A i \in DOMAIN funcs[Top.fn].running :
                      (\A j \in DOMAIN funcs[Top.fn].running :
                          funcs[Top.fn].running[j].scope = Owner(n) => j < i)
                      => n \notin funcs[Top.fn].running[i].bound
<1> DEFINE s == Owner(n)
           fn == funcs[Top.fn]
           isFree == Top.fn # 0 /\ s # Top.scope
<1>1. "unbound" \notin Causes(n) /\ "changed" \notin Causes(n)
      /\ "gone" \notin Causes(n) /\ "caught" \notin Causes(n)
    OBVIOUS
<1>2. ~(~IsBound(s, n) /\ s # 1)
    BY <1>1 DEF Causes
<1>3. ~(isFree /\ <<s, n>> \in fn.changed /\ (s # 1 \/ n \in DOMAIN Closure))
    BY <1>1 DEF Causes
<1>4. ~(isFree /\ \A i \in DOMAIN fn.running : fn.running[i].scope # s)
    BY <1>1 DEF Causes
<1>5. ~(isFree /\ \E i \in {i \in DOMAIN fn.running :
              \A j \in DOMAIN fn.running : fn.running[j].scope = s => j < i} : n \in fn.running[i].bound)
    BY <1>1 DEF Causes
<1> HIDE DEF s, fn
<1>6. isFree => \A i \in DOMAIN fn.running :
          (\A j \in DOMAIN fn.running : fn.running[j].scope = s => j < i) => n \notin fn.running[i].bound
    BY <1>5
<1> QED BY <1>2, <1>3, <1>4, <1>6 DEF s, fn

(* A load finds what the text means where none of the causes is there.     *)
LEMMA ReadRight ==
    ASSUME NamesInv, ~AtEnd, NEW n, n \in Loads(Op), Causes(n) = {}
    PROVE  Finds(n) = Means(n)
<1> DEFINE s == Owner(n)
           t == Top.scope
           f == funcs[Top.fn]
<1>1. /\ t \in 1 .. Len(scopes) /\ Here = scopes[t] /\ FrameOK(Top, scopes, funcs)
      /\ ScopeOK(t, body, scopes, Len(funcs)) /\ Len(scopes) \in Nat
      /\ Top.fn \in Nat /\ (Len(frames) = 1 <=> t = 1)
    BY TopIs DEF Frame
<1>2. /\ s \in 1 .. Len(scopes)
      /\ IsModule(s) \/ n \in OwnNames(scopes[s].unit)
      /\ IsModule(t) \/ n \in OwnNames(Here.unit) => s = t
    BY OwnerIs
<1>3. LocalsAt(1) = scopes[1].locals
    BY DEF NamesInv, InvOf, FramesOK, LocalsAt
<1>4. Means(n) = IF n \in DOMAIN scopes[s].locals THEN scopes[s].locals[n]
                 ELSE IF IsModule(s) THEN BuiltinOf(n) ELSE Unbound
    BY DEF Means, IsBound
<1>5. IsModule(1)
    BY DEF NamesInv, InvOf, ScopesOK, IsMod, IsModule
<1>6. n \in DOMAIN scopes[s].locals \/ s = 1
    BY NoCause DEF IsBound
<1> HIDE DEF s, t
<1>7. CASE n \in DOMAIN Here.locals
    <2>1. IsModule(t) \/ n \in OwnNames(Here.unit)
        BY <1>1, <1>7 DEF ScopeOK, IsMod, IsModule, OwnIn, OwnNames
    <2>2. s = t
        BY <2>1, <1>2
    <2> QED BY <2>2, <1>1, <1>4, <1>7 DEF Finds
<1>8. CASE n \notin DOMAIN Here.locals /\ s = t
    <2>1. s = 1 /\ t = 1
        BY <1>1, <1>6, <1>8
    <2>2. Top.fn = 0
        BY <2>1, <1>1 DEF NamesInv, InvOf, FramesOK, Top, Last
    <2>3. DOMAIN Closure = {}
        BY <2>2 DEF Closure, Nothing
    <2>4. n \notin DOMAIN LocalsAt(1)
        BY <1>3, <1>8, <2>1, <1>1
    <2>5. Finds(n) = BuiltinOf(n)
        BY <1>8, <2>3, <2>4 DEF Finds
    <2>6. Means(n) = BuiltinOf(n)
        BY <1>4, <1>5, <2>1, <2>4, <1>3
    <2> QED BY <2>5, <2>6
<1>9. CASE n \notin DOMAIN Here.locals /\ s # t
    <2>1. ~IsModule(t) /\ n \notin OwnNames(Here.unit)
        BY <1>2, <1>9
    <2>2. Top.fn # 0
        <3> SUFFICES ASSUME Top.fn = 0 PROVE FALSE
            OBVIOUS
        <3>1. scopes[t].env = <<>>
            BY <1>1 DEF FrameOK, t
        <3>2. ~IsMod(scopes, t)
            BY <2>1 DEF IsMod, IsModule
        <3> QED BY <1>1, <3>1, <3>2 DEF ScopeOK
    <2>3. /\ Top.fn \in 1 .. Len(funcs) /\ f.unit = Here.unit
          /\ FuncOK(f, body, scopes, Len(funcs))
        <3>1. Top.fn \in 1 .. Len(funcs) /\ scopes[t].unit = f.unit
            BY <1>1, <2>2 DEF FrameOK, t
        <3> QED BY <3>1, <1>1 DEF NamesInv, InvOf, FuncsOK
    <2>4. Closure = f.closure
        BY <2>2 DEF Closure
    <2> DEFINE run == f.running
    <2>5. /\ <<s, n>> \notin f.changed \/ (s = 1 /\ n \notin DOMAIN f.closure)
          /\ \E i \in DOMAIN run : run[i].scope = s
          /\ \A i \in DOMAIN run : (\A j \in DOMAIN run : run[j].scope = s => j < i) => n \notin run[i].bound
        BY <2>2, <2>4, <1>9, NoCause DEF s, t
    <2> HIDE DEF f
    <2>6. /\ DOMAIN run = 1 .. Len(run) /\ Len(run) \in Nat /\ Len(run) >= 1 /\ run[1].scope = 1
          /\ \A i \in 1 .. Len(run) : run[i].scope \in 1 .. Len(scopes)
          /\ \A i, j \in 1 .. Len(run) : i < j => run[i].scope < run[j].scope
        BY <2>3 DEF FuncOK, RunningOK
    <2>7. Closes(f, body) /\ Agrees(f, scopes)
        BY <2>3 DEF FuncOK
    <2>8. PICK i \in 1 .. Len(run) : run[i].scope = s
        BY <2>5, <2>6
    <2>9. \A j \in 1 .. Len(run) : j # i => run[j].scope # s
        <3> SUFFICES ASSUME NEW j \in 1 .. Len(run), j # i PROVE run[j].scope # run[i].scope
            BY <2>8
        <3>1. j < i \/ i < j
            BY <2>6
        <3>2. run[j].scope < run[i].scope \/ run[i].scope < run[j].scope
            BY <2>6, <3>1
        <3>3. run[j].scope \in Nat /\ run[i].scope \in Nat
            BY <2>6
        <3> QED BY <3>2, <3>3
    <2>10. \A j \in 1 .. Len(run) : j > i => n \notin run[j].bound
        <3> SUFFICES ASSUME NEW j \in 1 .. Len(run), j > i PROVE n \notin run[j].bound
            OBVIOUS
        <3>1. \A l \in DOMAIN run : run[l].scope = s => l < j
            BY <2>6, <2>9
        <3> QED BY <3>1, <2>5, <2>6
    (* A name that the body stores to first would be its own. *)
    <2>11. n \in Upvalues(Here.unit, Code)
        <3> DEFINE u == Here.unit
                   c == Code
                   p == Top.pc
        <3>1. c \in Seq(Range(c)) /\ p \in Nat \ {0}
            BY TopIs DEF Frame
        <3>2. p \in DOMAIN c /\ n \in Loads(c[p])
            BY <3>1 DEF AtEnd, Op
        <3>3. OwnNames(u) = Params[u] \cup UNION {Named(c[j]) : j \in DOMAIN c}
            BY DEF OwnNames, Code
        <3>4. StoredBefore(u, c, p) = Params[u] \cup UNION {Stores(c[j]) : j \in 1 .. p - 1}
            BY DEF StoredBefore
        <3>5. Upvalues(u, c) = UNION {Loads(c[j]) \ StoredBefore(u, c, j) : j \in DOMAIN c}
            BY DEF Upvalues
        <3>6. n \notin OwnNames(u)
            BY <2>1
        <3> HIDE DEF u, c, p
        <3>7. \A j \in 1 .. p - 1 : j \in DOMAIN c
            BY <3>1, <3>2
        <3>8. \A j \in 1 .. p - 1 : Stores(c[j]) \subseteq Named(c[j])
            BY DEF Named, Stores
        <3>9. n \notin StoredBefore(u, c, p)
            BY <3>3, <3>4, <3>6, <3>7, <3>8
        <3>10. n \in Upvalues(u, c)
            BY <3>2, <3>5, <3>9
        <3> QED BY <3>10 DEF u, c
    <2>12. n \in DOMAIN f.closure <=> \E j \in 1 .. Len(run) : n \in run[j].bound
        BY <2>3, <2>7, <2>11 DEF Closes, Code
    <2>13. CASE <<s, n>> \notin f.changed
        <3>1. /\ n \in run[i].bound <=> n \in DOMAIN scopes[s].locals
              /\ n \in DOMAIN f.closure /\ n \in run[i].bound => f.closure[n] = scopes[s].locals[n]
            BY <2>7, <2>8, <2>10, <2>13 DEF Agrees
        <3>2. CASE n \in DOMAIN scopes[s].locals
            <4>1. n \in DOMAIN f.closure /\ f.closure[n] = scopes[s].locals[n]
                BY <3>1, <3>2, <2>8, <2>12
            <4>2. Finds(n) = f.closure[n]
                BY <4>1, <1>9, <2>4 DEF Finds
            <4> QED BY <4>1, <4>2, <3>2, <1>4
        <3>3. CASE n \notin DOMAIN scopes[s].locals
            <4>1. s = 1
                BY <3>3, <1>6
            <4>2. i = 1
                BY <4>1, <2>6, <2>9
            <4>3. n \notin DOMAIN f.closure
                <5> SUFFICES ASSUME NEW j \in 1 .. Len(run), n \in run[j].bound PROVE FALSE
                    BY <2>12
                <5>1. j = 1 \/ j > 1
                    BY <2>6
                <5> QED BY <5>1, <4>2, <3>1, <3>3, <2>10
            <4>4. Finds(n) = BuiltinOf(n)
                BY <4>1, <4>3, <3>3, <1>3, <1>9, <2>4 DEF Finds
            <4>5. Means(n) = BuiltinOf(n)
                BY <4>1, <3>3, <1>4, <1>5
            <4> QED BY <4>4, <4>5
        <3> QED BY <3>2, <3>3
    <2>14. CASE s = 1 /\ n \notin DOMAIN f.closure
        <3>1. Finds(n) = IF n \in DOMAIN scopes[1].locals THEN scopes[1].locals[n] ELSE BuiltinOf(n)
            BY <2>14, <1>3, <1>9, <2>4 DEF Finds
        <3> QED BY <3>1, <2>14, <1>4, <1>5
    <2> QED BY <2>5, <2>13, <2>14
<1> QED BY <1>7, <1>8, <1>9

-----------------------------------------------------------------------------
(* What a step may do to bodies, scopes and functions: a unit, a scope and *)
(* a function stay what they are, and a function notes which names have    *)
(* changed since it was made.                                              *)
BodiesGrow(b, c) == \A u \in DOMAIN b : u \in DOMAIN c /\ c[u] = b[u]
ScopesGrow(sc, td) ==
    /\ Len(sc) \in Nat /\ Len(td) \in Nat /\ Len(sc) <= Len(td)
    /\ \A s \in 1 .. Len(sc) : td[s].unit = sc[s].unit /\ td[s].env = sc[s].env
FuncsGrow(fu, gu) ==
    /\ Len(fu) \in Nat /\ Len(gu) \in Nat /\ Len(fu) <= Len(gu)
    /\ \A k \in 1 .. Len(fu) :
          /\ gu[k] = [unit |-> fu[k].unit, closure |-> fu[k].closure, env |-> fu[k].env,
                      running |-> fu[k].running, changed |-> gu[k].changed]
          /\ fu[k].changed \subseteq gu[k].changed
Noted(sc, fu, td, gu) ==
    \A k \in 1 .. Len(fu), s \in 1 .. Len(sc) : \A n : <<s, n>> \notin gu[k].changed =>
        /\ n \in DOMAIN td[s].locals <=> n \in DOMAIN sc[s].locals
        /\ n \in DOMAIN sc[s].locals => td[s].locals[n] = sc[s].locals[n]

(* A value that refers to scopes and functions goes on referring to them. *)
LEMMA SoundGrows ==
    ASSUME NEW v, NEW ns \in Nat, NEW nf \in Nat, NEW ms \in Nat, NEW mf \in Nat,
           Sound(v, ns, nf), ns <= ms, nf <= mf
    PROVE  Sound(v, ms, mf)
BY DEF Sound

(* The names that a body stores to are known when it is first reached. *)
LEMMA OwnGrows ==
    ASSUME NEW b, NEW c, BodiesGrow(b, c), NEW u \in DOMAIN b
    PROVE  OwnIn(c, u) = OwnIn(b, u)
BY DEF BodiesGrow, OwnIn

(* The scope of a module remains one. *)
LEMMA ModGrows ==
    ASSUME NEW sc, NEW td, ScopesGrow(sc, td), NEW s \in 1 .. Len(sc)
    PROVE  IsMod(td, s) <=> IsMod(sc, s)
BY DEF ScopesGrow, IsMod

(* A list of surroundings stays one. *)
LEMMA EnvGrows ==
    ASSUME NEW sc, NEW td, ScopesGrow(sc, td), NEW env \in Seq(1 .. Len(sc))
    PROVE  /\ env \in Seq(1 .. Len(td))
           /\ (\E i \in DOMAIN env : IsMod(sc, env[i])) => \E i \in DOMAIN env : IsMod(td, env[i])
<1>1. Len(sc) \in Nat /\ Len(td) \in Nat /\ Len(sc) <= Len(td)
    BY DEF ScopesGrow
<1>2. env \in Seq(1 .. Len(td))
    <2>1. 1 .. Len(sc) \subseteq 1 .. Len(td)
        BY <1>1
    <2> DEFINE S == 1 .. Len(sc)
               T == 1 .. Len(td)
    <2>2. env \in Seq(S) /\ S \subseteq T
        BY <2>1
    <2> HIDE DEF S, T
    <2>3. env \in Seq(T)
        BY <2>2
    <2> QED BY <2>3 DEF T
<1>3. \A i \in DOMAIN env : env[i] \in 1 .. Len(sc)
    OBVIOUS
<1> QED BY <1>2, <1>3, ModGrows

(* A scope stays sound when its locals do. *)
LEMMA ScopeGrows ==
    ASSUME NEW b, NEW c, BodiesGrow(b, c), NEW sc, NEW td, ScopesGrow(sc, td),
           NEW nf \in Nat, NEW mf \in Nat, nf <= mf, NEW s \in 1 .. Len(sc), ScopeOK(s, b, sc, nf),
           td[s] = [unit |-> td[s].unit, locals |-> td[s].locals, env |-> td[s].env],
           IsMod(sc, s) \/ DOMAIN td[s].locals \subseteq OwnIn(b, sc[s].unit),
           \A n \in DOMAIN td[s].locals : Sound(td[s].locals[n], Len(td), mf)
    PROVE  ScopeOK(s, c, td, mf)
<1>1. td[s].unit = sc[s].unit /\ td[s].env = sc[s].env
    BY DEF ScopesGrow
<1>2. sc[s].unit \in DOMAIN b /\ sc[s].env \in Seq(1 .. Len(sc))
    BY DEF ScopeOK
<1>3. sc[s].unit \in DOMAIN c
    BY <1>2 DEF BodiesGrow
<1>4. OwnIn(c, sc[s].unit) = OwnIn(b, sc[s].unit)
    BY <1>2, OwnGrows
<1>5. IsMod(td, s) <=> IsMod(sc, s)
    BY ModGrows
<1>6. IsMod(sc, s) \/ \E i \in DOMAIN sc[s].env : IsMod(sc, sc[s].env[i])
    BY DEF ScopeOK
<1>7. /\ sc[s].env \in Seq(1 .. Len(td))
      /\ IsMod(td, s) \/ \E i \in DOMAIN sc[s].env : IsMod(td, sc[s].env[i])
    BY <1>2, <1>5, <1>6, EnvGrows
<1> QED BY <1>1, <1>3, <1>4, <1>5, <1>7 DEF ScopeOK

(* A function stays sound: what it captured is as it was noted, or noted as changed. *)
LEMMA FuncGrows ==
    ASSUME NEW b, NEW c, BodiesGrow(b, c), NEW sc, NEW td, ScopesGrow(sc, td),
           NEW fu, NEW gu, FuncsGrow(fu, gu), Noted(sc, fu, td, gu),
           NEW k \in 1 .. Len(fu), FuncOK(fu[k], b, sc, Len(fu))
    PROVE  FuncOK(gu[k], c, td, Len(gu))
<1> DEFINE f == fu[k]
           g == gu[k]
<1>0. /\ Len(sc) \in Nat /\ Len(td) \in Nat /\ Len(sc) <= Len(td)
      /\ Len(fu) \in Nat /\ Len(gu) \in Nat /\ Len(fu) <= Len(gu)
    BY DEF ScopesGrow, FuncsGrow
<1>1. /\ g = [unit |-> f.unit, closure |-> f.closure, env |-> f.env, running |-> f.running, changed |-> g.changed]
      /\ f.changed \subseteq g.changed
    BY DEF FuncsGrow
<1>2. \A s \in 1 .. Len(sc) : \A n : <<s, n>> \notin g.changed =>
          /\ n \in DOMAIN td[s].locals <=> n \in DOMAIN sc[s].locals
          /\ n \in DOMAIN sc[s].locals => td[s].locals[n] = sc[s].locals[n]
    BY DEF Noted
<1>3. FuncOK(f, b, sc, Len(fu))
    OBVIOUS
<1> HIDE DEF f, g
<1>4. g.unit = f.unit /\ g.closure = f.closure /\ g.env = f.env /\ g.running = f.running
    BY <1>1
<1>5. f.unit \in DOMAIN b /\ f.unit \in DOMAIN c /\ c[f.unit] = b[f.unit]
    BY <1>3 DEF FuncOK, BodiesGrow
<1>6. f.env \in Seq(1 .. Len(td)) /\ \E i \in DOMAIN f.env : IsMod(td, f.env[i])
    BY <1>3, EnvGrows DEF FuncOK
<1>7. \A n \in DOMAIN f.closure : Sound(f.closure[n], Len(td), Len(gu))
    BY <1>0, <1>3, SoundGrows DEF FuncOK
<1>8. /\ f.running \in Seq(Range(f.running)) /\ Len(f.running) >= 1 /\ f.running[1].scope = 1
      /\ \A i \in 1 .. Len(f.running) : f.running[i].scope \in 1 .. Len(sc)
      /\ \A i, j \in 1 .. Len(f.running) : i < j => f.running[i].scope < f.running[j].scope
    BY <1>3 DEF FuncOK, RunningOK
<1>9. \A x \in 1 .. Len(sc) : x \in 1 .. Len(td)
    BY <1>0
<1>10. RunningOK(f.running, Len(td))
    BY <1>8, <1>9 DEF RunningOK
<1>11. Closes(g, c)
    BY <1>3, <1>4, <1>5 DEF FuncOK, Closes
<1>12. Agrees(g, td)
    <2> SUFFICES ASSUME NEW i \in 1 .. Len(f.running), NEW n, <<f.running[i].scope, n>> \notin g.changed
                 PROVE  /\ n \in f.running[i].bound <=> n \in DOMAIN td[f.running[i].scope].locals
                        /\ n \in DOMAIN f.closure /\ n \in f.running[i].bound
                           /\ (\A j \in 1 .. Len(f.running) : j > i => n \notin f.running[j].bound)
                              => f.closure[n] = td[f.running[i].scope].locals[n]
        BY <1>4 DEF Agrees
    <2>1. <<f.running[i].scope, n>> \notin f.changed
        BY <1>1
    <2>2. /\ n \in f.running[i].bound <=> n \in DOMAIN sc[f.running[i].scope].locals
          /\ n \in DOMAIN f.closure /\ n \in f.running[i].bound
             /\ (\A j \in 1 .. Len(f.running) : j > i => n \notin f.running[j].bound)
                => f.closure[n] = sc[f.running[i].scope].locals[n]
        <3>1. Agrees(f, sc)
            BY <1>3 DEF FuncOK
        <3> QED BY <2>1, <3>1 DEF Agrees
    <2>3. f.running[i].scope \in 1 .. Len(sc)
        BY <1>8
    <2> QED BY <1>2, <2>2, <2>3
<1>13. FuncOK(g, c, td, Len(gu))
    BY <1>1, <1>4, <1>5, <1>6, <1>7, <1>10, <1>11, <1>12 DEF FuncOK
<1> QED BY <1>13 DEF g

(* A frame stays that of its scope and its function. *)
LEMMA FrameGrows ==
    ASSUME NEW sc, NEW td, ScopesGrow(sc, td), NEW fu, NEW gu, FuncsGrow(fu, gu),
           NEW r, NEW q, q.scope = r.scope, q.fn = r.fn, r.fn \in Nat, FrameOK(r, sc, fu)
    PROVE  FrameOK(q, td, gu)
<1>1. /\ Len(sc) \in Nat /\ Len(td) \in Nat /\ Len(sc) <= Len(td)
      /\ Len(fu) \in Nat /\ Len(gu) \in Nat /\ Len(fu) <= Len(gu)
    BY DEF ScopesGrow, FuncsGrow
<1>2. r.scope \in 1 .. Len(sc) /\ r.fn \in 0 .. Len(fu)
    BY DEF FrameOK
<1>3. td[r.scope].unit = sc[r.scope].unit /\ td[r.scope].env = sc[r.scope].env
    BY <1>2 DEF ScopesGrow
<1>4. r.fn # 0 => gu[r.fn].unit = fu[r.fn].unit /\ gu[r.fn].env = fu[r.fn].env
    <2> SUFFICES ASSUME r.fn # 0 PROVE gu[r.fn].unit = fu[r.fn].unit /\ gu[r.fn].env = fu[r.fn].env
        OBVIOUS
    <2>1. r.fn \in 1 .. Len(fu)
        BY <1>1, <1>2
    <2> DEFINE k == r.fn
    <2> HIDE DEF k
    <2>2. k \in 1 .. Len(fu)
        BY <2>1 DEF k
    <2>3. gu[k] = [unit |-> fu[k].unit, closure |-> fu[k].closure, env |-> fu[k].env,
                   running |-> fu[k].running, changed |-> gu[k].changed]
        BY <2>2 DEF FuncsGrow
    <2>4. gu[k].unit = fu[k].unit /\ gu[k].env = fu[k].env
        BY <2>3
    <2> QED BY <2>4 DEF k
<1>5. r.scope \in 1 .. Len(td) /\ r.fn \in 0 .. Len(gu)
    BY <1>1, <1>2
<1> QED BY <1>3, <1>4, <1>5 DEF FrameOK

(* A frame that waits for a callee goes on where it stopped. *)
LEMMA WaitGrows ==
    ASSUME NEW b, NEW c, BodiesGrow(b, c), NEW sc, NEW td, ScopesGrow(sc, td),
           NEW r, Waits(r, b, sc), r.scope \in 1 .. Len(sc), sc[r.scope].unit \in DOMAIN b
    PROVE  Waits(r, c, td)
<1>1. td[r.scope].unit = sc[r.scope].unit
    BY DEF ScopesGrow
<1>2. c[sc[r.scope].unit] = b[sc[r.scope].unit]
    BY DEF BodiesGrow
<1> QED BY <1>1, <1>2 DEF Waits

-----------------------------------------------------------------------------
(* The parts that steps are made of.  What is changed is said of any       *)
(* bodies, frames, scopes and functions.                                   *)

(* What does not change grows. *)
LEMMA SameGrows ==
    ASSUME NEW b, NEW fr, NEW sc, NEW fu, InvOf(b, fr, sc, fu)
    PROVE  BodiesGrow(b, b) /\ ScopesGrow(sc, sc) /\ FuncsGrow(fu, fu) /\ Noted(sc, fu, sc, fu)
<1>1. Len(sc) \in Nat /\ Len(fu) \in Nat
    BY DEF InvOf, ScopesOK, FuncsOK
<1>2. \A k \in 1 .. Len(fu) :
          fu[k] = [unit |-> fu[k].unit, closure |-> fu[k].closure, env |-> fu[k].env,
                   running |-> fu[k].running, changed |-> fu[k].changed]
    BY DEF InvOf, FuncsOK, FuncOK
<1> QED BY <1>1, <1>2 DEF BodiesGrow, ScopesGrow, FuncsGrow, Noted

(* Frames are not disturbed when the rest grows. *)
LEMMA FramesGrow ==
    ASSUME NEW b, NEW fr, NEW sc, NEW fu, InvOf(b, fr, sc, fu),
           NEW c, NEW td, NEW gu, BodiesGrow(b, c), ScopesGrow(sc, td), FuncsGrow(fu, gu)
    PROVE  FramesOK(c, fr, td, gu)
<1>1. /\ fr \in Seq(Frame) /\ Len(fr) >= 1 /\ fr[1].scope = 1 /\ fr[1].fn = 0
      /\ \A i, j \in 1 .. Len(fr) : i < j => fr[i].scope < fr[j].scope
      /\ \A i \in 1 .. Len(fr) : fr[i] \in Frame /\ FrameOK(fr[i], sc, fu)
    BY DEF InvOf, FramesOK
<1>2. ASSUME NEW i \in 1 .. Len(fr) PROVE FrameOK(fr[i], td, gu)
    <2>1. fr[i].fn \in Nat /\ FrameOK(fr[i], sc, fu)
        BY <1>1 DEF Frame
    <2> QED BY <2>1, FrameGrows
<1>3. ASSUME NEW i \in 1 .. Len(fr) - 1 PROVE Waits(fr[i], c, td)
    <2>1. i \in 1 .. Len(fr) /\ Len(fr) \in Nat
        BY <1>1
    <2>2. fr[i].scope \in 1 .. Len(sc)
        BY <1>1, <2>1 DEF FrameOK
    <2>3. sc[fr[i].scope].unit \in DOMAIN b
        BY <2>2 DEF InvOf, ScopesOK, ScopeOK
    <2>4. Waits(fr[i], b, sc)
        BY DEF InvOf, FramesOK
    <2> QED BY <2>2, <2>3, <2>4, WaitGrows
<1> QED BY <1>1, <1>2, <1>3 DEF FramesOK

(* The body of a unit shows. *)
LEMMA BodyKeeps ==
    ASSUME NEW b, NEW fr, NEW sc, NEW fu, InvOf(b, fr, sc, fu),
           NEW c, BodiesGrow(b, c), BodiesOK(c)
    PROVE  InvOf(c, fr, sc, fu)
<1>1. ScopesGrow(sc, sc) /\ FuncsGrow(fu, fu) /\ Noted(sc, fu, sc, fu) /\ Len(fu) \in Nat
    BY SameGrows DEF FuncsGrow
<1>2. FramesOK(c, fr, sc, fu)
    BY <1>1, FramesGrow
<1>3. \A s \in 1 .. Len(sc) : ScopeOK(s, c, sc, Len(fu))
    <2> SUFFICES ASSUME NEW s \in 1 .. Len(sc) PROVE ScopeOK(s, c, sc, Len(fu))
        OBVIOUS
    <2>1. ScopeOK(s, b, sc, Len(fu))
        BY DEF InvOf, ScopesOK
    <2>2. /\ sc[s] = [unit |-> sc[s].unit, locals |-> sc[s].locals, env |-> sc[s].env]
          /\ IsMod(sc, s) \/ DOMAIN sc[s].locals \subseteq OwnIn(b, sc[s].unit)
          /\ \A n \in DOMAIN sc[s].locals : Sound(sc[s].locals[n], Len(sc), Len(fu))
        BY <2>1 DEF ScopeOK
    <2> QED BY <1>1, <2>1, <2>2, ScopeGrows
<1>4. \A k \in 1 .. Len(fu) : FuncOK(fu[k], c, sc, Len(fu))
    <2> SUFFICES ASSUME NEW k \in 1 .. Len(fu) PROVE FuncOK(fu[k], c, sc, Len(fu))
        OBVIOUS
    <2>1. FuncOK(fu[k], b, sc, Len(fu))
        BY DEF InvOf, FuncsOK
    <2> QED BY <1>1, <2>1, FuncGrows
<1> QED BY <1>2, <1>3, <1>4 DEF InvOf, ScopesOK, FuncsOK

(* A function is made. *)
LEMMA FuncAdded ==
    ASSUME NEW b, NEW fr, NEW sc, NEW fu, InvOf(b, fr, sc, fu),
           NEW f, FuncOK(f, b, sc, Len(fu) + 1)
    PROVE  InvOf(b, fr, sc, Append(fu, f))
<1> DEFINE gu == Append(fu, f)
<1>0. fu \in Seq(Range(fu)) /\ Len(fu) \in Nat
    BY DEF InvOf, FuncsOK
<1>1. /\ Len(gu) = Len(fu) + 1 /\ gu[Len(fu) + 1] = f
      /\ \A k \in 1 .. Len(fu) : gu[k] = fu[k]
      /\ gu \in Seq(Range(gu))
    BY <1>0, Appended
<1> HIDE DEF gu
<1>2. BodiesGrow(b, b) /\ ScopesGrow(sc, sc) /\ FuncsGrow(fu, fu)
    BY SameGrows
<1>3. FuncsGrow(fu, gu)
    BY <1>0, <1>1, <1>2 DEF FuncsGrow
<1>4. Noted(sc, fu, sc, gu)
    BY DEF Noted
<1>5. FramesOK(b, fr, sc, gu)
    BY <1>2, <1>3, FramesGrow
<1>6. \A s \in 1 .. Len(sc) : ScopeOK(s, b, sc, Len(gu))
    <2> SUFFICES ASSUME NEW s \in 1 .. Len(sc) PROVE ScopeOK(s, b, sc, Len(gu))
        OBVIOUS
    <2>1. ScopeOK(s, b, sc, Len(fu)) /\ Len(sc) \in Nat
        BY DEF InvOf, ScopesOK
    <2>2. /\ sc[s] = [unit |-> sc[s].unit, locals |-> sc[s].locals, env |-> sc[s].env]
          /\ IsMod(sc, s) \/ DOMAIN sc[s].locals \subseteq OwnIn(b, sc[s].unit)
          /\ \A n \in DOMAIN sc[s].locals : Sound(sc[s].locals[n], Len(sc), Len(fu))
        BY <2>1 DEF ScopeOK
    <2>3. \A n \in DOMAIN sc[s].locals : Sound(sc[s].locals[n], Len(sc), Len(gu))
        BY <1>0, <1>1, <2>1, <2>2, SoundGrows
    <2>4. Len(fu) \in Nat /\ Len(gu) \in Nat /\ Len(fu) <= Len(gu)
        BY <1>0, <1>1
    <2> QED BY <1>2, <2>1, <2>2, <2>3, <2>4, ScopeGrows
<1>7. \A k \in 1 .. Len(gu) : FuncOK(gu[k], b, sc, Len(gu))
    <2> SUFFICES ASSUME NEW k \in 1 .. Len(gu) PROVE FuncOK(gu[k], b, sc, Len(gu))
        OBVIOUS
    <2>1. CASE k = Len(fu) + 1
        BY <2>1, <1>1
    <2>2. CASE k # Len(fu) + 1
        <3>1. k \in 1 .. Len(fu)
            BY <2>2, <1>0, <1>1
        <3>2. FuncOK(fu[k], b, sc, Len(fu))
            BY <3>1 DEF InvOf, FuncsOK
        <3> QED BY <1>2, <1>3, <1>4, <3>1, <3>2, FuncGrows
    <2> QED BY <2>1, <2>2
<1>8. InvOf(b, fr, sc, gu)
    BY <1>1, <1>5, <1>6, <1>7 DEF InvOf, ScopesOK, FuncsOK
<1> QED BY <1>8 DEF gu

(* A name is stored to, or deleted: lc are the locals after it. *)
Noting(fu, s, n) == [k \in DOMAIN fu |-> [fu[k] EXCEPT !.changed = @ \cup {<<s, n>>}]]
Altered(lc, old, n) ==
    \A m : m # n =>
        /\ m \in DOMAIN lc <=> m \in DOMAIN old
        /\ m \in DOMAIN old => lc[m] = old[m]

(* Two ways of writing a change to the locals of a scope. *)
LEMMA LocalsAlone ==
    ASSUME NEW sc, NEW s, NEW lc
    PROVE  [sc EXCEPT ![s].locals = lc] = [sc EXCEPT ![s] = [sc[s] EXCEPT !.locals = lc]]
OBVIOUS

(* A store to a name, or its deletion, keeps the invariant when functions note it. *)
LEMMA PutKeeps ==
    ASSUME NEW b, NEW fr, NEW sc, NEW fu, InvOf(b, fr, sc, fu),
           NEW s \in 1 .. Len(sc), NEW n, NEW lc, Altered(lc, sc[s].locals, n),
           n \in DOMAIN lc => (IsMod(sc, s) \/ n \in OwnIn(b, sc[s].unit)) /\ Sound(lc[n], Len(sc), Len(fu))
    PROVE  InvOf(b, fr, [sc EXCEPT ![s].locals = lc], Noting(fu, s, n))
<1> DEFINE e == [sc[s] EXCEPT !.locals = lc]
           td == [sc EXCEPT ![s] = e]
           gu == Noting(fu, s, n)
<1>0. fu \in Seq(Range(fu)) /\ Len(fu) \in Nat /\ sc \in Seq(Range(sc)) /\ Len(sc) \in Nat
    BY DEF InvOf, FuncsOK, ScopesOK
<1>1. ScopeOK(s, b, sc, Len(fu))
    BY DEF InvOf, ScopesOK
<1>2. e = [unit |-> sc[s].unit, locals |-> lc, env |-> sc[s].env]
    <2>1. sc[s] = [unit |-> sc[s].unit, locals |-> sc[s].locals, env |-> sc[s].env]
        BY <1>1 DEF ScopeOK
    <2> QED BY <2>1
<1>3. e.unit = sc[s].unit /\ e.env = sc[s].env /\ e.locals = lc
      /\ e = [unit |-> e.unit, locals |-> e.locals, env |-> e.env]
    BY <1>2
<1>4. td = [sc EXCEPT ![s].locals = lc]
    BY LocalsAlone
<1> HIDE DEF e
<1>5. /\ Len(td) = Len(sc) /\ td \in Seq(Range(td))
      /\ \A x \in 1 .. Len(sc) : td[x] = IF x = s THEN e ELSE sc[x]
    BY <1>0, Replaced
<1> HIDE DEF td
<1>6. ScopesGrow(sc, td)
    BY <1>0, <1>3, <1>5 DEF ScopesGrow
<1>7. /\ Len(gu) = Len(fu) /\ gu \in Seq(Range(gu))
      /\ \A k \in 1 .. Len(fu) : gu[k] = [fu[k] EXCEPT !.changed = @ \cup {<<s, n>>}]
    <2>1. DOMAIN fu = 1 .. Len(fu)
        BY <1>0
    <2>2. gu = [k \in 1 .. Len(fu) |-> [fu[k] EXCEPT !.changed = @ \cup {<<s, n>>}]]
        BY <2>1 DEF Noting
    <2> HIDE DEF gu
    <2>3. DOMAIN gu = 1 .. Len(fu) /\ gu = [k \in 1 .. Len(fu) |-> gu[k]]
        BY <2>2
    <2>4. gu \in [1 .. Len(fu) -> Range(gu)]
        BY <2>3 DEF Range
    <2>5. gu \in Seq(Range(gu)) /\ Len(gu) = Len(fu)
        BY <1>0, <2>3, <2>4
    <2> QED BY <2>2, <2>5
<1> HIDE DEF gu
<1>8. \A k \in 1 .. Len(fu) :
          /\ gu[k] = [unit |-> fu[k].unit, closure |-> fu[k].closure, env |-> fu[k].env,
                      running |-> fu[k].running, changed |-> gu[k].changed]
          /\ gu[k].changed = fu[k].changed \cup {<<s, n>>}
    <2> SUFFICES ASSUME NEW k \in 1 .. Len(fu)
                 PROVE  /\ gu[k] = [unit |-> fu[k].unit, closure |-> fu[k].closure, env |-> fu[k].env,
                                    running |-> fu[k].running, changed |-> gu[k].changed]
                        /\ gu[k].changed = fu[k].changed \cup {<<s, n>>}
        OBVIOUS
    <2>1. fu[k] = [unit |-> fu[k].unit, closure |-> fu[k].closure, env |-> fu[k].env,
                   running |-> fu[k].running, changed |-> fu[k].changed]
        BY DEF InvOf, FuncsOK, FuncOK
    <2>2. gu[k] = [unit |-> fu[k].unit, closure |-> fu[k].closure, env |-> fu[k].env,
                   running |-> fu[k].running, changed |-> fu[k].changed \cup {<<s, n>>}]
        BY <1>7, <2>1
    <2> QED BY <2>2
<1>9. FuncsGrow(fu, gu)
    BY <1>0, <1>7, <1>8 DEF FuncsGrow
<1>10. Noted(sc, fu, td, gu)
    <2> SUFFICES ASSUME NEW k \in 1 .. Len(fu), NEW x \in 1 .. Len(sc), NEW m, <<x, m>> \notin gu[k].changed
                 PROVE  /\ m \in DOMAIN td[x].locals <=> m \in DOMAIN sc[x].locals
                        /\ m \in DOMAIN sc[x].locals => td[x].locals[m] = sc[x].locals[m]
        BY DEF Noted
    <2>1. <<x, m>> # <<s, n>>
        BY <1>8
    <2>2. CASE x = s
        <3>1. m # n /\ td[x].locals = lc
            BY <2>1, <2>2, <1>3, <1>5
        <3> QED BY <2>2, <3>1 DEF Altered
    <2>3. CASE x # s
        BY <2>3, <1>5
    <2> QED BY <2>2, <2>3
<1>11. BodiesGrow(b, b)
    BY DEF BodiesGrow
<1>12. FramesOK(b, fr, td, gu)
    BY <1>6, <1>9, <1>11, FramesGrow
<1>13. \A x \in 1 .. Len(td) : ScopeOK(x, b, td, Len(gu))
    <2> SUFFICES ASSUME NEW x \in 1 .. Len(sc) PROVE ScopeOK(x, b, td, Len(gu))
        BY <1>5
    <2>1. ScopeOK(x, b, sc, Len(fu))
        BY DEF InvOf, ScopesOK
    <2>2. /\ sc[x] = [unit |-> sc[x].unit, locals |-> sc[x].locals, env |-> sc[x].env]
          /\ IsMod(sc, x) \/ DOMAIN sc[x].locals \subseteq OwnIn(b, sc[x].unit)
          /\ \A m \in DOMAIN sc[x].locals : Sound(sc[x].locals[m], Len(sc), Len(fu))
        BY <2>1 DEF ScopeOK
    <2>3. td[x] = [unit |-> td[x].unit, locals |-> td[x].locals, env |-> td[x].env]
        BY <2>2, <1>3, <1>5
    <2>4. IsMod(sc, x) \/ DOMAIN td[x].locals \subseteq OwnIn(b, sc[x].unit)
        <3>1. CASE x # s
            BY <3>1, <2>2, <1>5
        <3>2. CASE x = s
            <4>1. td[x].locals = lc
                BY <3>2, <1>3, <1>5
            <4>2. \A m \in DOMAIN lc : m = n \/ m \in DOMAIN sc[x].locals
                BY <3>2 DEF Altered
            <4> QED BY <3>2, <4>1, <4>2, <2>2
        <3> QED BY <3>1, <3>2
    <2>5. \A m \in DOMAIN td[x].locals : Sound(td[x].locals[m], Len(td), Len(gu))
        <3>1. CASE x # s
            BY <3>1, <2>2, <1>5, <1>7
        <3>2. CASE x = s
            <4>1. td[x].locals = lc
                BY <3>2, <1>3, <1>5
            <4>2. \A m \in DOMAIN lc : m = n \/ (m \in DOMAIN sc[x].locals /\ lc[m] = sc[x].locals[m])
                BY <3>2 DEF Altered
            <4> QED BY <3>2, <4>1, <4>2, <2>2, <1>5, <1>7
        <3> QED BY <3>1, <3>2
    <2>6. Len(fu) <= Len(gu) /\ Len(gu) \in Nat
        BY <1>0, <1>7
    <2> QED BY <1>0, <1>6, <1>11, <2>1, <2>3, <2>4, <2>5, <2>6, ScopeGrows
<1>14. \A k \in 1 .. Len(gu) : FuncOK(gu[k], b, td, Len(gu))
    <2> SUFFICES ASSUME NEW k \in 1 .. Len(fu) PROVE FuncOK(gu[k], b, td, Len(gu))
        BY <1>7
    <2>1. FuncOK(fu[k], b, sc, Len(fu))
        BY DEF InvOf, FuncsOK
    <2> QED BY <1>6, <1>9, <1>10, <1>11, <2>1, FuncGrows
<1>15. IsMod(td, 1) /\ Len(td) >= 1
    <2>1. IsMod(sc, 1) /\ Len(sc) >= 1
        BY DEF InvOf, ScopesOK
    <2>2. 1 \in 1 .. Len(sc)
        BY <2>1, <1>0
    <2> QED BY <2>1, <2>2, <1>5, <1>6, ModGrows
<1>16. InvOf(b, fr, td, gu)
    BY <1>5, <1>7, <1>12, <1>13, <1>14, <1>15 DEF InvOf, ScopesOK, FuncsOK
<1> QED BY <1>4, <1>16 DEF gu

(* A frame is pushed for u, with a scope of its own. *)
NewScope(u, lc, env) == [unit |-> u, locals |-> lc, env |-> env]
NewFrame(sc, k) == [scope |-> Len(sc) + 1, fn |-> k, pc |-> 1]

(* A new frame with a new scope keeps the invariant. *)
LEMMA PushKeeps ==
    ASSUME NEW b, NEW fr, NEW sc, NEW fu, InvOf(b, fr, sc, fu),
           NEW u \in DOMAIN b, NEW lc, NEW env \in Seq(1 .. Len(sc)), NEW k \in 0 .. Len(fu),
           Kind[u] = "module" \/ \E i \in DOMAIN env : IsMod(sc, env[i]),
           Kind[u] = "module" \/ DOMAIN lc \subseteq OwnIn(b, u),
           \A n \in DOMAIN lc : Sound(lc[n], Len(sc) + 1, Len(fu)),
           k = 0 => env = <<>>, k # 0 => fu[k].unit = u /\ fu[k].env = env,
           Waits(fr[Len(fr)], b, sc)
    PROVE  InvOf(b, Append(fr, NewFrame(sc, k)), Append(sc, NewScope(u, lc, env)), fu)
<1> DEFINE r == NewScope(u, lc, env)
           q == NewFrame(sc, k)
           td == Append(sc, r)
           hr == Append(fr, q)
           m == Len(sc) + 1
<1>0. /\ fu \in Seq(Range(fu)) /\ Len(fu) \in Nat /\ sc \in Seq(Range(sc)) /\ Len(sc) \in Nat
      /\ Len(sc) >= 1 /\ IsMod(sc, 1) /\ fr \in Seq(Frame) /\ Len(fr) \in Nat /\ Len(fr) >= 1
    BY DEF InvOf, FuncsOK, ScopesOK, FramesOK
<1>1. r.unit = u /\ r.locals = lc /\ r.env = env
      /\ r = [unit |-> r.unit, locals |-> r.locals, env |-> r.env]
    BY DEF NewScope
<1>2. q.scope = m /\ q.fn = k /\ q.pc = 1 /\ q \in Frame
    BY <1>0 DEF NewFrame, Frame
<1> HIDE DEF r, q
<1>3. /\ Len(td) = m /\ td[m] = r /\ td \in Seq(Range(td))
      /\ \A s \in 1 .. Len(sc) : td[s] = sc[s]
    BY <1>0, Appended
<1>4. /\ Len(hr) = Len(fr) + 1 /\ hr[Len(fr) + 1] = q /\ hr \in Seq(Frame)
      /\ \A i \in 1 .. Len(fr) : hr[i] = fr[i]
    BY <1>0, <1>2, AppendProperties
<1> HIDE DEF td, hr
<1>5. ScopesGrow(sc, td)
    BY <1>0, <1>3 DEF ScopesGrow
<1>6. BodiesGrow(b, b) /\ FuncsGrow(fu, fu)
    BY SameGrows
<1>7. Noted(sc, fu, td, fu)
    BY <1>3 DEF Noted
<1>8. \A j \in 1 .. Len(fu) : FuncOK(fu[j], b, td, Len(fu))
    <2> SUFFICES ASSUME NEW j \in 1 .. Len(fu) PROVE FuncOK(fu[j], b, td, Len(fu))
        OBVIOUS
    <2>1. FuncOK(fu[j], b, sc, Len(fu))
        BY DEF InvOf, FuncsOK
    <2> QED BY <1>5, <1>6, <1>7, <2>1, FuncGrows
<1>9. /\ env \in Seq(1 .. Len(td))
      /\ (\E i \in DOMAIN env : IsMod(sc, env[i])) => \E i \in DOMAIN env : IsMod(td, env[i])
    BY <1>5, EnvGrows
<1>10. IsMod(td, m) <=> Kind[u] = "module"
    BY <1>1, <1>3 DEF IsMod
<1>11. ScopeOK(m, b, td, Len(fu))
    BY <1>1, <1>3, <1>9, <1>10 DEF ScopeOK
<1>12. \A s \in 1 .. Len(td) : ScopeOK(s, b, td, Len(fu))
    <2> SUFFICES ASSUME NEW s \in 1 .. Len(td), s # m PROVE ScopeOK(s, b, td, Len(fu))
        BY <1>11
    <2>1. s \in 1 .. Len(sc)
        BY <1>0, <1>3
    <2>2. ScopeOK(s, b, sc, Len(fu))
        BY <2>1 DEF InvOf, ScopesOK
    <2>3. /\ sc[s] = [unit |-> sc[s].unit, locals |-> sc[s].locals, env |-> sc[s].env]
          /\ IsMod(sc, s) \/ DOMAIN sc[s].locals \subseteq OwnIn(b, sc[s].unit)
          /\ \A n \in DOMAIN sc[s].locals : Sound(sc[s].locals[n], Len(sc), Len(fu))
        BY <2>2 DEF ScopeOK
    <2>4. Len(sc) <= Len(td) /\ Len(td) \in Nat
        BY <1>0, <1>3
    <2>5. \A n \in DOMAIN sc[s].locals : Sound(sc[s].locals[n], Len(td), Len(fu))
        BY <1>0, <2>3, <2>4, SoundGrows
    <2>6. td[s] = sc[s]
        BY <1>3, <2>1
    <2>7. /\ td[s] = [unit |-> td[s].unit, locals |-> td[s].locals, env |-> td[s].env]
          /\ IsMod(sc, s) \/ DOMAIN td[s].locals \subseteq OwnIn(b, sc[s].unit)
          /\ \A n \in DOMAIN td[s].locals : Sound(td[s].locals[n], Len(td), Len(fu))
        BY <2>3, <2>5, <2>6
    <2>8. Len(fu) \in Nat /\ Len(fu) <= Len(fu)
        BY <1>0
    <2>9. BodiesGrow(b, b)
        BY <1>6
    <2> QED BY <1>5, <2>1, <2>2, <2>7, <2>8, <2>9, ScopeGrows
<1>13. IsMod(td, 1)
    BY <1>0, <1>5, ModGrows
<1>14. ScopesOK(b, td, Len(fu))
    BY <1>0, <1>3, <1>12, <1>13 DEF ScopesOK
<1>15. FramesOK(b, fr, td, fu)
    BY <1>5, <1>6, FramesGrow
<1>16. FrameOK(q, td, fu)
    BY <1>0, <1>1, <1>2, <1>3 DEF FrameOK
<1>17. Waits(fr[Len(fr)], b, td)
    <2>1. Len(fr) \in 1 .. Len(fr)
        BY <1>0
    <2> DEFINE p == fr[Len(fr)]
    <2>2. FrameOK(p, sc, fu)
        BY <2>1 DEF InvOf, FramesOK
    <2> HIDE DEF p
    <2>3. p.scope \in 1 .. Len(sc)
        BY <2>2 DEF FrameOK
    <2>4. sc[p.scope].unit \in DOMAIN b
        BY <2>3 DEF InvOf, ScopesOK, ScopeOK
    <2>5. Waits(p, b, sc)
        BY DEF p
    <2>6. Waits(p, b, td)
        BY <1>5, <1>6, <2>3, <2>4, <2>5, WaitGrows
    <2> QED BY <2>6 DEF p
<1>18. FramesOK(b, hr, td, fu)
    <2>1. Len(hr) >= 1 /\ hr[1].scope = 1 /\ hr[1].fn = 0
        BY <1>0, <1>4, <1>15 DEF FramesOK
    <2>2. \A i \in 1 .. Len(hr) : FrameOK(hr[i], td, fu)
        <3> SUFFICES ASSUME NEW i \in 1 .. Len(hr) PROVE FrameOK(hr[i], td, fu)
            OBVIOUS
        <3>1. CASE i = Len(fr) + 1
            BY <3>1, <1>4, <1>16
        <3>2. CASE i # Len(fr) + 1
            <4>1. i \in 1 .. Len(fr)
                BY <3>2, <1>0, <1>4
            <4> QED BY <4>1, <1>4, <1>15 DEF FramesOK
        <3> QED BY <3>1, <3>2
    <2>3. \A i, j \in 1 .. Len(hr) : i < j => hr[i].scope < hr[j].scope
        <3> SUFFICES ASSUME NEW i \in 1 .. Len(hr), NEW j \in 1 .. Len(hr), i < j
                     PROVE  hr[i].scope < hr[j].scope
            OBVIOUS
        <3>1. i \in 1 .. Len(fr) /\ hr[i] = fr[i]
            BY <1>0, <1>4
        <3>2. CASE j = Len(fr) + 1
            <4>1. fr[i].scope \in 1 .. Len(sc)
                BY <3>1 DEF InvOf, FramesOK, FrameOK
            <4>2. hr[j].scope = m
                BY <3>2, <1>2, <1>4
            <4> QED BY <1>0, <3>1, <4>1, <4>2
        <3>3. CASE j # Len(fr) + 1
            <4>1. j \in 1 .. Len(fr) /\ hr[j] = fr[j]
                BY <3>3, <1>0, <1>4, SMTT(30)
            <4> QED BY <3>1, <4>1, <1>15 DEF FramesOK
        <3> QED BY <3>2, <3>3
    <2>4. \A i \in 1 .. Len(hr) - 1 : Waits(hr[i], b, td)
        <3> SUFFICES ASSUME NEW i \in 1 .. Len(hr) - 1 PROVE Waits(hr[i], b, td)
            OBVIOUS
        <3>1. i \in 1 .. Len(fr) /\ hr[i] = fr[i]
            BY <1>0, <1>4
        <3>2. CASE i = Len(fr)
            BY <3>1, <3>2, <1>17
        <3>3. CASE i # Len(fr)
            <4>1. i \in 1 .. Len(fr) - 1
                BY <3>1, <3>3, <1>0
            <4> QED BY <3>1, <4>1, <1>15 DEF FramesOK
        <3> QED BY <3>2, <3>3
    <2> QED BY <1>4, <2>1, <2>2, <2>3, <2>4 DEF FramesOK
<1>19. InvOf(b, hr, td, fu)
    BY <1>0, <1>8, <1>14, <1>18 DEF InvOf, FuncsOK
<1> QED BY <1>19 DEF hr, td, r, q

(* The frame on top goes on. *)
LEMMA StepKeeps ==
    ASSUME NEW b, NEW fr, NEW sc, NEW fu, InvOf(b, fr, sc, fu)
    PROVE  InvOf(b, [fr EXCEPT ![Len(fr)].pc = @ + 1], sc, fu)
<1> DEFINE top == fr[Len(fr)]
           p == [top EXCEPT !.pc = @ + 1]
           hr == [fr EXCEPT ![Len(fr)].pc = @ + 1]
<1>0. fr \in Seq(Frame) /\ Len(fr) \in Nat /\ Len(fr) >= 1 /\ Len(fr) \in 1 .. Len(fr) /\ top \in Frame
    BY DEF InvOf, FramesOK
<1>1. p \in Frame /\ p.scope = top.scope /\ p.fn = top.fn
    <2> HIDE DEF top
    <2>1. top \in [scope : Nat, fn : Nat, pc : Nat \ {0}]
        BY <1>0 DEF Frame
    <2>2. top.pc + 1 \in Nat \ {0}
        BY <2>1
    <2>3. p \in [scope : Nat, fn : Nat, pc : Nat \ {0}] /\ p.scope = top.scope /\ p.fn = top.fn
        BY <2>1, <2>2
    <2> QED BY <2>3 DEF Frame
<1>2. /\ DOMAIN hr = 1 .. Len(fr)
      /\ \A i \in 1 .. Len(fr) : hr[i] = IF i = Len(fr) THEN p ELSE fr[i]
      /\ hr = [i \in 1 .. Len(fr) |-> hr[i]]
    BY <1>0
<1> HIDE DEF hr, p
<1>3. \A i \in 1 .. Len(fr) : hr[i] \in Frame
    BY <1>0, <1>1, <1>2
<1>4. hr \in Seq(Frame) /\ Len(hr) = Len(fr)
    <2>1. hr \in [1 .. Len(fr) -> Frame]
        BY <1>2, <1>3
    <2> QED BY <1>0, <1>2, <2>1
<1>5. \A i \in 1 .. Len(fr) : hr[i].scope = fr[i].scope /\ hr[i].fn = fr[i].fn
    BY <1>1, <1>2
<1>6. \A i \in 1 .. Len(fr) - 1 : i \in 1 .. Len(fr) /\ hr[i] = fr[i]
    BY <1>0, <1>2
<1>7. FramesOK(b, hr, sc, fu)
    <2>1. \A i \in 1 .. Len(fr) : FrameOK(fr[i], sc, fu)
        BY DEF InvOf, FramesOK
    <2>2. \A i \in 1 .. Len(fr) : FrameOK(hr[i], sc, fu)
        BY <1>5, <2>1 DEF FrameOK
    <2>3. \A i, j \in 1 .. Len(fr) : i < j => hr[i].scope < hr[j].scope
        BY <1>5 DEF InvOf, FramesOK
    <2>4. \A i \in 1 .. Len(fr) - 1 : Waits(hr[i], b, sc)
        BY <1>6 DEF InvOf, FramesOK
    <2>5. hr[1].scope = 1 /\ hr[1].fn = 0
        BY <1>0, <1>5 DEF InvOf, FramesOK
    <2> QED BY <1>0, <1>4, <2>2, <2>3, <2>4, <2>5 DEF FramesOK
<1> QED BY <1>7 DEF InvOf, hr

(* The frame on top is gone. *)
LEMMA PopKeeps ==
    ASSUME NEW b, NEW fr, NEW sc, NEW fu, InvOf(b, fr, sc, fu), Len(fr) # 1
    PROVE  /\ InvOf(b, Front(fr), sc, fu) /\ Len(Front(fr)) = Len(fr) - 1 /\ Len(fr) - 1 \in 1 .. Len(fr)
           /\ \A i \in 1 .. Len(fr) - 1 : Front(fr)[i] = fr[i]
<1> DEFINE hr == Front(fr)
           m == Len(fr) - 1
<1>0. fr \in Seq(Frame) /\ Len(fr) \in Nat /\ Len(fr) >= 1
    BY DEF InvOf, FramesOK
<1>1. m \in Nat /\ m >= 1 /\ m \in 1 .. Len(fr) /\ \A i \in 1 .. m : i \in 1 .. Len(fr)
    <2> DEFINE n == Len(fr)
    <2>1. n \in Nat /\ n >= 1 /\ n # 1
        BY <1>0
    <2> HIDE DEF n
    <2>2. n - 1 \in Nat /\ n - 1 >= 1 /\ n - 1 \in 1 .. n /\ \A i \in 1 .. n - 1 : i \in 1 .. n
        BY <2>1
    <2> QED BY <2>2 DEF n
<1>2. hr \in Seq(Frame) /\ Len(hr) = m /\ \A i \in 1 .. m : hr[i] = fr[i]
    BY <1>0, <1>1 DEF Front
<1> HIDE DEF hr
<1>3. FramesOK(b, hr, sc, fu)
    <2>1. \A i \in 1 .. m - 1 : i \in 1 .. Len(fr) - 1 /\ i \in 1 .. m
        BY <1>1
    <2>2. FramesOK(b, fr, sc, fu)
        BY DEF InvOf
    <2>3. hr[1].scope = 1 /\ hr[1].fn = 0
        BY <1>1, <1>2, <2>2 DEF FramesOK
    <2>4. \A i \in 1 .. m : FrameOK(hr[i], sc, fu)
        BY <1>1, <1>2, <2>2 DEF FramesOK
    <2>5. \A i, j \in 1 .. m : i < j => hr[i].scope < hr[j].scope
        BY <1>1, <1>2, <2>2 DEF FramesOK
    <2>6. \A i \in 1 .. m - 1 : Waits(hr[i], b, sc)
        BY <1>2, <2>1, <2>2 DEF FramesOK
    <2> HIDE DEF m
    <2> QED BY <1>1, <1>2, <2>3, <2>4, <2>5, <2>6 DEF FramesOK
<1> QED BY <1>0, <1>1, <1>2, <1>3 DEF InvOf, hr

-----------------------------------------------------------------------------
(* What the steps need *)

(* The last frame that has a name *)
LEMMA HolderIs ==
    ASSUME NamesInv, NEW n, Holders(n) # {}
    PROVE  Holder(n) \in Holders(n) /\ \A j \in Holders(n) : j <= Holder(n)
<1> DEFINE m == Len(frames)
           T == {m - i : i \in Holders(n)}
<1>1. m \in Nat /\ DOMAIN frames = 1 .. m
    BY DEF NamesInv, InvOf, FramesOK
<1> HIDE DEF m
<1>2. Holders(n) \subseteq 1 .. m
    BY <1>1 DEF Holders
<1>3. T \in SUBSET Nat /\ T # {}
    BY <1>1, <1>2
<1>4. PICK x \in T : \A y \in T : x <= y
    BY <1>3, LeastOf
<1>5. PICK i \in Holders(n) : x = m - i
    BY <1>4
<1>6. \A j \in Holders(n) : j <= i
    <2> SUFFICES ASSUME NEW j \in Holders(n) PROVE j <= i
        OBVIOUS
    <2>1. m - i <= m - j
        BY <1>4, <1>5
    <2>2. i \in 1 .. m /\ j \in 1 .. m
        BY <1>2
    <2> QED BY <1>1, <2>1, <2>2
<1>7. \E k \in Holders(n) : \A j \in Holders(n) : j <= k
    BY <1>6
<1> QED BY <1>7 DEF Holder

(* What a frame has is a value. *)
LEMMA LocalsSound ==
    ASSUME NamesInv, NEW i \in 1 .. Len(frames), NEW n \in DOMAIN LocalsAt(i)
    PROVE  Sound(LocalsAt(i)[n], Len(scopes), Len(funcs))
<1>1. FrameOK(frames[i], scopes, funcs)
    BY DEF NamesInv, InvOf, FramesOK
<1>2. frames[i].scope \in 1 .. Len(scopes)
    BY <1>1 DEF FrameOK
<1>3. ScopeOK(frames[i].scope, body, scopes, Len(funcs))
    BY <1>2 DEF NamesInv, InvOf, ScopesOK
<1> QED BY <1>3 DEF ScopeOK, LocalsAt

(* The function that def and class make *)
LEMMA NewFuncOK ==
    ASSUME NamesInv, NEW c, BodiesGrow(body, c), NEW u \in DOMAIN c
    PROVE  FuncOK(NewFunc(u, c[u]), c, scopes, Len(funcs) + 1)
<1> DEFINE f == NewFunc(u, c[u])
           cl == MakeClosure(u, c[u])
<1>0. /\ Len(funcs) \in Nat /\ Len(scopes) \in Nat /\ Len(frames) \in Nat /\ Len(frames) >= 1
      /\ DOMAIN frames = 1 .. Len(frames) /\ 1 \in 1 .. Len(frames)
    BY DEF NamesInv, InvOf, FuncsOK, ScopesOK, FramesOK
<1>1. f = [unit |-> u, closure |-> cl, env |-> EnvOfInner, running |-> Running, changed |-> {}]
    BY DEF NewFunc
<1>2. f.unit = u /\ f.closure = cl /\ f.env = EnvOfInner /\ f.running = Running /\ f.changed = {}
    BY <1>1
<1> HIDE DEF f
<1>3. /\ DOMAIN cl = {m \in Upvalues(u, c[u]) : Holders(m) # {}}
      /\ \A n \in DOMAIN cl : cl[n] = LocalsAt(Holder(n))[n]
    BY DEF MakeClosure
<1> HIDE DEF cl
<1>4. \A n \in DOMAIN cl : Holder(n) \in 1 .. Len(frames) /\ n \in DOMAIN LocalsAt(Holder(n))
                           /\ \A j \in Holders(n) : j <= Holder(n)
    BY <1>0, <1>3, HolderIs DEF Holders
<1>5. \A n \in DOMAIN cl : Sound(cl[n], Len(scopes), Len(funcs) + 1)
    <2> SUFFICES ASSUME NEW n \in DOMAIN cl PROVE Sound(cl[n], Len(scopes), Len(funcs) + 1)
        OBVIOUS
    <2>1. Sound(cl[n], Len(scopes), Len(funcs))
        BY <1>3, <1>4, LocalsSound
    <2>2. Len(funcs) <= Len(funcs) + 1 /\ Len(funcs) + 1 \in Nat /\ Len(scopes) <= Len(scopes)
        BY <1>0
    <2> QED BY <1>0, <2>1, <2>2, SoundGrows
<1>6. /\ Len(Running) = Len(frames) /\ Running \in Seq(Range(Running))
      /\ \A i \in 1 .. Len(frames) : Running[i].scope = frames[i].scope /\ Running[i].bound = DOMAIN LocalsAt(i)
    <2> DEFINE run == Running
    <2>1. /\ DOMAIN run = 1 .. Len(frames) /\ run = [i \in 1 .. Len(frames) |-> run[i]]
          /\ \A i \in 1 .. Len(frames) : run[i] = [scope |-> frames[i].scope, bound |-> DOMAIN LocalsAt(i)]
        BY <1>0 DEF Running
    <2> HIDE DEF run
    <2>2. run \in [1 .. Len(frames) -> Range(run)]
        BY <2>1 DEF Range
    <2>3. Len(run) = Len(frames) /\ run \in Seq(Range(run))
        BY <1>0, <2>1, <2>2
    <2>4. \A i \in 1 .. Len(frames) : run[i].scope = frames[i].scope /\ run[i].bound = DOMAIN LocalsAt(i)
        BY <2>1
    <2> QED BY <2>3, <2>4 DEF run
<1>7. RunningOK(Running, Len(scopes))
    <2>1. /\ frames[1].scope = 1
          /\ \A i \in 1 .. Len(frames) : frames[i].scope \in 1 .. Len(scopes)
          /\ \A i, j \in 1 .. Len(frames) : i < j => frames[i].scope < frames[j].scope
        BY DEF NamesInv, InvOf, FramesOK, FrameOK
    <2> QED BY <1>0, <1>6, <2>1 DEF RunningOK
<1>8. \A n : Holders(n) = {i \in 1 .. Len(frames) : n \in Running[i].bound}
    BY <1>0, <1>6 DEF Holders
<1>9. Closes(f, c)
    <2>1. \A n : Holders(n) # {} <=> \E i \in 1 .. Len(frames) : n \in Running[i].bound
        BY <1>8
    <2> QED BY <1>2, <1>3, <1>6, <2>1 DEF Closes
<1>10. Agrees(f, scopes)
    <2> SUFFICES ASSUME NEW i \in 1 .. Len(frames), NEW n
                 PROVE  /\ n \in Running[i].bound <=> n \in DOMAIN scopes[Running[i].scope].locals
                        /\ n \in DOMAIN cl /\ n \in Running[i].bound
                           /\ (\A j \in 1 .. Len(frames) : j > i => n \notin Running[j].bound)
                              => cl[n] = scopes[Running[i].scope].locals[n]
        BY <1>2, <1>6 DEF Agrees
    <2>1. LocalsAt(i) = scopes[Running[i].scope].locals
        BY <1>6 DEF LocalsAt
    <2>2. ASSUME n \in DOMAIN cl, n \in Running[i].bound,
                 \A j \in 1 .. Len(frames) : j > i => n \notin Running[j].bound
          PROVE  cl[n] = scopes[Running[i].scope].locals[n]
        <3> DEFINE h == Holder(n)
        <3>1. h \in 1 .. Len(frames) /\ n \in DOMAIN LocalsAt(h) /\ \A j \in Holders(n) : j <= h
            BY <1>4, <2>2
        <3>2. cl[n] = LocalsAt(h)[n]
            BY <1>3, <2>2
        <3> HIDE DEF h
        <3>3. i \in Holders(n)
            BY <1>8, <2>2
        <3>4. i <= h /\ n \in Running[h].bound
            BY <3>1, <3>3, <1>6
        <3>5. ~(h > i)
            BY <2>2, <3>1, <3>4
        <3>6. h = i
            BY <3>1, <3>4, <3>5
        <3> QED BY <2>1, <3>2, <3>6
    <2> QED BY <1>6, <2>1, <2>2
<1>11. /\ EnvOfInner \in Seq(1 .. Len(scopes))
       /\ \E i \in DOMAIN EnvOfInner : IsMod(scopes, EnvOfInner[i])
    <2> DEFINE s == Top.scope
               env == scopes[s].env
    <2>1. /\ s \in 1 .. Len(scopes) /\ Here = scopes[s] /\ env \in Seq(1 .. Len(scopes))
          /\ IsMod(scopes, s) \/ \E i \in DOMAIN env : IsMod(scopes, env[i])
        BY TopIs DEF ScopeOK
    <2>2. EnvOfInner = IF Kind[Here.unit] = "class" THEN env ELSE <<s>> \o env
        BY <2>1 DEF EnvOfInner, Around
    <2> HIDE DEF s, env
    <2>3. CASE Kind[Here.unit] = "class"
        <3>1. ~IsMod(scopes, s)
            BY <2>1, <2>3 DEF IsMod
        <3> QED BY <2>1, <2>2, <2>3, <3>1
    <2>4. CASE Kind[Here.unit] # "class"
        <3> DEFINE a == <<s>> \o env
        <3>1. /\ DOMAIN a = 1 .. Len(env) + 1 /\ Len(env) \in Nat /\ a \in Seq(1 .. Len(scopes))
              /\ a[1] = s /\ \A i \in DOMAIN env : i + 1 \in DOMAIN a /\ a[i + 1] = env[i]
            BY <2>1
        <3> HIDE DEF a
        <3>2. \E i \in DOMAIN a : IsMod(scopes, a[i])
            <4>1. CASE IsMod(scopes, s)
                <5>1. 1 \in DOMAIN a
                    BY <3>1
                <5> QED BY <4>1, <5>1, <3>1
            <4>2. CASE \E i \in DOMAIN env : IsMod(scopes, env[i])
                <5>1. PICK i \in DOMAIN env : IsMod(scopes, env[i])
                    BY <4>2
                <5>2. i + 1 \in DOMAIN a /\ IsMod(scopes, a[i + 1])
                    BY <5>1, <3>1
                <5> QED BY <5>2
            <4> QED BY <4>1, <4>2, <2>1
        <3> QED BY <2>2, <2>4, <3>1, <3>2 DEF a
    <2> QED BY <2>3, <2>4
<1>12. f = [unit |-> f.unit, closure |-> f.closure, env |-> f.env, running |-> f.running, changed |-> f.changed]
    BY <1>1, <1>2
<1>13. FuncOK(f, c, scopes, Len(funcs) + 1)
    BY <1>2, <1>5, <1>7, <1>9, <1>10, <1>11, <1>12 DEF FuncOK
<1> QED BY <1>13 DEF f

(* The instruction that runs *)
LEMMA OpIs ==
    ASSUME NamesInv, ~AtEnd
    PROVE  /\ Top.pc \in DOMAIN Code /\ Top.pc \in 1 .. Len(Code)
           /\ Formed(Here.unit, Op)
           /\ Named(Op) \subseteq OwnIn(body, Here.unit)
<1>1. Code \in Seq(Range(Code)) /\ Top.pc \in Nat \ {0} /\ Here.unit \in Units /\ Code \in Bodies[Here.unit]
    BY TopIs DEF Frame
<1> DEFINE c == Code
           p == Top.pc
           u == Here.unit
<1>2. ~(p > Len(c)) /\ Op = c[p] /\ c = body[u]
    BY DEF AtEnd, Op, Code
<1> HIDE DEF c, p, u
<1>3. c \in Seq(Range(c)) /\ p \in Nat \ {0}
    BY <1>1 DEF c, p
<1>4. p \in DOMAIN c /\ p \in 1 .. Len(c)
    BY <1>2, <1>3
<1>5. c[p] \in Range(c)
    BY <1>4 DEF Range
<1>6. Formed(u, Op)
    BY <1>1, <1>2, <1>5, NamesAssumption DEF c, u
<1>7. Named(Op) \subseteq OwnIn(body, u)
    BY <1>2, <1>4 DEF OwnIn
<1> QED BY <1>4, <1>6, <1>7 DEF c, p, u

(* A unit shows its body. *)
LEMMA ShownKeeps ==
    ASSUME NamesInv, NEW u \in Units, NEW code \in Shown(u)
    PROVE  LET c == With(body, u, code)
           IN  BodiesGrow(body, c) /\ BodiesOK(c) /\ u \in DOMAIN c /\ c[u] = code
                 /\ InvOf(c, frames, scopes, funcs)
<1> DEFINE c == With(body, u, code)
<1>1. /\ DOMAIN c = DOMAIN body \cup {u} /\ c[u] = code
      /\ \A v \in DOMAIN body \ {u} : c[v] = body[v]
    BY DEF With
<1> HIDE DEF c
<1>2. u \in DOMAIN body => code = body[u]
    BY DEF Shown
<1>3. u \notin DOMAIN body => code \in Bodies[u]
    BY DEF Shown
<1>4. BodiesOK(body)
    BY DEF NamesInv, InvOf
<1>5. BodiesGrow(body, c)
    BY <1>1, <1>2 DEF BodiesGrow
<1>6. BodiesOK(c)
    BY <1>1, <1>2, <1>3, <1>4 DEF BodiesOK
<1>7. InvOf(c, frames, scopes, funcs)
    BY <1>5, <1>6, BodyKeeps DEF NamesInv
<1> QED BY <1>1, <1>5, <1>6, <1>7 DEF c

(* A value is stored in a scope. *)
LEMMA StoredKeeps ==
    ASSUME NEW b, NEW fr, NEW sc, NEW fu, InvOf(b, fr, sc, fu),
           NEW s \in 1 .. Len(sc), NEW n, IsMod(sc, s) \/ n \in OwnIn(b, sc[s].unit),
           NEW v, Sound(v, Len(sc), Len(fu))
    PROVE  InvOf(b, fr, [sc EXCEPT ![s].locals = With(@, n, v)], Noting(fu, s, n))
<1> DEFINE lc == With(sc[s].locals, n, v)
<1>1. DOMAIN lc = DOMAIN sc[s].locals \cup {n} /\ lc[n] = v
      /\ \A m \in DOMAIN sc[s].locals : m # n => lc[m] = sc[s].locals[m]
    BY DEF With
<1>2. s \in DOMAIN sc
    BY DEF InvOf, ScopesOK
<1>3. [sc EXCEPT ![s].locals = With(@, n, v)] = [sc EXCEPT ![s].locals = lc]
    BY <1>2
<1>4. Altered(lc, sc[s].locals, n)
    BY <1>1 DEF Altered
<1> HIDE DEF lc
<1>5. InvOf(b, fr, [sc EXCEPT ![s].locals = lc], Noting(fu, s, n))
    BY <1>1, <1>4, PutKeeps
<1> QED BY <1>3, <1>5

(* A name is deleted from a scope. *)
LEMMA DeletedKeeps ==
    ASSUME NEW b, NEW fr, NEW sc, NEW fu, InvOf(b, fr, sc, fu), NEW s \in 1 .. Len(sc), NEW n
    PROVE  InvOf(b, fr, [sc EXCEPT ![s].locals = Without(@, n)], Noting(fu, s, n))
<1> DEFINE lc == Without(sc[s].locals, n)
<1>1. DOMAIN lc = DOMAIN sc[s].locals \ {n} /\ \A m \in DOMAIN lc : lc[m] = sc[s].locals[m]
    BY DEF Without
<1>2. s \in DOMAIN sc
    BY DEF InvOf, ScopesOK
<1>3. [sc EXCEPT ![s].locals = Without(@, n)] = [sc EXCEPT ![s].locals = lc]
    BY <1>2
<1>4. Altered(lc, sc[s].locals, n)
    BY <1>1 DEF Altered
<1> HIDE DEF lc
<1>5. InvOf(b, fr, [sc EXCEPT ![s].locals = lc], Noting(fu, s, n))
    BY <1>1, <1>4, PutKeeps
<1> QED BY <1>3, <1>5

(* A name of the instruction that runs may be stored in its scope. *)
LEMMA OwnHere ==
    ASSUME NamesInv, ~AtEnd, NEW n \in Named(Op)
    PROVE  /\ Top.scope \in 1 .. Len(scopes)
           /\ n \in OwnIn(body, scopes[Top.scope].unit)
BY TopIs, OpIs

(* SET_VAL in the frame on top, which goes on *)
LEMMA SetValKeeps ==
    ASSUME NamesInv, ~AtEnd, NEW n \in Named(Op), NEW v, Sound(v, Len(scopes), Len(funcs)),
           SetVal(Len(frames), n, v), Step, body' = body
    PROVE  NamesInv'
<1> DEFINE td == [scopes EXCEPT ![Top.scope].locals = With(@, n, v)]
           gu == Noting(funcs, Top.scope, n)
<1>1. Top = frames[Len(frames)]
    BY TopIs
<1>2. scopes' = td /\ funcs' = gu
    BY <1>1 DEF SetVal, Changed, Noting
<1>3. InvOf(body, frames, td, gu)
    BY OwnHere, StoredKeeps DEF NamesInv
<1> HIDE DEF td, gu
<1>4. InvOf(body, [frames EXCEPT ![Len(frames)].pc = @ + 1], td, gu)
    BY <1>3, StepKeeps
<1> QED BY <1>2, <1>4 DEF NamesInv, Step

(* RET *)
LEMMA BackKeeps ==
    ASSUME NamesInv, Len(frames) # 1, NEW v, Sound(v, Len(scopes), Len(funcs)), Back(v)
    PROVE  NamesInv'
<1> DEFINE i == Len(frames) - 1
           fr == Front(frames)
           s == frames[i].scope
           code == body[scopes[s].unit]
           stmt == code[frames[i].pc]
<1>1. InvOf(body, fr, scopes, funcs) /\ Len(fr) = i /\ i \in 1 .. Len(frames)
    BY PopKeeps DEF NamesInv
<1>2. /\ frames' = [fr EXCEPT ![i].pc = @ + 1] /\ body' = body
      /\ IF stmt[1] \in {"call", "member"} THEN UNCHANGED <<scopes, funcs>> ELSE SetVal(i, stmt[2], v)
    BY DEF Back
<1>3. Waits(frames[i], body, scopes) /\ FrameOK(frames[i], scopes, funcs)
    <2>1. i \in 1 .. Len(frames) - 1
        BY <1>1
    <2> HIDE DEF i
    <2> QED BY <1>1, <2>1 DEF NamesInv, InvOf, FramesOK
<1>4. s \in 1 .. Len(scopes) /\ frames[i].pc \in 1 .. Len(code) /\ stmt[1] \in Calling
    BY <1>3 DEF Waits, FrameOK
<1>5. code \in Seq(Range(code))
    <2>1. scopes[s].unit \in DOMAIN body
        BY <1>4 DEF NamesInv, InvOf, ScopesOK, ScopeOK
    <2>2. scopes[s].unit \in Units /\ code \in Bodies[scopes[s].unit]
        BY <2>1 DEF NamesInv, InvOf, BodiesOK
    <2> QED BY <2>2, NamesAssumption
<1>6. frames[i].pc \in DOMAIN code
    BY <1>4, <1>5
<1> HIDE DEF fr
<1>7. CASE stmt[1] \in {"call", "member"}
    <2>1. InvOf(body, [fr EXCEPT ![Len(fr)].pc = @ + 1], scopes, funcs)
        BY <1>1, StepKeeps
    <2> QED BY <1>1, <1>2, <1>7, <2>1 DEF NamesInv
<1>8. CASE stmt[1] \notin {"call", "member"}
    <2>1. stmt[2] \in Named(stmt)
        BY <1>4, <1>8 DEF Named, Stores, Calling
    <2>2. stmt[2] \in OwnIn(body, scopes[s].unit)
        BY <1>6, <2>1 DEF OwnIn
    <2> DEFINE td == [scopes EXCEPT ![s].locals = With(@, stmt[2], v)]
               gu == Noting(funcs, s, stmt[2])
    <2>3. scopes' = td /\ funcs' = gu
        BY <1>2, <1>8 DEF SetVal, Changed, Noting
    <2>4. InvOf(body, fr, td, gu)
        BY <1>1, <1>4, <2>2, StoredKeeps
    <2> HIDE DEF td, gu
    <2>5. InvOf(body, [fr EXCEPT ![Len(fr)].pc = @ + 1], td, gu)
        BY <2>4, StepKeeps
    <2> QED BY <1>1, <1>2, <2>3, <2>5 DEF NamesInv
<1> QED BY <1>7, <1>8

(* What a load and a call find has been made. *)
LEMMA FindsSound ==
    ASSUME NamesInv, NEW n
    PROVE  Sound(Finds(n), Len(scopes), Len(funcs))
<1>1. /\ Top.scope \in 1 .. Len(scopes) /\ Here = scopes[Top.scope] /\ FrameOK(Top, scopes, funcs)
      /\ ScopeOK(Top.scope, body, scopes, Len(funcs)) /\ 1 \in 1 .. Len(frames) /\ Len(funcs) \in Nat
    BY TopIs DEF NamesInv, InvOf, FuncsOK
<1>2. \A m \in DOMAIN Here.locals : Sound(Here.locals[m], Len(scopes), Len(funcs))
    BY <1>1 DEF ScopeOK
<1>3. \A m \in DOMAIN LocalsAt(1) : Sound(LocalsAt(1)[m], Len(scopes), Len(funcs))
    BY <1>1, LocalsSound
<1>4. \A m \in DOMAIN Closure : Sound(Closure[m], Len(scopes), Len(funcs))
    <2>1. CASE Top.fn = 0
        BY <2>1 DEF Closure, Nothing
    <2>2. CASE Top.fn # 0
        <3>1. Top.fn \in 1 .. Len(funcs)
            BY <1>1, <2>2 DEF FrameOK
        <3>2. FuncOK(funcs[Top.fn], body, scopes, Len(funcs))
            BY <3>1 DEF NamesInv, InvOf, FuncsOK
        <3> QED BY <2>2, <3>2 DEF Closure, FuncOK
    <2> QED BY <2>1, <2>2
<1>5. Sound(BuiltinOf(n), Len(scopes), Len(funcs))
    BY DEF BuiltinOf, Unbound, Sound
<1> QED BY <1>2, <1>3, <1>4, <1>5 DEF Finds

(* The value that is called exists. *)
LEMMA CalleeSound ==
    ASSUME NamesInv
    PROVE  Sound(Callee, Len(scopes), Len(funcs))
<1> DEFINE found == Finds(Op[2])
           has == found[1] \in {"module", "class"} /\ Op[3] \in DOMAIN scopes[found[2]].locals
<1>1. Sound(found, Len(scopes), Len(funcs))
    BY FindsSound
<1> HIDE DEF found
<1>2. has => Sound(scopes[found[2]].locals[Op[3]], Len(scopes), Len(funcs))
    <2> SUFFICES ASSUME has PROVE Sound(scopes[found[2]].locals[Op[3]], Len(scopes), Len(funcs))
        OBVIOUS
    <2>1. found[2] \in 1 .. Len(scopes)
        BY <1>1 DEF Sound
    <2>2. ScopeOK(found[2], body, scopes, Len(funcs))
        BY <2>1 DEF NamesInv, InvOf, ScopesOK
    <2> QED BY <2>2 DEF ScopeOK
<1>3. Sound(Unbound, Len(scopes), Len(funcs))
    BY DEF Unbound, Sound
<1>4. Callee = IF Op[1] # "member" THEN found ELSE IF has THEN scopes[found[2]].locals[Op[3]] ELSE Unbound
    BY DEF Callee, found
<1> HIDE DEF has
<1> QED BY <1>1, <1>2, <1>3, <1>4

-----------------------------------------------------------------------------
(* Every step keeps the invariant. *)

(* The script begins with one frame and one scope, those of its module. *)
LEMMA InitNames ==
    ASSUME NamesInit
    PROVE  NamesInv
<1> DEFINE e == [unit |-> Main, locals |-> Nothing, env |-> <<>>]
           q == [scope |-> 1, fn |-> 0, pc |-> 1]
<1>1. PICK code \in Bodies[Main] : body = [u \in {Main} |-> code]
    BY DEF NamesInit
<1>2. frames = <<q>> /\ scopes = <<e>> /\ funcs = <<>>
    BY DEF NamesInit
<1>3. Main \in Units /\ Kind[Main] = "module"
    BY NamesAssumption
<1>4. DOMAIN body = {Main} /\ body[Main] = code
    BY <1>1
<1>5. BodiesOK(body)
    BY <1>3, <1>4 DEF BodiesOK
<1>6. e.unit = Main /\ e.locals = Nothing /\ e.env = <<>>
      /\ e = [unit |-> e.unit, locals |-> e.locals, env |-> e.env]
    OBVIOUS
<1>7. q.scope = 1 /\ q.fn = 0 /\ q.pc = 1 /\ q \in Frame
    BY DEF Frame
<1> HIDE DEF e, q
<1>8. /\ Len(scopes) = 1 /\ scopes[1] = e /\ scopes \in Seq({e}) /\ DOMAIN scopes = 1 .. 1
      /\ Len(frames) = 1 /\ frames[1] = q /\ frames \in Seq({q})
      /\ Len(funcs) = 0 /\ funcs \in Seq(Range(funcs))
    BY <1>2 DEF Range
<1>9. scopes \in Seq(Range(scopes))
    <2>1. e \in Range(scopes)
        BY <1>8 DEF Range
    <2> QED BY <1>2, <2>1
<1>10. IsMod(scopes, 1)
    BY <1>3, <1>6, <1>8 DEF IsMod
<1>11. ScopeOK(1, body, scopes, 0)
    <2>1. DOMAIN Nothing = {}
        BY DEF Nothing
    <2>2. scopes[1].unit \in DOMAIN body /\ scopes[1].env \in Seq(1 .. Len(scopes))
        <3>1. <<>> \in Seq(1 .. Len(scopes))
            OBVIOUS
        <3>2. scopes[1].env = <<>> /\ scopes[1].unit = Main
            BY <1>6, <1>8
        <3> QED BY <1>4, <3>1, <3>2
    <2>3. scopes[1] = [unit |-> scopes[1].unit, locals |-> scopes[1].locals, env |-> scopes[1].env]
        BY <1>6, <1>8
    <2>4. DOMAIN scopes[1].locals = {}
        BY <2>1, <1>6, <1>8
    <2> QED BY <1>10, <2>2, <2>3, <2>4 DEF ScopeOK
<1>12. ScopesOK(body, scopes, Len(funcs))
    BY <1>8, <1>9, <1>10, <1>11 DEF ScopesOK
<1>13. FuncsOK(body, scopes, funcs)
    BY <1>8 DEF FuncsOK
<1>14. FramesOK(body, frames, scopes, funcs)
    <2>1. FrameOK(q, scopes, funcs)
        BY <1>6, <1>7, <1>8 DEF FrameOK
    <2>2. frames \in Seq(Frame)
        BY <1>2, <1>7
    <2> QED BY <1>7, <1>8, <2>1, <2>2 DEF FramesOK
<1> QED BY <1>5, <1>12, <1>13, <1>14 DEF NamesInv, InvOf

(* STORE_NAME. *)
LEMMA SetStep ==
    ASSUME NamesInv, Set
    PROVE  NamesInv'
<1>1. ~AtEnd /\ Op[2] \in Named(Op)
    BY DEF Set, Is, Named, Stores
<1>2. Sound(<<"value", Top.scope, Top.pc>>, Len(scopes), Len(funcs))
    BY DEF Sound
<1>3. SetVal(Len(frames), Op[2], <<"value", Top.scope, Top.pc>>) /\ Step /\ body' = body
    BY DEF Set
<1> QED BY <1>1, <1>2, <1>3, SetValKeeps

(* A run that ends keeps everything. *)
LEMMA StoppedKeeps ==
    ASSUME NamesInv, UNCHANGED <<body, frames, scopes, funcs>>
    PROVE  NamesInv'
BY DEF NamesInv

(* An instruction that only moves on keeps the invariant. *)
LEMMA SteppedKeeps ==
    ASSUME NamesInv, Step, UNCHANGED <<body, scopes, funcs>>
    PROVE  NamesInv'
BY StepKeeps DEF NamesInv, Step

(* LOAD_NAME. *)
LEMMA LoadStep ==
    ASSUME NamesInv, LoadName
    PROVE  NamesInv'
BY StoppedKeeps, SteppedKeeps DEF LoadName, Stop

(* DEL_NAME. *)
LEMMA DelStep ==
    ASSUME NamesInv, DelName
    PROVE  NamesInv'
<1>1. CASE Op[2] \notin DOMAIN Here.locals
    BY <1>1, StoppedKeeps DEF DelName, Stop
<1>2. CASE Op[2] \in DOMAIN Here.locals
    <2> DEFINE td == [scopes EXCEPT ![Top.scope].locals = Without(@, Op[2])]
               gu == Noting(funcs, Top.scope, Op[2])
    <2>1. scopes' = td /\ funcs' = gu /\ body' = body /\ Step
        BY <1>2 DEF DelName, Changed, Noting
    <2>2. InvOf(body, frames, td, gu)
        BY TopIs, DeletedKeeps DEF NamesInv
    <2> HIDE DEF td, gu
    <2>3. InvOf(body, [frames EXCEPT ![Len(frames)].pc = @ + 1], td, gu)
        BY <2>2, StepKeeps
    <2> QED BY <2>1, <2>3 DEF NamesInv, Step
<1> QED BY <1>1, <1>2

(* Storing a name and making a function may be noted in either order. *)
LEMMA NotedAlso ==
    ASSUME NEW fu, fu \in Seq(Range(fu)), NEW f, f.changed = {}, NEW s, NEW n
    PROVE  Noting(Append(fu, f), s, n) = Append(Noting(fu, s, n), [f EXCEPT !.changed = {<<s, n>>}])
<1> DEFINE k == Len(fu)
           note(x) == [x EXCEPT !.changed = @ \cup {<<s, n>>}]
           g == [f EXCEPT !.changed = {<<s, n>>}]
           a == Append(fu, f)
           lhs == Noting(a, s, n)
           w == Noting(fu, s, n)
           rhs == Append(w, g)
<1>1. DOMAIN fu = 1 .. k /\ k \in Nat
    OBVIOUS
<1>2. DOMAIN a = 1 .. k + 1 /\ a[k + 1] = f /\ \A i \in 1 .. k : a[i] = fu[i]
    <2>1. Len(a) = k + 1 /\ a[k + 1] = f /\ (\A i \in 1 .. k : a[i] = fu[i]) /\ a \in Seq(Range(a))
        BY Appended
    <2> HIDE DEF a
    <2> QED BY <2>1
<1>3. note(f) = g
    OBVIOUS
<1>4. lhs = [i \in 1 .. k + 1 |-> note(a[i])]
    BY <1>2 DEF Noting
<1>5. w = [i \in 1 .. k |-> note(fu[i])]
    BY <1>1 DEF Noting
<1> HIDE DEF note, g, a, lhs, w
<1>6. w \in Seq(Range(w)) /\ Len(w) = k
    <2>1. DOMAIN w = 1 .. k /\ w = [i \in 1 .. k |-> w[i]]
        BY <1>5
    <2>2. w \in [1 .. k -> Range(w)]
        BY <2>1 DEF Range
    <2> QED BY <1>1, <2>1, <2>2
<1>7. /\ Len(rhs) = k + 1 /\ rhs[k + 1] = g /\ \A i \in 1 .. k : rhs[i] = w[i]
      /\ rhs \in Seq(Range(rhs))
    BY <1>6, Appended
<1> HIDE DEF rhs, k
<1>8. rhs = [i \in 1 .. k + 1 |-> rhs[i]]
    BY <1>1, <1>7
<1>9. \A i \in 1 .. k + 1 : note(a[i]) = rhs[i]
    <2> SUFFICES ASSUME NEW i \in 1 .. k + 1 PROVE note(a[i]) = rhs[i]
        OBVIOUS
    <2>1. CASE i = k + 1
        BY <2>1, <1>2, <1>3, <1>7
    <2>2. CASE i # k + 1
        <3>1. i \in 1 .. k
            BY <1>1, <2>2
        <3> QED BY <3>1, <1>2, <1>5, <1>7
    <2> QED BY <2>1, <2>2
<1>10. lhs = rhs
    BY <1>4, <1>8, <1>9
<1> QED BY <1>10 DEF lhs, rhs, a, w, g

(* A function captures what its free names mean in the frames that run. *)
LEMMA DefStep ==
    ASSUME NamesInv, Def
    PROVE  NamesInv'
<1> DEFINE u == Op[2]
           s == Top.scope
           v == <<"function", Len(funcs) + 1>>
<1>1. ~AtEnd /\ Op[1] = "def" /\ Step
    BY DEF Def, Is
<1>2. PICK code \in Shown(u) :
          /\ body' = With(body, u, code)
          /\ scopes' = [scopes EXCEPT ![s].locals = With(@, u, v)]
          /\ funcs' = Append(Changed(s, u), [NewFunc(u, code) EXCEPT !.changed = {<<s, u>>}])
    BY DEF Def
<1>3. Formed(Here.unit, Op) /\ u \in Named(Op)
    BY <1>1, OpIs DEF Named, Stores
<1>4. u \in Units
    BY <1>1, <1>3 DEF Formed
<1> DEFINE c == With(body, u, code)
           f == NewFunc(u, code)
           fu == Append(funcs, f)
           td == [scopes EXCEPT ![s].locals = With(@, u, v)]
           gu == Noting(fu, s, u)
<1>5. BodiesGrow(body, c) /\ u \in DOMAIN c /\ c[u] = code /\ InvOf(c, frames, scopes, funcs)
    BY <1>4, ShownKeeps
<1> HIDE DEF c
<1>6. FuncOK(f, c, scopes, Len(funcs) + 1)
    BY <1>5, NewFuncOK
<1>7. f.changed = {}
    BY DEF NewFunc
<1>8. funcs \in Seq(Range(funcs)) /\ Len(funcs) \in Nat
    BY DEF NamesInv, InvOf, FuncsOK
<1> HIDE DEF f
<1>9. funcs' = gu
    <2>1. Changed(s, u) = Noting(funcs, s, u)
        BY DEF Changed, Noting
    <2>2. gu = Append(Noting(funcs, s, u), [f EXCEPT !.changed = {<<s, u>>}])
        BY <1>7, <1>8, NotedAlso
    <2>3. funcs' = Append(Changed(s, u), [f EXCEPT !.changed = {<<s, u>>}])
        BY <1>2 DEF f
    <2> QED BY <2>1, <2>2, <2>3
<1>10. InvOf(c, frames, scopes, fu) /\ Len(fu) = Len(funcs) + 1
    BY <1>5, <1>6, <1>8, FuncAdded, Appended
<1> HIDE DEF fu
<1>11. Sound(v, Len(scopes), Len(fu))
    BY <1>8, <1>10 DEF Sound
<1>12. s \in 1 .. Len(scopes) /\ u \in OwnIn(body, scopes[s].unit) /\ scopes[s].unit \in DOMAIN body
    BY <1>1, <1>3, OwnHere, TopIs
<1>13. u \in OwnIn(c, scopes[s].unit)
    BY <1>5, <1>12, OwnGrows
<1> HIDE DEF v, u, s
<1>14. InvOf(c, frames, td, gu)
    BY <1>10, <1>11, <1>12, <1>13, StoredKeeps
<1>15. scopes' = td /\ body' = c
    BY <1>2 DEF c
<1> HIDE DEF td, gu
<1>16. InvOf(c, [frames EXCEPT ![Len(frames)].pc = @ + 1], td, gu)
    BY <1>14, StepKeeps
<1> QED BY <1>1, <1>9, <1>15, <1>16 DEF NamesInv, Step

(* The frame on top waits for what its statement runs. *)
LEMMA TopWaits ==
    ASSUME NamesInv, ~AtEnd, Op[1] \in Calling, NEW c, BodiesGrow(body, c)
    PROVE  Waits(frames[Len(frames)], c, scopes)
<1>1. /\ Top = frames[Len(frames)] /\ Here = scopes[Top.scope] /\ Here.unit \in DOMAIN body
      /\ Top.pc \in 1 .. Len(Code)
    BY TopIs, OpIs
<1>2. c[scopes[Top.scope].unit] = Code
    BY <1>1 DEF BodiesGrow, Code
<1>3. Waits(Top, c, scopes)
    BY <1>1, <1>2 DEF Waits, Op
<1> QED BY <1>1, <1>3

(* The body of a class has a frame and a scope of its own. *)
LEMMA ClassStep ==
    ASSUME NamesInv, Class
    PROVE  NamesInv'
<1> DEFINE u == Op[2]
           k == Len(funcs) + 1
           env == EnvOfInner
<1>1. ~AtEnd /\ Op[1] = "class" /\ Push(u, k, env, Nothing)
    BY DEF Class, Is
<1>2. PICK code \in Shown(u) : body' = With(body, u, code) /\ funcs' = Append(funcs, NewFunc(u, code))
    BY DEF Class
<1>3. u \in Units
    BY <1>1, OpIs DEF Formed
<1> DEFINE c == With(body, u, code)
           f == NewFunc(u, code)
           fu == Append(funcs, f)
<1>4. BodiesGrow(body, c) /\ u \in DOMAIN c /\ c[u] = code /\ InvOf(c, frames, scopes, funcs)
    BY <1>3, ShownKeeps
<1> HIDE DEF c
<1>5. FuncOK(f, c, scopes, k)
    BY <1>4, NewFuncOK
<1>6. f.unit = u /\ f.env = env
    BY DEF NewFunc
<1>7. funcs \in Seq(Range(funcs)) /\ Len(funcs) \in Nat
    BY DEF NamesInv, InvOf, FuncsOK
<1> HIDE DEF f, env
<1>8. InvOf(c, frames, scopes, fu) /\ Len(fu) = k /\ fu[k] = f
    BY <1>4, <1>5, <1>7, FuncAdded, Appended
<1> HIDE DEF fu
<1>9. env \in Seq(1 .. Len(scopes)) /\ \E i \in DOMAIN env : IsMod(scopes, env[i])
    BY <1>5, <1>6 DEF FuncOK
<1>10. Waits(frames[Len(frames)], c, scopes)
    BY <1>1, <1>4, TopWaits DEF Calling
<1>11. DOMAIN Nothing = {}
    BY DEF Nothing
<1>12. k \in 0 .. Len(fu) /\ k # 0
    BY <1>7, <1>8
<1>13. frames' = Append(frames, NewFrame(scopes, k)) /\ scopes' = Append(scopes, NewScope(u, Nothing, env))
    BY <1>1 DEF Push, NewFrame, NewScope
<1> HIDE DEF k, u
<1>14. InvOf(c, Append(frames, NewFrame(scopes, k)), Append(scopes, NewScope(u, Nothing, env)), fu)
    BY <1>4, <1>6, <1>8, <1>9, <1>10, <1>11, <1>12, PushKeeps
<1>15. body' = c /\ funcs' = fu
    BY <1>2 DEF c, f, fu, u
<1> QED BY <1>13, <1>14, <1>15 DEF NamesInv

(* A file has a module scope of its own. *)
LEMMA ImportStep ==
    ASSUME NamesInv, Import
    PROVE  NamesInv'
<1> DEFINE u == Op[2]
           none == <<>>
<1>1. ~AtEnd /\ Op[1] = "import" /\ u \in Units /\ Push(u, 0, none, Nothing) /\ funcs' = funcs
    BY DEF Import, Is
<1>2. PICK code \in Shown(u) : body' = With(body, u, code)
    BY DEF Import
<1>3. Kind[u] = "module"
    BY <1>1, OpIs DEF Formed
<1> DEFINE c == With(body, u, code)
<1>4. BodiesGrow(body, c) /\ u \in DOMAIN c /\ InvOf(c, frames, scopes, funcs)
    BY <1>1, ShownKeeps
<1>5. Waits(frames[Len(frames)], c, scopes)
    BY <1>1, <1>4, TopWaits DEF Calling
<1>6. body' = c
    BY <1>2
<1> HIDE DEF c
<1>7. frames' = Append(frames, NewFrame(scopes, 0)) /\ scopes' = Append(scopes, NewScope(u, Nothing, none))
    BY <1>1 DEF Push, NewFrame, NewScope
<1>8. DOMAIN Nothing = {} /\ none \in Seq(1 .. Len(scopes)) /\ none = <<>> /\ 0 \in 0 .. Len(funcs)
    BY DEF Nothing, NamesInv, InvOf, FuncsOK
<1> HIDE DEF u, none
<1>9. InvOf(c, Append(frames, NewFrame(scopes, 0)), Append(scopes, NewScope(u, Nothing, none)), funcs)
    BY <1>3, <1>4, <1>5, <1>8, PushKeeps
<1> QED BY <1>1, <1>6, <1>7, <1>9 DEF NamesInv

(* A registered module is only stored. *)
LEMMA RegisteredStep ==
    ASSUME NamesInv, ImportRegistered
    PROVE  NamesInv'
<1>1. ~AtEnd /\ Op[2] \in Named(Op)
    BY DEF ImportRegistered, Is, Named
<1>2. Sound(<<"registered", Op[2]>>, Len(scopes), Len(funcs))
    BY DEF Sound
<1>3. SetVal(Len(frames), Op[2], <<"registered", Op[2]>>) /\ Step /\ body' = body
    BY DEF ImportRegistered
<1> QED BY <1>1, <1>2, <1>3, SetValKeeps

(* A call of a C function returns at once. *)
LEMMA NativeStep ==
    ASSUME NamesInv, CallNative
    PROVE  NamesInv'
<1>1. ~AtEnd /\ Step /\ body' = body
    BY DEF CallNative, Is
<1>2. CASE Op[1] = "get"
    <2>1. Op[2] \in Named(Op)
        BY <1>2 DEF Named, Stores
    <2>2. Sound(<<"made", Top.scope, Top.pc>>, Len(scopes), Len(funcs))
        BY DEF Sound
    <2>3. SetVal(Len(frames), Op[2], <<"made", Top.scope, Top.pc>>)
        BY <1>2 DEF CallNative
    <2> QED BY <1>1, <2>1, <2>2, <2>3, SetValKeeps
<1>3. CASE Op[1] # "get"
    BY <1>1, <1>3, SteppedKeeps DEF CallNative
<1> QED BY <1>2, <1>3

(* A call begins with the captured values and the scopes around the function. *)
LEMMA CallStep ==
    ASSUME NamesInv, Call
    PROVE  NamesInv'
<1>1. ~AtEnd /\ Op[1] \in Calling
    BY DEF Call, Is, Calling
<1>2. CASE Callee[1] # "function"
    BY <1>2, StoppedKeeps DEF Call, Stop
<1>3. CASE Callee[1] = "function"
    <2> DEFINE k == Callee[2]
               fn == funcs[k]
               u == fn.unit
               env == fn.env
               lc == [n \in Params[u] |-> <<"value", Len(scopes) + 1, 0>>]
    <2>1. Push(u, k, env, lc) /\ UNCHANGED <<body, funcs>>
        BY <1>3 DEF Call
    <2>2. k \in 1 .. Len(funcs)
        BY <1>3, CalleeSound DEF Sound
    <2> HIDE DEF k
    <2>3. FuncOK(fn, body, scopes, Len(funcs)) /\ Len(funcs) \in Nat
        BY <2>2 DEF NamesInv, InvOf, FuncsOK
    <2>4. u \in DOMAIN body /\ env \in Seq(1 .. Len(scopes)) /\ \E i \in DOMAIN env : IsMod(scopes, env[i])
        BY <2>3 DEF FuncOK
    <2>5. k \in 0 .. Len(funcs) /\ k # 0
        BY <2>2, <2>3
    <2>6. funcs[k].unit = u /\ funcs[k].env = env
        OBVIOUS
    <2> HIDE DEF fn, u, env
    <2>7. DOMAIN lc \subseteq OwnIn(body, u)
        BY DEF OwnIn
    <2>8. \A n \in DOMAIN lc : Sound(lc[n], Len(scopes) + 1, Len(funcs))
        BY DEF Sound
    <2>9. BodiesGrow(body, body)
        BY DEF BodiesGrow
    <2>10. Waits(frames[Len(frames)], body, scopes)
        BY <1>1, <2>9, TopWaits
    <2>11. frames' = Append(frames, NewFrame(scopes, k)) /\ scopes' = Append(scopes, NewScope(u, lc, env))
        BY <2>1 DEF Push, NewFrame, NewScope
    <2> HIDE DEF lc
    <2>12. InvOf(body, Append(frames, NewFrame(scopes, k)), Append(scopes, NewScope(u, lc, env)), funcs)
        BY <2>4, <2>5, <2>6, <2>7, <2>8, <2>10, PushKeeps DEF NamesInv
    <2> QED BY <2>1, <2>11, <2>12 DEF NamesInv
<1> QED BY <1>2, <1>3

(* A return gives the value of a name to the frame below. *)
LEMMA ReturnStep ==
    ASSUME NamesInv, Return
    PROVE  NamesInv'
<1>1. ~AtEnd /\ Op[1] = "ret"
    BY DEF Return, Is
<1>2. CASE Finds(Op[2]) = Unbound
    BY <1>2, StoppedKeeps DEF Return, Stop
<1>3. CASE Finds(Op[2]) # Unbound
    <2>1. Kind[Here.unit] = "def"
        BY <1>1, OpIs DEF Formed
    <2>2. Kind[scopes[1].unit] = "module"
        BY DEF NamesInv, InvOf, ScopesOK, IsMod
    <2>3. Len(frames) # 1
        BY <2>1, <2>2, TopIs
    <2>4. Back(Finds(Op[2]))
        BY <1>3 DEF Return
    <2> QED BY <2>3, <2>4, FindsSound, BackKeeps
<1> QED BY <1>2, <1>3

(* The end of a body gives its value to the frame below, or ends the run. *)
LEMMA EndStep ==
    ASSUME NamesInv, End
    PROVE  NamesInv'
<1>1. CASE Len(frames) = 1
    BY <1>1, StoppedKeeps DEF End, Stop
<1>2. CASE Len(frames) # 1
    <2> DEFINE v == IF Kind[Here.unit] = "def" THEN <<"none">> ELSE <<Kind[Here.unit], Top.scope>>
    <2>1. Back(v)
        BY <1>2 DEF End
    <2>2. Kind[Here.unit] \in {"def", "class", "module"} /\ Top.scope \in 1 .. Len(scopes)
        BY TopIs, NamesAssumption
    <2>3. Sound(v, Len(scopes), Len(funcs))
        BY <2>2 DEF Sound
    <2> HIDE DEF v
    <2> QED BY <1>2, <2>1, <2>3, BackKeeps
<1> QED BY <1>1, <1>2

(* Every step keeps the invariant. *)
LEMMA NamesStep ==
    ASSUME NamesInv, [NamesNext]_namevars
    PROVE  NamesInv'
<1>1. CASE Set
    BY <1>1, SetStep
<1>2. CASE LoadName
    BY <1>2, LoadStep
<1>3. CASE DelName
    BY <1>3, DelStep
<1>4. CASE Def
    BY <1>4, DefStep
<1>5. CASE Class
    BY <1>5, ClassStep
<1>6. CASE Import
    BY <1>6, ImportStep
<1>7. CASE ImportRegistered
    BY <1>7, RegisteredStep
<1>8. CASE ImportMissing
    BY <1>8, StoppedKeeps DEF ImportMissing, Stop
<1>9. CASE CallNative
    BY <1>9, NativeStep
<1>10. CASE Call
    BY <1>10, CallStep
<1>11. CASE Return
    BY <1>11, ReturnStep
<1>12. CASE End
    BY <1>12, EndStep
<1>13. CASE UNCHANGED namevars
    BY <1>13, StoppedKeeps DEF namevars
<1> QED BY <1>1, <1>2, <1>3, <1>4, <1>5, <1>6, <1>7, <1>8, <1>9, <1>10, <1>11, <1>12, <1>13 DEF NamesNext

(* What a step loads *)
LEMMA LoadsOnly ==
    ASSUME NamesInv, [NamesNext]_namevars
    PROVE  \/ seen' = seen
           \/ ~AtEnd /\ Op[2] \in Loads(Op) /\ Load(Op[2])
<1>1. CASE LoadName
    BY <1>1 DEF LoadName, Is, Loads
<1>2. CASE CallNative
    BY <1>2 DEF CallNative, Is, Loads
<1>3. CASE Call
    BY <1>3 DEF Call, Is, Loads
<1>4. CASE Return
    BY <1>4 DEF Return, Is, Loads
<1>5. CASE Set \/ DelName \/ Def \/ Class
    BY <1>5 DEF Set, DelName, Def, Class
<1>6. CASE Import \/ ImportRegistered \/ ImportMissing \/ End
    BY <1>6 DEF Import, ImportRegistered, ImportMissing, End
<1>7. CASE UNCHANGED namevars
    BY <1>7 DEF namevars
<1> QED BY <1>1, <1>2, <1>3, <1>4, <1>5, <1>6, <1>7 DEF NamesNext

(* In every script, with functions, classes and modules in each other to   *)
(* any depth, a load finds what the text means unless one of the four      *)
(* causes is there: func_scope_check, make_closure and LOAD_VAL agree with *)
(* the rule that a name belongs to the innermost function around it that   *)
(* stores to it, or to the module.                                         *)
THEOREM NamesRight == NamesSpec => []ReadsLexical
<1>1. NamesInit => NamesInv /\ ReadsLexical
    <2> SUFFICES ASSUME NamesInit PROVE NamesInv /\ ReadsLexical
        OBVIOUS
    <2>1. seen.code = seen.text
        BY DEF NamesInit
    <2> QED BY <2>1, InitNames DEF ReadsLexical
<1>2. NamesInv /\ ReadsLexical /\ [NamesNext]_namevars => (NamesInv /\ ReadsLexical)'
    <2> SUFFICES ASSUME NamesInv, ReadsLexical, [NamesNext]_namevars
                 PROVE  NamesInv' /\ ReadsLexical'
        OBVIOUS
    <2>1. NamesInv'
        BY NamesStep
    <2>2. CASE seen' = seen
        BY <2>1, <2>2 DEF ReadsLexical
    <2>3. CASE ~AtEnd /\ Op[2] \in Loads(Op) /\ Load(Op[2])
        <3>1. Causes(Op[2]) = {} => Finds(Op[2]) = Means(Op[2])
            BY <2>3, ReadRight
        <3>2. /\ seen'.code = Finds(Op[2]) /\ seen'.text = Means(Op[2])
              /\ seen'.causes = Causes(Op[2])
            BY <2>3 DEF Load
        <3> QED BY <2>1, <3>1, <3>2 DEF ReadsLexical
    <2> QED BY <2>1, <2>2, <2>3, LoadsOnly
<1>3. NamesSpec => [](NamesInv /\ ReadsLexical)
    BY <1>1, <1>2, PTL DEF NamesSpec
<1> QED BY <1>3, PTL

=============================================================================
