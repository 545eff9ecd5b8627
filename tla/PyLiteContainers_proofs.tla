---------------------- MODULE PyLiteContainers_proofs ----------------------
(***************************************************************************)
(* Hash tables of any size, with any keys, hashes and calls: the table     *)
(* implements a partial function, lookups find what is stored, iterators   *)
(* yield every element once.  Lists of any length, and slices of them with *)
(* any bounds and any step.                                                *)
(***************************************************************************)
EXTENDS PyLiteHash, PyLiteList, SequenceTheorems, FiniteSetTheorems, WellFoundedInduction, TLAPS

-----------------------------------------------------------------------------
(* Least elements, in place of induction *)
Below == {ss \in Nat \X Nat : ss[1] < ss[2]}

(* A set of natural numbers has a least element. *)
LEMMA LeastOf ==
    ASSUME NEW T \in SUBSET Nat, T # {}
    PROVE  \E x \in T : \A y \in T : x <= y
<1>1. IsWellFoundedOn(Below, Nat)
    BY NatLessThanWellFounded DEF OpToRel, Below
<1>2. PICK x \in T : \A y \in T : <<y, x>> \notin Below
    BY <1>1, WFMin, Zenon
<1>3. ASSUME NEW y \in T PROVE x <= y
    <2>1. <<y, x>> \notin Below
        BY <1>2
    <2>2. ~(y < x)
        BY <2>1 DEF Below
    <2> QED BY <2>2
<1> QED BY <1>2, <1>3

-----------------------------------------------------------------------------
(* Hash tables: the inductive invariant, in six parts. *)

(* The state of a table and of the call that changes it *)
Shape ==
    /\ buckets \in Nat /\ (buckets = 0 \/ buckets \in Powers)
    /\ flag \in [Bucket -> {"live", "deleted", "empty"}]
    /\ phase \in {"idle", "put", "rehash", "insert"}
    /\ DOMAIN todo \in SUBSET Key /\ todo \in [DOMAIN todo -> Value]
    /\ phase = "idle" => DOMAIN todo = {}

(* The live buckets, those of the new table and the element in hand: no    *)
(* two have a key in common                                                *)
Elements ==
    /\ \A i \in Live \cup taken : slot[i] \in Entry
    /\ \A i, j \in Live \cup taken : slot[i].key = slot[j].key => i = j
    /\ carried # None => \A i \in Live \cup taken : slot[i].key # carried.key

(* In n buckets with the flags f and the slots m: the walk for k ends at i, *)
(* and it leads there                                                      *)
Halts(f, m, k, i) == f[i] = "empty" \/ (f[i] = "live" /\ m[i].key = k)
Leads(f, m, n, k, i) ==
    \E s \in 0 .. n - 1 : /\ i = Site(k, s, n) /\ Halts(f, m, k, i)
                          /\ \A t \in 0 .. s - 1 : ~Halts(f, m, k, Site(k, t, n))

(* Outside a rehash the walk for each key that is stored ends at its bucket *)
Settled ==
    phase # "rehash" =>
        /\ taken = {} /\ carried = None /\ DOMAIN slot = Bucket
        /\ \A i \in Live : Leads(flag, slot, buckets, slot[i].key, i)

(* In a rehash the new table fills up: the probe sequence of each key in   *)
(* it leads through buckets in use to its own                              *)
InMotion ==
    phase = "rehash" =>
        /\ target \in Powers /\ buckets <= target /\ visit \in 0 .. buckets
        /\ taken \in SUBSET (0 .. target - 1) /\ DOMAIN slot = 0 .. target - 1
        /\ carried \in Entry \cup {None}
        /\ \A i \in Live : i >= visit /\ i \notin taken
        /\ \A i \in taken : \E s \in 0 .. target - 1 :
              /\ i = Site(slot[i].key, s, target)
              /\ \A t \in 0 .. s - 1 : Site(slot[i].key, t, target) \in taken \ {i}

(* size counts the elements, wherever they are *)
Counted ==
    size = Cardinality(Live) + Cardinality(taken) + IF carried = None THEN 0 ELSE 1

(* An iterator that stands on one of the places of P *)
IterOver(P) == [on : {TRUE}, items : BOOLEAN, at : P, count : Nat, seen : SUBSET Key,
                moved : SUBSET Key, again : BOOLEAN, null : BOOLEAN, lost : BOOLEAN]

(* What an iterator has seen lies before it.  While nothing is removed the *)
(* table can only have grown; where it has not grown either, the iterator  *)
(* has seen all that lies before it and stands on an element or at the end *)
Iterating ==
    /\ it = NoIter \/ it \in IterOver(0 .. buckets)
    /\ it.on =>
         /\ phase # "rehash" /\ ~it.again
         /\ it.lost /\ it.items => buckets \notin 1 .. 15
         /\ \A k \in it.seen : \E i \in Live : i < it.at /\ slot[i].key = k
         /\ it.moved = {} =>
              /\ it.count <= size
              /\ it.count = size =>
                   /\ \A i \in Live : i < it.at => slot[i].key \in it.seen
                   /\ it.at \in Live \cup {buckets}
                   /\ it.null \/ it.lost => it.at = buckets

HashInv == Shape /\ Elements /\ Settled /\ InMotion /\ Counted /\ Iterating

-----------------------------------------------------------------------------
(* The geometry of a table *)

(* Table sizes are even. *)
LEMMA PowersEven == \A p \in Powers : p \in Nat /\ p >= 4 /\ p % 2 = 0
BY HashAssumption DEF Powers

(* Rounding up gives a size that is large enough. *)
LEMMA RoundUpIs ==
    ASSUME NEW n \in Int, Fits(n)
    PROVE  RoundUp(n) \in Powers /\ RoundUp(n) >= n
<1> DEFINE T == {p \in Powers : p >= n}
<1>1. T \in SUBSET Nat /\ T # {}
    BY PowersEven DEF Fits
<1>2. PICK p \in T : \A q \in T : p <= q
    BY <1>1, LeastOf
<1>3. p \in Powers /\ p >= n /\ \A q \in Powers : q >= n => p <= q
    BY <1>2
<1> QED BY <1>3 DEF RoundUp

(* A rehash never makes a table smaller. *)
LEMMA WantedRoom ==
    ASSUME Shape, size \in Int, Fits(Wished)
    PROVE  Wanted \in Powers /\ buckets <= Wanted
<1>1. buckets \in Nat /\ (buckets = 0 \/ buckets \in Powers)
    BY DEF Shape
<1>2. Wished \in Int /\ Wished >= buckets - 1
    BY <1>1 DEF Wished
<1>3. Wanted \in Powers /\ Wanted >= Wished
    BY <1>2, RoundUpIs DEF Wanted
<1>4. Wanted \in Nat /\ Wanted >= 4 /\ Wanted % 2 = 0
    BY <1>3, PowersEven
<1>5. CASE buckets = 0
    BY <1>3, <1>4, <1>5
<1>6. CASE buckets \in Powers
    <2>1. buckets % 2 = 0
        BY <1>6, PowersEven
    <2>2. Wanted # buckets - 1
        BY <1>1, <1>4, <2>1
    <2> QED BY <1>1, <1>2, <1>3, <1>4, <2>2
<1> QED BY <1>1, <1>5, <1>6

(* Probes stay inside the table. *)
LEMMA SiteIn ==
    ASSUME NEW k \in Key, NEW s \in Nat, NEW n \in Nat \ {0}
    PROVE  Site(k, s, n) \in 0 .. n - 1
<1>1. Hash[k] \in Nat
    BY HashAssumption
<1>2. s * (s + 1) \in Int
    BY SMTT(20)
<1>3. (s * (s + 1)) \div 2 \in Int
    BY <1>2
<1>4. Hash[k] + (s * (s + 1)) \div 2 \in Int
    BY <1>1, <1>3
<1>5. \A m \in Int : m % n \in 0 .. n - 1
    OBVIOUS
<1> QED BY <1>4, <1>5 DEF Site

(* A walk stops at one step at most. *)
LEMMA OneStop ==
    ASSUME NEW k, NEW s, NEW t, buckets \in Nat, StopsAt(k, s), StopsAt(k, t)
    PROVE  s = t
<1>1. s \in Nat /\ t \in Nat
    BY DEF StopsAt, Bucket
<1>2. ~(t < s) /\ ~(s < t)
    BY <1>1 DEF StopsAt
<1> QED BY <1>1, <1>2

(* What changes no stop leaves a walk as it is. *)
LEMMA LeadsOn ==
    ASSUME NEW f, NEW m, NEW f2, NEW m2, NEW n \in Nat, NEW k \in Key, NEW i,
           Leads(f, m, n, k, i), Halts(f2, m2, k, i),
           \A j \in 0 .. n - 1 : ~Halts(f, m, k, j) => ~Halts(f2, m2, k, j)
    PROVE  Leads(f2, m2, n, k, i)
<1>1. PICK s \in 0 .. n - 1 : /\ i = Site(k, s, n)
                              /\ \A t \in 0 .. s - 1 : ~Halts(f, m, k, Site(k, t, n))
    BY DEF Leads
<1>2. ASSUME NEW t \in 0 .. s - 1 PROVE ~Halts(f2, m2, k, Site(k, t, n))
    <2>1. Site(k, t, n) \in 0 .. n - 1
        BY SiteIn
    <2> QED BY <1>1, <2>1
<1> QED BY <1>1, <1>2 DEF Leads

(* A walk does not end before step s. *)
Passes(f, m, n, k, s) == \A t \in 0 .. s - 1 : ~Halts(f, m, k, Site(k, t, n))

(* A key that is put where its walk passes is found there.                 *)
LEMMA LeadsTo ==
    ASSUME NEW f, NEW m, NEW f2, NEW m2, NEW n \in Nat, NEW k \in Key, NEW i,
           NEW s \in 0 .. n - 1, Passes(f, m, n, k, s),
           NEW v \in 0 .. s, i = Site(k, v, n), Halts(f2, m2, k, i),
           \A j \in 0 .. n - 1 : j # i => f2[j] = f[j] /\ m2[j] = m[j]
    PROVE  Leads(f2, m2, n, k, i)
<1> DEFINE T == {u \in 0 .. s : i = Site(k, u, n)}
<1>1. T \in SUBSET Nat /\ T # {}
    OBVIOUS
<1>2. PICK u \in T : \A t \in T : u <= t
    BY <1>1, LeastOf
<1>3. u \in 0 .. n - 1 /\ u <= s /\ i = Site(k, u, n)
    BY <1>2
<1>4. ASSUME NEW t \in 0 .. u - 1 PROVE ~Halts(f2, m2, k, Site(k, t, n))
    <2>1. t \in 0 .. s - 1 /\ t \in 0 .. s /\ t \in Nat /\ t \notin T
        BY <1>2, <1>3
    <2>2. Site(k, t, n) # i /\ Site(k, t, n) \in 0 .. n - 1
        BY <2>1, SiteIn
    <2> QED BY <2>1, <2>2 DEF Halts, Passes
<1> QED BY <1>3, <1>4 DEF Leads

-----------------------------------------------------------------------------
(* What the invariant says of the sets that are counted. *)
LEMMA Sets ==
    ASSUME HashInv
    PROVE  /\ Live \in SUBSET Bucket /\ IsFiniteSet(Live) /\ Cardinality(Live) \in Nat
           /\ IsFiniteSet(taken) /\ Cardinality(taken) \in Nat
           /\ size \in Nat /\ Bucket \in SUBSET Nat
           /\ \A i \in Live \cup taken : slot[i].key \in Key
<1>1. buckets \in Nat
    BY DEF HashInv, Shape
<1>2. IsFiniteSet(Bucket) /\ Bucket \in SUBSET Nat
    BY <1>1, FS_Interval DEF Bucket
<1>3. Live \in SUBSET Bucket
    BY DEF Live
<1>4. IsFiniteSet(Live)
    BY <1>2, <1>3, FS_Subset
<1>5. IsFiniteSet(taken)
    <2>1. CASE phase # "rehash"
        <3>1. taken = {}
            BY <2>1 DEF HashInv, Settled
        <3> QED BY <3>1, FS_EmptySet
    <2>2. CASE phase = "rehash"
        <3>1. target \in Powers /\ taken \in SUBSET (0 .. target - 1)
            BY <2>2 DEF HashInv, InMotion
        <3>2. IsFiniteSet(0 .. target - 1)
            BY <3>1, PowersEven, FS_Interval
        <3> QED BY <3>1, <3>2, FS_Subset
    <2> QED BY <2>1, <2>2
<1>6. Cardinality(Live) \in Nat /\ Cardinality(taken) \in Nat
    BY <1>4, <1>5, FS_CardinalityType
<1>7. size \in Nat
    BY <1>6 DEF HashInv, Counted
<1>8. \A i \in Live \cup taken : slot[i].key \in Key
    BY DEF HashInv, Elements, Entry
<1> QED BY <1>2, <1>3, <1>4, <1>5, <1>6, <1>7, <1>8

(* An empty table is right. *)
LEMMA InitHash == HashInit => HashInv
<1> SUFFICES ASSUME HashInit PROVE HashInv
    OBVIOUS
<1> USE DEF HashInit, TableInit
<1>1. Bucket = {} /\ Live = {}
    BY DEF Bucket, Live
<1>2. Shape
    BY <1>1 DEF Shape
<1>3. Elements
    BY <1>1 DEF Elements
<1>4. Settled /\ InMotion
    BY <1>1 DEF Settled, InMotion
<1>5. Counted
    BY <1>1, FS_EmptySet DEF Counted
<1>6. Iterating
    BY DEF Iterating, NoIter
<1> QED BY <1>2, <1>3, <1>4, <1>5, <1>6 DEF HashInv

(* What does not touch the table leaves it right. *)
LEMMA Untouched ==
    ASSUME HashInv, UNCHANGED <<tvars, rvars>>, phase = "rehash" <=> phase' = "rehash"
    PROVE  /\ Elements' /\ Settled' /\ InMotion' /\ Counted'
           /\ Bucket' = Bucket /\ Live' = Live
<1> USE DEF tvars, rvars
<1>1. Bucket' = Bucket /\ Live' = Live
    BY DEF Bucket, Live, IsLive
<1>2. Elements'
    BY <1>1 DEF HashInv, Elements
<1>4. Settled'
    BY <1>1 DEF HashInv, Settled
<1>5. InMotion'
    BY <1>1 DEF HashInv, InMotion
<1>6. Counted'
    BY <1>1 DEF HashInv, Counted
<1> QED BY <1>1, <1>2, <1>4, <1>5, <1>6

-----------------------------------------------------------------------------
(* The actions, one by one. *)

(* No element in hand is not an element. *)
LEMMA NoneIsNone == None \notin Entry
BY DEF None, Entry

(* A call that stores only queues its pairs. *)
LEMMA StoreKeeps ==
    ASSUME HashInv, NEW pairs \in Batch, Store(pairs)
    PROVE  HashInv'
<1> USE DEF Store, Idle
<1>1. Elements' /\ Settled' /\ InMotion' /\ Counted' /\ Bucket' = Bucket /\ Live' = Live
    BY Untouched DEF tvars, rvars
<1>2. Shape'
    BY <1>1, HashAssumption DEF HashInv, Shape
<1>3. Iterating'
    BY <1>1 DEF HashInv, Iterating
<1> QED BY <1>1, <1>2, <1>3 DEF HashInv

(* With nothing left to store the call is over, and the table as it was. *)
LEMMA StoredKeeps ==
    ASSUME HashInv, Stored
    PROVE  HashInv'
<1> USE DEF Stored
<1>1. Elements' /\ Settled' /\ InMotion' /\ Counted' /\ Bucket' = Bucket /\ Live' = Live
    BY Untouched DEF tvars, rvars
<1>2. Shape'
    BY <1>1 DEF HashInv, Shape
<1>3. Iterating'
    BY <1>1 DEF HashInv, Iterating
<1> QED BY <1>1, <1>2, <1>3 DEF HashInv

(* The first live bucket after one. *)
LEMMA AfterIs ==
    ASSUME buckets \in Nat, NEW i \in -1 .. buckets - 1
    PROVE  /\ After(i) \in Live \cup {buckets} /\ After(i) \in 0 .. buckets
           /\ i < After(i) /\ \A j \in Live : j > i => After(i) <= j
<1> DEFINE rest == {j \in Live : j > i}
<1>1. rest \in SUBSET Nat /\ Live \in SUBSET (0 .. buckets - 1)
    BY DEF Live, Bucket
<1>2. After(i) = IF rest = {} THEN buckets ELSE CHOOSE j \in rest : \A l \in rest : j <= l
    BY DEF After
<1>3. CASE rest = {}
    <2>1. \A j \in Live : ~(j > i)
        BY <1>3
    <2>2. After(i) = buckets
        BY <1>2, <1>3
    <2> HIDE DEF rest
    <2> QED BY <2>1, <2>2
<1>4. CASE rest # {}
    <2>1. \E j \in rest : \A l \in rest : j <= l
        BY <1>1, <1>4, LeastOf
    <2>2. After(i) \in rest /\ \A l \in rest : After(i) <= l
        <3> HIDE DEF rest
        <3> QED BY <1>2, <1>4, <2>1
    <2> QED BY <1>1, <2>2
<1> QED BY <1>3, <1>4

(* A new iterator has seen nothing and has everything before it. *)
LEMMA IterateKeeps ==
    ASSUME HashInv, Iterate
    PROVE  HashInv'
<1> USE DEF Iterate, Idle
<1>1. Elements' /\ Settled' /\ InMotion' /\ Counted' /\ Bucket' = Bucket /\ Live' = Live
    BY Untouched DEF tvars, rvars
<1>2. Shape'
    BY <1>1 DEF HashInv, Shape
<1>3. Iterating'
    <2>1. buckets \in Nat /\ Live \in SUBSET Bucket
        BY Sets DEF HashInv, Shape
    <2>2. -1 \in -1 .. buckets - 1
        BY <2>1
    <2>3. /\ After(-1) \in Live \cup {buckets} /\ After(-1) \in 0 .. buckets
          /\ \A j \in Live : j > -1 => After(-1) <= j
        BY <2>1, <2>2, AfterIs
    <2>4. \A j \in Live : ~(j < After(-1))
        BY <2>1, <2>3 DEF Bucket
    <2>5. size \in Nat
        BY Sets
    <2> DEFINE a == After(-1)
    <2> HIDE DEF a
    <2>6. PICK items \in BOOLEAN :
          /\ it' = [on |-> TRUE, items |-> items, at |-> a, count |-> size,
                    seen |-> {}, moved |-> {}, again |-> FALSE, null |-> FALSE, lost |-> FALSE]
          /\ a \in Live \cup {buckets} /\ a \in 0 .. buckets /\ \A j \in Live : ~(j < a)
        BY <2>3, <2>4 DEF a
    <2>7. it' \in IterOver(0 .. buckets')
        BY <2>5, <2>6 DEF IterOver
    <2> QED BY <1>1, <2>5, <2>6, <2>7 DEF Iterating
<1> QED BY <1>1, <1>2, <1>3 DEF HashInv

(* An iterator moves to the next live bucket behind it, so no key comes twice. *)
LEMMA IterNextKeeps ==
    ASSUME HashInv, IterNext
    PROVE  HashInv'
<1> USE DEF IterNext, Idle
<1>1. Elements' /\ Settled' /\ InMotion' /\ Counted' /\ Bucket' = Bucket /\ Live' = Live
    BY Untouched DEF tvars, rvars
<1>2. Shape'
    BY <1>1 DEF HashInv, Shape
<1> SUFFICES Iterating'
    BY <1>1, <1>2 DEF HashInv
<1>3. buckets \in Nat /\ Live \in SUBSET Bucket /\ size \in Nat /\ size' = size /\ buckets' = buckets
    BY Sets DEF HashInv, Shape
<1>4. it.on /\ ~it.null /\ ~it.lost /\ it \in IterOver(0 .. buckets)
    BY DEF HashInv, Iterating, NoIter
<1>a. ~it.again /\ \A k \in it.seen : \E i \in Live : i < it.at /\ slot[i].key = k
    BY <1>4 DEF HashInv, Iterating
<1>b. it.moved = {} =>
              /\ it.count <= size
              /\ it.count = size =>
                   /\ \A i \in Live : i < it.at => slot[i].key \in it.seen
                   /\ it.at \in Live \cup {buckets}
    BY <1>4 DEF HashInv, Iterating
<1>c. it.at \in 0 .. buckets /\ it.count \in Nat /\ it.again \in BOOLEAN
    BY <1>4 DEF IterOver
<1>d. it.at \in Live => it.at # buckets
    BY <1>3 DEF Bucket
<1>5. CASE size = it.count /\ it.at \in Live
    <2> DEFINE i == it.at   k == slot[i].key   a == After(i)
    <2>1. it' = [it EXCEPT !.at = a, !.seen = @ \cup ({k} \ it.moved), !.again = @ \/ k \in it.seen]
        BY <1>5, <1>d
    <2>2. k \in Key /\ i \in 0 .. buckets - 1 /\ i \in Live
        BY <1>3, <1>5, Sets DEF Bucket
    <2>3. /\ a \in Live \cup {buckets} /\ a \in 0 .. buckets
          /\ i < a /\ \A j \in Live : j > i => a <= j
        BY <1>3, <2>2, AfterIs
    <2>4. k \notin it.seen
        <3> SUFFICES ASSUME k \in it.seen PROVE FALSE
            OBVIOUS
        <3>1. PICK j \in Live : j < it.at /\ slot[j].key = k
            <4> HIDE DEF k
            <4> QED BY <1>a
        <3>2. j = i
            BY <2>2, <3>1 DEF HashInv, Elements
        <3> QED BY <2>2, <3>1, <3>2
    <2>5. \A j \in Live : j < a => j < i \/ j = i
        BY <1>3, <2>2, <2>3 DEF Bucket
    <2>6. \A j \in Live : j < i => j < a
        BY <1>3, <2>2, <2>3 DEF Bucket
    <2> HIDE DEF a
    <2>b. it' = [it EXCEPT !.at = a, !.seen = it.seen \cup ({k} \ it.moved), !.again = FALSE]
        BY <1>4, <1>a, <1>c, <2>1, <2>4 DEF IterOver
    <2>7. it' \in IterOver(0 .. buckets)
        <3> DEFINE seen == it.seen \cup ({k} \ it.moved)
        <3>1. seen \in SUBSET Key
            BY <1>4, <2>2 DEF IterOver
        <3> HIDE DEF seen, k, IterNext
        <3>2. it' = [it EXCEPT !.at = a, !.seen = seen, !.again = FALSE]
            BY <2>b DEF seen
        <3> QED BY <1>4, <2>3, <3>1, <3>2 DEF IterOver
    <2>c. it'.seen = it.seen \cup ({k} \ it.moved) /\ it'.at = a /\ it'.again = (it.again \/ k \in it.seen)
        BY <1>4, <2>1 DEF IterOver
    <2>d. it'.on = it.on /\ it'.null = it.null /\ it'.lost = it.lost /\ it'.count = it.count /\ it'.moved = it.moved
        BY <1>4, <2>1 DEF IterOver
    <2>e. ~it'.again
        BY <1>a, <2>4, <2>c
    <2>8. \A l \in it'.seen : \E j \in Live : j < a /\ slot[j].key = l
        BY <1>a, <2>2, <2>3, <2>6, <2>c
    <2>9. it.moved = {} => \A j \in Live : j < a => slot[j].key \in it'.seen
        BY <1>b, <1>5, <2>5, <2>c
    <2> HIDE DEF k
    <2>f. it'.moved = {} => it'.count <= size'
        BY <1>3, <1>b, <2>d
    <2>g. /\ ~it'.lost
          /\ it'.moved = {} =>
             /\ \A j \in Live' : j < it'.at => slot'[j].key \in it'.seen
             /\ it'.at \in Live' \cup {buckets'}
             /\ ~it'.null
        BY <1>1, <1>3, <1>4, <2>3, <2>9, <2>c, <2>d
    <2>h. \A l \in it'.seen : \E j \in Live' : j < it'.at /\ slot'[j].key = l
        BY <1>1, <2>8, <2>c
    <2>i. phase' # "rehash" /\ it' \in IterOver(0 .. buckets')
        BY <1>3, <2>7
    <2> HIDE DEF IterNext
    <2> QED BY <2>e, <2>f, <2>g, <2>h, <2>i DEF Iterating
<1>6. CASE ~(size = it.count /\ it.at \in Live)
    <2>0. it.moved = {} /\ it.count = size => it.at = buckets
        BY <1>6, <1>b
    <2>1. \/ it' = [it EXCEPT !.null = TRUE]
          \/ it' = [it EXCEPT !.lost = TRUE] /\ (it.items => ~FlagsHave(buckets))
        BY <1>6
    <2>2. it' \in IterOver(0 .. buckets')
        BY <1>3, <1>4, <2>1 DEF IterOver
    <2>3. it'.seen = it.seen /\ it'.at = it.at /\ it'.again = it.again
        BY <1>4, <2>1 DEF IterOver
    <2>4. it'.on = it.on /\ it'.count = it.count /\ it'.moved = it.moved /\ it'.items = it.items
        BY <1>4, <2>1 DEF IterOver
    <2>8. it' = [it EXCEPT !.null = TRUE] => ~it'.lost
        BY <1>4 DEF IterOver
    <2>9. it'.lost /\ it'.items => buckets' \notin 1 .. 15
        <3>1. it'.lost /\ it'.items => ~FlagsHave(buckets)
            BY <2>1, <2>4, <2>8
        <3>2. buckets \in 1 .. 15 => FlagsHave(buckets)
            BY <1>3 DEF FlagsHave
        <3> HIDE DEF IterNext
        <3> QED BY <1>3, <3>1, <3>2
    <2>5. \A k \in it'.seen : \E i \in Live' : i < it'.at /\ slot'[i].key = k
        BY <1>1, <1>a, <2>3
    <2>6. it'.moved = {} =>
              /\ it'.count <= size'
              /\ it'.count = size' =>
                   /\ \A i \in Live' : i < it'.at => slot'[i].key \in it'.seen
                   /\ it'.at \in Live' \cup {buckets'}
                   /\ it'.at = buckets'
        BY <1>1, <1>3, <1>b, <2>0, <2>3, <2>4
    <2>7. phase' # "rehash" /\ ~it'.again
        BY <1>a, <2>3
    <2> HIDE DEF IterNext
    <2> QED BY <2>2, <2>5, <2>6, <2>7, <2>9 DEF Iterating
<1> QED BY <1>5, <1>6

(* No iterator is right. *)
LEMMA NoIterIsRight == /\ it' = NoIter => Iterating'
                       /\ HashInv /\ phase = "rehash" => it = NoIter
<1>1. ASSUME it' = NoIter PROVE Iterating'
    <2>1. ~it'.on
        BY <1>1 DEF NoIter
    <2> QED BY <1>1, <2>1 DEF Iterating
<1>2. ASSUME HashInv, phase = "rehash" PROVE it = NoIter
    <2>1. ~it.on /\ (it = NoIter \/ it \in IterOver(0 .. buckets))
        BY <1>2 DEF HashInv, Iterating
    <2> QED BY <2>1 DEF IterOver
<1> QED BY <1>1, <1>2

(* A rehash begins with every entry in its old place and none moved. *)
LEMMA ResizeForKeeps ==
    ASSUME HashInv, ResizeFor
    PROVE  HashInv'
<1> USE DEF ResizeFor
<1>1. Wanted \in Powers /\ buckets <= Wanted
    BY WantedRoom, Sets DEF HashInv
<1>2. Wanted \in Nat /\ buckets \in Nat /\ Bucket \in SUBSET (0 .. Wanted - 1)
    BY <1>1, PowersEven DEF HashInv, Shape, Bucket
<1>3. Live' = Live /\ Bucket' = Bucket /\ taken = {} /\ taken' = {} /\ carried = None /\ carried' = None
    BY DEF Live, Bucket, IsLive, HashInv, Settled
<1>4. /\ DOMAIN slot' = 0 .. Wanted - 1
      /\ \A i \in Live : slot'[i] = slot[i]
    BY <1>2, Sets
<1>5. Shape'
    BY <1>3 DEF HashInv, Shape
<1>6. Elements'
    <2>1. \A i \in Live' \cup taken' : i \in Live \cup taken /\ slot'[i] = slot[i]
        BY <1>3, <1>4
    <2>2. /\ \A i \in Live \cup taken : slot[i] \in Entry
          /\ \A i, j \in Live \cup taken : slot[i].key = slot[j].key => i = j
        BY DEF HashInv, Elements
    <2> HIDE DEF ResizeFor
    <2> QED BY <1>3, <2>1, <2>2 DEF Elements
<1>7. Settled'
    BY DEF Settled
<1>8. InMotion'
    BY <1>1, <1>2, <1>3, <1>4, Sets DEF InMotion, Bucket
<1>9. Counted'
    BY <1>3 DEF HashInv, Counted
<1>10. Iterating'
    BY NoIterIsRight DEF AllMoved
<1> QED BY <1>5, <1>6, <1>7, <1>8, <1>9, <1>10 DEF HashInv

(* The entry that is taken out is in no bucket, and in motion. *)
LEMMA TakeOutKeeps ==
    ASSUME HashInv, TakeOut
    PROVE  HashInv'
<1> USE DEF TakeOut
<1>1. /\ buckets \in Nat /\ flag \in [Bucket -> {"live", "deleted", "empty"}]
      /\ visit \in Bucket /\ Bucket' = Bucket
    BY DEF HashInv, Shape, InMotion, Bucket
<1>2. /\ target \in Powers /\ buckets <= target /\ taken \in SUBSET (0 .. target - 1)
      /\ DOMAIN slot = 0 .. target - 1
      /\ \A i \in Live : i >= visit /\ i \notin taken
      /\ \A i \in taken : \E s \in 0 .. target - 1 :
            /\ i = Site(slot[i].key, s, target)
            /\ \A t \in 0 .. s - 1 : Site(slot[i].key, t, target) \in taken \ {i}
    BY DEF HashInv, InMotion
<1>3. Live \in SUBSET Bucket /\ IsFiniteSet(Live) /\ Cardinality(Live) \in Nat
      /\ Cardinality(taken) \in Nat /\ Bucket \in SUBSET Nat
    BY Sets
<1>4. target \in Nat
    BY <1>2, PowersEven
<1>5. Iterating'
    BY NoIterIsRight
<1>6. Settled'
    BY DEF Settled
<1>7. CASE IsLive(visit)
    <2>1. /\ carried' = slot[visit] /\ flag' = [flag EXCEPT ![visit] = "deleted"]
          /\ slot' = [slot EXCEPT ![visit] = None] /\ visit \in Live
        BY <1>1, <1>7 DEF Live
    <2>2. Live' = Live \ {visit}
        BY <1>1, <2>1 DEF Live, IsLive
    <2>3. \A i \in (Live \cup taken) \ {visit} : slot'[i] = slot[i]
        BY <1>2, <1>3, <2>1
    <2>4. visit \notin taken
        BY <1>2, <2>1
    <2>5. Shape'
        BY <1>1, <2>1 DEF HashInv, Shape
    <2>6. carried' \in Entry /\ carried' # None
        BY <2>1, NoneIsNone DEF HashInv, Elements
    <2>7. Elements'
        BY <2>1, <2>2, <2>3, <2>4 DEF HashInv, Elements
    <2>8. \A i \in Live' : i >= visit + 1 /\ i \notin taken
        BY <1>1, <1>2, <1>3, <2>2
    <2>9. InMotion'
        <3>1. DOMAIN slot' = 0 .. target - 1 /\ visit + 1 \in 0 .. buckets
            BY <1>1, <1>2, <2>1 DEF Bucket
        <3>2. \A i \in taken : slot'[i] = slot[i]
            BY <2>3, <2>4
        <3> QED BY <1>2, <2>6, <2>8, <3>1, <3>2 DEF InMotion
    <2>10. Counted'
        <3>1. Cardinality(Live') = Cardinality(Live) - 1
            BY <1>3, <2>1, <2>2, FS_RemoveElement
        <3> QED BY <1>3, <2>6, <3>1 DEF HashInv, Counted
    <2> QED BY <1>5, <1>6, <2>5, <2>7, <2>9, <2>10 DEF HashInv
<1>8. CASE ~IsLive(visit)
    <2>1. UNCHANGED <<carried, flag, slot, taken>>
        BY <1>8
    <2>2. Live' = Live /\ visit \notin Live
        BY <1>1, <1>8, <2>1 DEF Live, IsLive
    <2>3. Shape'
        BY <1>1, <2>1 DEF HashInv, Shape
    <2>4. Elements'
        BY <2>1, <2>2 DEF HashInv, Elements
    <2>5. \A i \in Live' : i >= visit + 1 /\ i \notin taken
        BY <1>1, <1>2, <1>3, <2>2
    <2>6. InMotion'
        <3>1. visit + 1 \in 0 .. buckets /\ carried' \in Entry \cup {None}
            BY <1>1, <2>1 DEF Bucket
        <3> QED BY <1>2, <2>1, <2>5, <3>1 DEF InMotion
    <2>7. Counted'
        BY <2>1, <2>2 DEF HashInv, Counted
    <2> QED BY <1>5, <1>6, <2>3, <2>4, <2>6, <2>7 DEF HashInv
<1> QED BY <1>7, <1>8

(* An entry is put down where its probe ends among the moved ones; one that lay there is in motion. *)
LEMMA PutDownKeeps ==
    ASSUME HashInv, PutDown
    PROVE  HashInv'
<1>1. PICK s \in 0 .. target - 1 :
         LET i == Site(carried.key, s, target)
             kicked == i < buckets /\ IsLive(i)
         IN  /\ FreeAt(carried.key, s)
             /\ taken' = taken \cup {i}
             /\ slot' = [slot EXCEPT ![i] = carried]
             /\ carried' = IF kicked THEN slot[i] ELSE None
             /\ flag' = IF kicked THEN [flag EXCEPT ![i] = "deleted"] ELSE flag
    BY DEF PutDown
<1>2. /\ phase = "rehash" /\ carried # None
      /\ UNCHANGED <<buckets, size, occupied, phase, todo, target, visit, it>>
    BY DEF PutDown
<1> DEFINE k == carried.key   i == Site(k, s, target)   kicked == i < buckets /\ IsLive(i)
<1>3. /\ target \in Powers /\ buckets <= target /\ taken \in SUBSET (0 .. target - 1)
      /\ DOMAIN slot = 0 .. target - 1 /\ visit \in 0 .. buckets
      /\ \A j \in Live : j >= visit /\ j \notin taken
      /\ \A j \in taken : \E u \in 0 .. target - 1 :
            /\ j = Site(slot[j].key, u, target)
            /\ \A t \in 0 .. u - 1 : Site(slot[j].key, t, target) \in taken \ {j}
    BY <1>2 DEF HashInv, InMotion
<1>4. carried \in Entry /\ k \in Key
    BY <1>2 DEF HashInv, InMotion, Entry
<1>5. target \in Nat \ {0} /\ buckets \in Nat
    BY <1>3, PowersEven DEF HashInv, Shape
<1>6. i \in 0 .. target - 1
    BY <1>4, <1>5, SiteIn
<1>7. i \notin taken /\ \A t \in 0 .. s - 1 : Site(k, t, target) \in taken
    BY <1>1 DEF FreeAt
<1>8. kicked <=> i \in Live
    BY <1>5, <1>6 DEF Live, Bucket
<1>9. /\ taken' = taken \cup {i} /\ slot' = [slot EXCEPT ![i] = carried]
      /\ carried' = (IF i \in Live THEN slot[i] ELSE None)
      /\ flag' = (IF i \in Live THEN [flag EXCEPT ![i] = "deleted"] ELSE flag)
    BY <1>1, <1>8
<1>10. Live' = Live \ {i} /\ Bucket' = Bucket
    <2>1. flag \in [Bucket -> {"live", "deleted", "empty"}] /\ Bucket' = Bucket
        BY <1>2 DEF HashInv, Shape, Bucket
    <2> HIDE DEF i
    <2> QED BY <1>9, <2>1 DEF Live, IsLive
<1>11. /\ Live \in SUBSET Bucket /\ IsFiniteSet(Live) /\ Cardinality(Live) \in Nat
       /\ IsFiniteSet(taken) /\ Cardinality(taken) \in Nat /\ Bucket \in SUBSET Nat
    BY Sets
<1>12. Bucket \in SUBSET (0 .. target - 1)
    BY <1>3, <1>5 DEF Bucket
<1> HIDE DEF i, kicked
<1>13. slot'[i] = carried /\ \A j \in (Live \cup taken) \ {i} : slot'[j] = slot[j]
    BY <1>3, <1>6, <1>9, <1>11, <1>12
<1>14. Shape'
    BY <1>2, <1>9, <1>10 DEF HashInv, Shape
<1>15. i \in Live => carried' \in Entry /\ carried' # None
    BY <1>9, NoneIsNone DEF HashInv, Elements
<1>16. Elements'
    <2>a. /\ \A j \in Live \cup taken : slot[j] \in Entry
          /\ \A j, l \in Live \cup taken : slot[j].key = slot[l].key => j = l
          /\ \A j \in Live \cup taken : slot[j].key # k
        BY <1>2 DEF HashInv, Elements
    <2>b. Live' \cup taken' = ((Live \cup taken) \ {i}) \cup {i}
        BY <1>9, <1>10
    <2>1. \A j \in Live' \cup taken' : slot'[j] \in Entry
        BY <1>4, <1>13, <2>a, <2>b
    <2>2. \A j, l \in Live' \cup taken' : slot'[j].key = slot'[l].key => j = l
        BY <1>13, <2>a, <2>b
    <2>3. i \in Live => \A j \in Live' \cup taken' : slot'[j].key # slot[i].key
        BY <1>13, <2>a, <2>b
    <2> QED BY <1>9, <2>1, <2>2, <2>3 DEF Elements
<1>17. InMotion'
    <2>1. taken' \in SUBSET (0 .. target - 1) /\ DOMAIN slot' = 0 .. target - 1
        BY <1>3, <1>6, <1>9
    <2>2. carried' \in Entry \cup {None}
        BY <1>9, <1>15
    <2>3. \A j \in Live' : j >= visit /\ j \notin taken'
        BY <1>3, <1>9, <1>10
    <2>4. ASSUME NEW j \in taken'
          PROVE  \E u \in 0 .. target - 1 :
                    /\ j = Site(slot'[j].key, u, target)
                    /\ \A t \in 0 .. u - 1 : Site(slot'[j].key, t, target) \in taken' \ {j}
        <3>1. CASE j = i
            <4>1. \A t \in 0 .. s - 1 : Site(k, t, target) \in taken' \ {i}
                BY <1>7, <1>9
            <4>2. i = Site(k, s, target) /\ slot'[i].key = k
                BY <1>13 DEF i
            <4> QED BY <3>1, <4>1, <4>2
        <3>2. CASE j # i
            <4>1. j \in taken /\ slot'[j] = slot[j]
                BY <1>9, <1>13, <3>2
            <4> QED BY <1>3, <1>9, <4>1
        <3> QED BY <3>1, <3>2
    <2> QED BY <1>2, <1>3, <2>1, <2>2, <2>3, <2>4 DEF InMotion
<1>18. Counted'
    <2>1. Cardinality(taken') = Cardinality(taken) + 1
        BY <1>7, <1>9, <1>11, FS_AddElement
    <2>2. size = Cardinality(Live) + Cardinality(taken) + 1
        BY <1>2 DEF HashInv, Counted
    <2>3. CASE i \in Live
        <3>1. Cardinality(Live') = Cardinality(Live) - 1
            BY <1>10, <1>11, <2>3, FS_RemoveElement
        <3> QED BY <1>2, <1>11, <1>15, <2>1, <2>2, <2>3, <3>1 DEF Counted
    <2>4. CASE i \notin Live
        <3>1. Live' = Live /\ carried' = None
            BY <1>9, <1>10, <2>4
        <3> QED BY <1>2, <1>11, <2>1, <2>2, <3>1 DEF Counted
    <2> QED BY <2>3, <2>4
<1>19. Settled'
    BY <1>2 DEF Settled
<1>20. Iterating'
    BY <1>2, NoIterIsRight
<1> QED BY <1>14, <1>16, <1>17, <1>18, <1>19, <1>20 DEF HashInv

(* When no entry is left to move, all of them lie where their probes find them. *)
LEMMA RehashedKeeps ==
    ASSUME HashInv, Rehashed
    PROVE  HashInv'
<1> USE DEF Rehashed
<1>1. /\ target \in Powers /\ taken \in SUBSET (0 .. target - 1) /\ DOMAIN slot = 0 .. target - 1
      /\ \A i \in Live : i >= visit /\ i \notin taken
      /\ \A i \in taken : \E s \in 0 .. target - 1 :
            /\ i = Site(slot[i].key, s, target)
            /\ \A t \in 0 .. s - 1 : Site(slot[i].key, t, target) \in taken \ {i}
    BY DEF HashInv, InMotion
<1>2. target \in Nat
    BY <1>1, PowersEven
<1>3. Live = {}
    <2>1. buckets \in Nat /\ Live \in SUBSET (0 .. buckets - 1) /\ visit = buckets
        BY Sets DEF HashInv, Shape, Bucket
    <2> QED BY <1>1, <2>1
<1>4. Bucket' = 0 .. target - 1
    BY DEF Bucket
<1>5. \A i \in 0 .. target - 1 : /\ IsLive(i)' <=> i \in taken
                                 /\ IsEmpty(i)' <=> i \notin taken
    BY DEF IsLive, IsEmpty
<1>6. Live' = taken
    BY <1>1, <1>4, <1>5 DEF Live
<1>7. Shape'
    BY <1>1, <1>2, <1>4 DEF HashInv, Shape
<1>8. Elements'
    BY <1>3, <1>6 DEF HashInv, Elements
<1>9. ASSUME NEW i \in Live'
      PROVE  Leads(flag', slot, target, slot[i].key, i)
    <2>1. PICK s \in 0 .. target - 1 :
            /\ i = Site(slot[i].key, s, target)
            /\ \A t \in 0 .. s - 1 : Site(slot[i].key, t, target) \in taken \ {i}
        BY <1>1, <1>6
    <2>2. \A j \in taken : flag'[j] = "live"
        BY <1>1
    <2>3. \A j \in taken \ {i} : slot[j].key # slot[i].key
        BY <1>6 DEF HashInv, Elements
    <2>4. \A j \in taken \ {i} : ~Halts(flag', slot, slot[i].key, j)
        BY <2>2, <2>3 DEF Halts
    <2>5. Halts(flag', slot, slot[i].key, i)
        BY <1>6, <2>2 DEF Halts
    <2> QED BY <2>1, <2>4, <2>5 DEF Leads
<1>10. Settled'
    BY <1>1, <1>4, <1>9 DEF Settled
<1>11. InMotion'
    BY DEF InMotion
<1>12. Counted'
    BY <1>3, <1>6, FS_EmptySet, Sets DEF HashInv, Counted
<1>13. Iterating'
    BY NoIterIsRight
<1> QED BY <1>7, <1>8, <1>10, <1>11, <1>12, <1>13 DEF HashInv

(* A put goes to a bucket that holds the key already, or no key at all;    *)
(* no other bucket holds it.                                               *)
LEMMA PutsWell ==
    ASSUME HashInv, phase # "rehash", NEW k \in Key, NEW s \in Bucket, NEW i \in Bucket,
           StopsAt(k, s), PutsInto(k, s, i)
    PROVE  /\ \A j \in Live : slot[j].key = k => j = i
           /\ IsLive(i) => slot[i].key = k
           /\ \E u \in 0 .. s : i = Site(k, u, buckets)
<1> DEFINE stop == Site(k, s, buckets)
<1>1. buckets \in Nat /\ s \in Nat
    BY DEF HashInv, Shape, Bucket
<1>2. StopHere(k, stop) /\ \A t \in 0 .. s - 1 : ~StopHere(k, Site(k, t, buckets))
    BY DEF StopsAt
<1>3. \/ i = stop
      \/ IsEmpty(stop) /\ \E t \in Bucket : IsTomb(k, s, t) /\ i = Site(k, t, buckets)
    BY DEF PutsInto
<1>4. ASSUME NEW j \in Live, slot[j].key = k PROVE j = i
    <2>1. PICK u \in Bucket : StopsAt(k, u) /\ j = Site(k, u, buckets)
        BY <1>4 DEF HashInv, Settled, Leads, Halts, StopsAt, StopHere, IsEmpty, IsLive, Bucket
    <2>2. j = stop
        BY <1>1, <2>1, OneStop
    <2>3. ~IsEmpty(j)
        BY DEF Live, IsLive, IsEmpty
    <2> HIDE DEF stop
    <2> QED BY <1>3, <2>2, <2>3
<1>5. IsLive(i) => slot[i].key = k
    <2>1. CASE i = stop
        BY <1>2, <2>1 DEF StopHere, IsLive, IsEmpty
    <2>2. CASE \E t \in Bucket : IsTomb(k, s, t) /\ i = Site(k, t, buckets)
        BY <2>2 DEF IsTomb, IsLive
    <2> QED BY <1>3, <2>1, <2>2
<1>6. \E u \in 0 .. s : i = Site(k, u, buckets)
    <2>1. CASE i = stop
        BY <1>1, <2>1
    <2>2. CASE \E t \in Bucket : IsTomb(k, s, t) /\ i = Site(k, t, buckets)
        BY <1>1, <2>2 DEF IsTomb, Bucket
    <2> QED BY <1>3, <2>1, <2>2
<1> QED BY <1>4, <1>5, <1>6

(* A put fills the bucket its probe ends in: an empty one, a tombstone, or that of the key. *)
LEMMA InsertKeeps ==
    ASSUME HashInv, Insert
    PROVE  HashInv'
<1>1. /\ phase \in {"insert", "put"} /\ phase' = "put"
      /\ UNCHANGED <<buckets, target, taken, visit, carried, it>>
    BY DEF Insert
<1>2. PICK k \in DOMAIN todo, s \in Bucket, i \in Bucket :
         /\ StopsAt(k, s) /\ PutsInto(k, s, i)
         /\ slot' = [slot EXCEPT ![i] = [key |-> k, val |-> todo[k]]]
         /\ flag' = [flag EXCEPT ![i] = "live"]
         /\ size' = size + IF IsLive(i) THEN 0 ELSE 1
         /\ todo' = [l \in DOMAIN todo \ {k} |-> todo[l]]
    BY DEF Insert
<1>3. /\ buckets \in Nat /\ flag \in [Bucket -> {"live", "deleted", "empty"}]
      /\ k \in Key /\ todo[k] \in Value /\ taken = {} /\ carried = None /\ DOMAIN slot = Bucket
    BY <1>1 DEF HashInv, Shape, Settled
<1>4. /\ \A j \in Live : slot[j].key = k => j = i
      /\ IsLive(i) => slot[i].key = k
      /\ \E u \in 0 .. s : i = Site(k, u, buckets)
    BY <1>1, <1>2, <1>3, PutsWell
<1>5. Bucket' = Bucket /\ Live' = Live \cup {i} /\ i \in Live <=> IsLive(i)
    BY <1>1, <1>2, <1>3 DEF Bucket, Live, IsLive
<1>6. /\ slot'[i] = [key |-> k, val |-> todo[k]] /\ slot'[i] \in Entry /\ slot'[i].key = k
      /\ \A j \in Bucket \ {i} : slot'[j] = slot[j] /\ flag'[j] = flag[j]
      /\ flag'[i] = "live"
    BY <1>2, <1>3 DEF Entry
<1>7. Live \in SUBSET Bucket /\ Bucket' = Bucket /\ Live' = Live \cup {i} /\ (i \in Live <=> IsLive(i))
    BY <1>1, <1>2, <1>3 DEF Bucket, Live, IsLive
<1>8. \A j \in Live' \ {i} : j \in Live /\ slot'[j] = slot[j] /\ slot[j].key # k
    BY <1>4, <1>6, <1>7
<1>9. Shape'
    BY <1>1, <1>2, <1>3, <1>7 DEF HashInv, Shape
<1>10. Elements'
    <2>1. \A j \in Live' : slot'[j] \in Entry
        BY <1>6, <1>8 DEF HashInv, Elements
    <2>2. \A j, l \in Live' : slot'[j].key = slot'[l].key => j = l
        BY <1>6, <1>8 DEF HashInv, Elements
    <2> QED BY <1>1, <1>3, <2>1, <2>2 DEF Elements
<1>11. ASSUME NEW j \in Live'
       PROVE  Leads(flag', slot', buckets, slot'[j].key, j)
    <2>1. CASE j = i
        <3>1. Passes(flag, slot, buckets, k, s)
            BY <1>2 DEF StopsAt, StopHere, IsEmpty, IsLive, Halts, Passes
        <3>2. \A l \in 0 .. buckets - 1 : l # i => flag'[l] = flag[l] /\ slot'[l] = slot[l]
            BY <1>6 DEF Bucket
        <3>3. Halts(flag', slot', k, i)
            BY <1>6 DEF Halts
        <3>4. s \in 0 .. buckets - 1
            BY DEF Bucket
        <3>5. Leads(flag', slot', buckets, k, i)
            <4>1. PICK v \in 0 .. s : i = Site(k, v, buckets)
                BY <1>4
            <4> QED BY <1>3, <3>1, <3>2, <3>3, <3>4, <4>1, LeadsTo
        <3> QED BY <1>6, <2>1, <3>5
    <2>2. CASE j # i
        <3>1. j \in Live /\ slot'[j] = slot[j] /\ slot[j].key # k
            BY <1>8, <2>2
        <3>2. Leads(flag, slot, buckets, slot[j].key, j) /\ slot[j].key \in Key
            BY <1>1, <3>1, Sets DEF HashInv, Settled
        <3>3. Halts(flag', slot', slot[j].key, j)
            BY <1>6, <1>7, <2>2, <3>1 DEF Live, IsLive, Halts
        <3>4. \A l \in 0 .. buckets - 1 : ~Halts(flag, slot, slot[j].key, l) => ~Halts(flag', slot', slot[j].key, l)
            BY <1>6, <3>1 DEF Halts, Bucket
        <3>5. Leads(flag', slot', buckets, slot[j].key, j)
            BY <1>3, <3>2, <3>3, <3>4, LeadsOn
        <3> QED BY <3>1, <3>5
    <2> QED BY <2>1, <2>2
<1>12. Settled'
    <2>1. DOMAIN slot' = Bucket'
        BY <1>2, <1>3, <1>7
    <2> QED BY <1>1, <1>3, <1>11, <2>1 DEF Settled
<1>13. InMotion'
    BY <1>1 DEF InMotion
<1>14. IsFiniteSet(Live) /\ Cardinality(Live) \in Nat /\ size \in Nat
    BY Sets
<1>15. Counted'
    <2>1. size = Cardinality(Live) + Cardinality(taken)
        BY <1>3, <1>14, FS_EmptySet DEF HashInv, Counted
    <2>2. size' = Cardinality(Live') + Cardinality(taken)
        <3>1. CASE i \in Live
            <4>1. Live' = Live /\ size' = size
                BY <1>2, <1>7, <1>14, <3>1
            <4> QED BY <2>1, <4>1
        <3>2. CASE i \notin Live
            <4>1. Cardinality(Live') = Cardinality(Live) + 1
                BY <1>7, <1>14, <3>2, FS_AddElement
            <4>2. size' = size + 1 /\ Cardinality(taken) \in Nat
                BY <1>2, <1>7, <3>2, Sets
            <4> QED BY <1>14, <2>1, <4>1, <4>2
        <3> QED BY <3>1, <3>2
    <2>3. Cardinality(Live') + Cardinality(taken) \in Nat
        BY <1>2, <1>14, <2>2
    <2> QED BY <1>1, <1>3, <2>2, <2>3 DEF Counted
<1>16. Iterating'
    <2>1. CASE ~it.on
        BY <1>1, <2>1 DEF HashInv, Iterating
    <2>2. CASE it.on
        <3>1. \A l \in it.seen : \E j \in Live' : j < it.at /\ slot'[j].key = l
            <4> TAKE l \in it.seen
            <4>1. PICK j \in Live : j < it.at /\ slot[j].key = l
                BY <2>2 DEF HashInv, Iterating
            <4>2. j \in Live' /\ slot'[j].key = l
                BY <1>4, <1>6, <1>7, <4>1
            <4> QED BY <4>1, <4>2
        <3>2. ASSUME it.moved = {}
              PROVE  /\ it.count <= size'
                     /\ it.count = size' =>
                           /\ \A j \in Live' : j < it.at => slot'[j].key \in it.seen
                           /\ it.at \in Live' \cup {buckets}
                           /\ it.null \/ it.lost => it.at = buckets
            <4>a. it \in IterOver(0 .. buckets) /\ it.count <= size
                BY <2>2, <3>2 DEF HashInv, Iterating, NoIter
            <4>1. it.count \in Nat /\ it.count <= size
                BY <4>a DEF IterOver
            <4>2. it.count <= size'
                BY <1>2, <1>14, <4>1
            <4>3. ASSUME it.count = size'
                  PROVE  /\ \A j \in Live' : j < it.at => slot'[j].key \in it.seen
                         /\ it.at \in Live' \cup {buckets}
                         /\ it.null \/ it.lost => it.at = buckets
                <5>1. IsLive(i) /\ it.count = size
                    BY <1>2, <1>14, <4>1, <4>3
                <5>2. Live' = Live /\ \A j \in Live : slot'[j].key = slot[j].key
                    BY <1>4, <1>6, <1>7, <5>1
                <5> QED BY <2>2, <3>2, <5>1, <5>2 DEF HashInv, Iterating
            <4> QED BY <4>2, <4>3
        <3>3. it.lost /\ it.items => buckets \notin 1 .. 15
            BY <2>2 DEF HashInv, Iterating
        <3> QED BY <1>1, <2>2, <3>1, <3>2, <3>3 DEF HashInv, Iterating
    <2> QED BY <2>1, <2>2
<1> QED BY <1>9, <1>10, <1>12, <1>13, <1>15, <1>16 DEF HashInv

(* A tombstone leaves every probe as long as it was. *)
LEMMA RemoveKeyKeeps ==
    ASSUME HashInv, NEW k \in Key, RemoveKey(k)
    PROVE  HashInv'
<1>1. PICK s \in Bucket :
         LET i == Site(k, s, buckets)
         IN  /\ StopsAt(k, s) /\ IsLive(i)
             /\ flag' = [flag EXCEPT ![i] = "deleted"]
             /\ slot' = [slot EXCEPT ![i] = None]
    BY DEF RemoveKey
<1>2. /\ phase = "idle" /\ size' = size - 1 /\ Moved(k)
      /\ UNCHANGED <<buckets, occupied, phase, todo, target, taken, visit, carried>>
    BY DEF RemoveKey, Idle
<1>3. PICK i \in Bucket :
         /\ IsLive(i) /\ slot[i].key = k
         /\ flag' = [flag EXCEPT ![i] = "deleted"] /\ slot' = [slot EXCEPT ![i] = None]
    <2>1. buckets \in Nat \ {0} /\ s \in Nat
        BY DEF HashInv, Shape, Bucket
    <2>2. Site(k, s, buckets) \in Bucket
        BY <2>1, SiteIn DEF Bucket
    <2> QED BY <1>1, <2>2 DEF StopsAt, StopHere, IsLive, IsEmpty
<1>4. /\ buckets \in Nat /\ flag \in [Bucket -> {"live", "deleted", "empty"}]
      /\ taken = {} /\ carried = None /\ DOMAIN slot = Bucket
    BY <1>2 DEF HashInv, Shape, Settled
<1>5. /\ Live \in SUBSET Bucket /\ IsFiniteSet(Live) /\ Cardinality(Live) \in Nat /\ size \in Nat
      /\ i \in Live
    BY <1>3, Sets DEF Live
<1>6. Bucket' = Bucket /\ Live' = Live \ {i}
    BY <1>2, <1>3, <1>4 DEF Bucket, Live, IsLive
<1>7. \A j \in Live' : j \in Live /\ slot'[j] = slot[j] /\ flag'[j] = flag[j] /\ slot[j].key # k
    BY <1>3, <1>4, <1>5, <1>6 DEF HashInv, Elements
<1>8. Shape'
    BY <1>2, <1>3, <1>4, <1>6 DEF HashInv, Shape
<1>9. Elements'
    <2>1. \A j \in Live' : slot'[j] \in Entry
        BY <1>7 DEF HashInv, Elements
    <2>2. \A j, l \in Live' : slot'[j].key = slot'[l].key => j = l
        BY <1>7 DEF HashInv, Elements
    <2> QED BY <1>2, <1>4, <2>1, <2>2 DEF Elements
<1>10. ASSUME NEW j \in Live'
       PROVE  Leads(flag', slot', buckets, slot'[j].key, j)
    <2>1. j \in Live /\ slot'[j] = slot[j] /\ flag'[j] = flag[j]
        BY <1>7
    <2>2. Leads(flag, slot, buckets, slot[j].key, j) /\ slot[j].key \in Key
        BY <1>2, <2>1, Sets DEF HashInv, Settled
    <2>3. Halts(flag', slot', slot[j].key, j)
        BY <2>1 DEF Live, IsLive, Halts
    <2>4. \A l \in 0 .. buckets - 1 : ~Halts(flag, slot, slot[j].key, l) => ~Halts(flag', slot', slot[j].key, l)
        BY <1>3, <1>4 DEF Halts, Bucket
    <2>5. Leads(flag', slot', buckets, slot[j].key, j)
        BY <1>4, <2>2, <2>3, <2>4, LeadsOn
    <2> QED BY <2>1, <2>5
<1>11. Settled'
    <2>1. DOMAIN slot' = Bucket'
        BY <1>3, <1>4, <1>6
    <2> QED BY <1>2, <1>4, <1>10, <2>1 DEF Settled
<1>12. InMotion'
    BY <1>2 DEF InMotion
<1>13. Counted'
    <2>1. size = Cardinality(Live) + Cardinality(taken) + 0 /\ Cardinality(taken) \in Nat
        BY <1>4, Sets DEF HashInv, Counted
    <2>2. Cardinality(Live') = Cardinality(Live) - 1
        BY <1>5, <1>6, FS_RemoveElement
    <2> QED BY <1>2, <1>4, <1>5, <2>1, <2>2 DEF Counted
<1>14. Iterating'
    <2>1. CASE ~it.on
        <3>1. it' = it /\ it = NoIter
            BY <1>2, <2>1 DEF Moved, HashInv, Iterating, IterOver
        <3> QED BY <3>1, NoIterIsRight
    <2>2. CASE it.on
        <3>1. it' = [it EXCEPT !.moved = @ \cup {k}, !.seen = @ \ {k}] /\ it \in IterOver(0 .. buckets)
            BY <1>2, <2>2 DEF Moved, HashInv, Iterating, NoIter
        <3>2. it' \in IterOver(0 .. buckets)
            BY <3>1 DEF IterOver
        <3>3. /\ it'.seen = it.seen \ {k} /\ it'.moved = it.moved \cup {k}
              /\ it'.again = it.again /\ it'.at = it.at
              /\ it'.lost = it.lost /\ it'.items = it.items
            BY <3>1 DEF IterOver
        <3>4. \A l \in it'.seen : \E j \in Live' : j < it'.at /\ slot'[j].key = l
            <4> TAKE l \in it'.seen
            <4>1. l \in it.seen /\ l # k
                BY <3>3
            <4>2. PICK j \in Live : j < it.at /\ slot[j].key = l
                BY <2>2, <4>1 DEF HashInv, Iterating
            <4>3. j \in Live'
                BY <1>3, <1>6, <4>1, <4>2
            <4> QED BY <1>7, <3>3, <4>2, <4>3
        <3>5. it'.moved # {}
            BY <3>3
        <3>6. ~it.again /\ (it.lost /\ it.items => buckets \notin 1 .. 15)
            BY <2>2 DEF HashInv, Iterating
        <3> QED BY <1>2, <3>2, <3>3, <3>4, <3>5, <3>6 DEF Iterating
    <2> QED BY <2>1, <2>2
<1> QED BY <1>8, <1>9, <1>11, <1>12, <1>13, <1>14 DEF HashInv

(* A cleared table has no entry, whatever its buckets still hold. *)
LEMMA ClearKeeps ==
    ASSUME HashInv, Clear
    PROVE  HashInv'
<1> USE DEF Clear, Idle
<1>1. Bucket' = Bucket /\ Live' = {}
    BY DEF Bucket, Live, IsLive
<1>2. taken = {} /\ carried = None
    BY DEF HashInv, Settled
<1>3. Shape'
    BY <1>1 DEF HashInv, Shape
<1>4. Elements'
    BY <1>1, <1>2 DEF Elements
<1>5. Settled' /\ InMotion'
    BY <1>1, <1>2 DEF Settled, InMotion
<1>6. Counted'
    BY <1>1, <1>2, FS_EmptySet DEF Counted
<1>7. Iterating'
    BY NoIterIsRight DEF AllMoved
<1> QED BY <1>3, <1>4, <1>5, <1>6, <1>7 DEF HashInv

(* What a live bucket contains. *)
LEMMA ContentsIs ==
    ASSUME HashInv, NEW i \in Live
    PROVE  Contents(slot[i].key) = slot[i].val /\ slot[i].val \in Value
<1>1. slot[i] \in Entry
    BY DEF HashInv, Elements
<1>2. slot[i].val \in Value /\ slot[i] = [key |-> slot[i].key, val |-> slot[i].val]
    BY <1>1 DEF Entry
<1>3. ASSUME NEW v \in Value, NEW j \in Live, slot[j] = [key |-> slot[i].key, val |-> v]
      PROVE  v = slot[i].val
    <2>1. j = i
        BY <1>3 DEF HashInv, Elements
    <2> QED BY <1>3, <2>1
<1> QED BY <1>2, <1>3 DEF Contents

(* A copy begins with an empty table and stores everything again. *)
LEMMA CopyKeeps ==
    ASSUME HashInv, Copy
    PROVE  HashInv'
<1> USE DEF Copy, Idle
<1>1. buckets' \in Powers /\ buckets' \in Nat
    BY RoundUpIs, Sets, PowersEven
<1>2. Bucket' = 0 .. buckets' - 1 /\ Live' = {}
    BY DEF Bucket, Live, IsLive
<1>3. taken = {} /\ carried = None
    BY DEF HashInv, Settled
<1>4. Shape'
    <2>1. DOMAIN todo' = {slot[i].key : i \in Live}
        OBVIOUS
    <2>2. DOMAIN todo' \in SUBSET Key
        BY <2>1, Sets
    <2>3. \A l \in DOMAIN todo' : todo'[l] \in Value
        <3> TAKE l \in DOMAIN todo'
        <3>1. PICK i \in Live : l = slot[i].key
            BY <2>1
        <3>2. todo'[l] = Contents(l)
            BY <2>1
        <3> QED BY <3>1, <3>2, ContentsIs
    <2>4. todo' \in [DOMAIN todo' -> Value]
        BY <2>3
    <2>5. flag' \in [Bucket' -> {"live", "deleted", "empty"}]
        BY <1>2
    <2> QED BY <1>1, <2>2, <2>4, <2>5 DEF Shape
<1>5. Elements'
    BY <1>2, <1>3 DEF Elements
<1>6. Settled' /\ InMotion'
    BY <1>2, <1>3 DEF Settled, InMotion
<1>7. Counted'
    BY <1>2, <1>3, FS_EmptySet DEF Counted
<1>8. Iterating'
    BY NoIterIsRight
<1> QED BY <1>4, <1>5, <1>6, <1>7, <1>8 DEF HashInv

-----------------------------------------------------------------------------
(* Every step keeps the invariant. *)
LEMMA HashStepKeeps == HashInv /\ [HashNext]_hvars => HashInv'
<1> SUFFICES ASSUME HashInv, [HashNext]_hvars PROVE HashInv'
    OBVIOUS
<1>1. CASE UNCHANGED hvars
    <2>1. Elements' /\ Settled' /\ InMotion' /\ Counted' /\ Bucket' = Bucket /\ Live' = Live
        BY <1>1, Untouched DEF hvars, tvars, rvars
    <2>2. Shape' /\ Iterating'
        BY <1>1, <2>1 DEF hvars, HashInv, Shape, Iterating
    <2> QED BY <2>1, <2>2 DEF HashInv
<1>2. CASE HashStep
    BY <1>2, ResizeForKeeps, TakeOutKeeps, PutDownKeeps, RehashedKeeps, InsertKeeps, StoredKeeps
       DEF HashStep
<1>3. ASSUME NEW pairs \in Batch, Store(pairs) PROVE HashInv'
    BY <1>3, StoreKeeps
<1>4. ASSUME NEW k \in Key, RemoveKey(k) PROVE HashInv'
    BY <1>4, RemoveKeyKeeps
<1>5. CASE PopFirst
    <2>1. PICK i \in Live : RemoveKey(slot[i].key)
        BY <1>5 DEF PopFirst
    <2>2. slot[i].key \in Key
        BY Sets
    <2> QED BY <2>1, <2>2, RemoveKeyKeeps
<1>6. CASE Clear \/ Copy \/ Iterate \/ IterNext
    BY <1>6, ClearKeeps, CopyKeeps, IterateKeeps, IterNextKeeps
<1> QED BY <1>1, <1>2, <1>3, <1>4, <1>5, <1>6 DEF HashNext

(* The invariant of a table, in every state of every run.                  *)
THEOREM HashInvariance == HashSpec => []HashInv
<1> QED BY InitHash, HashStepKeeps, PTL DEF HashSpec

(* An iterator (iter.c, dict_next) yields nothing twice, and ends or is    *)
(* lost only when it has yielded all, unless elements went away or the     *)
(* length changed; the one of items() is lost in no table of 1 to 15       *)
(* buckets.                                                                *)
THEOREM IteratorsFaithful == HashSpec => []IterFaithful
<1>1. HashInv => IterFaithful
    <2> SUFFICES ASSUME HashInv, it.on
                 PROVE  /\ ~it.again /\ (it.lost /\ it.items => buckets \notin 1 .. 15)
                        /\ IterEnded => it.seen = {slot[i].key : i \in Live}
        BY DEF IterFaithful
    <2>1. ~it.again /\ (it.lost /\ it.items => buckets \notin 1 .. 15)
        BY DEF HashInv, Iterating
    <2>2. ASSUME IterEnded PROVE it.seen = {slot[i].key : i \in Live}
        <3>1. /\ \A k \in it.seen : \E i \in Live : slot[i].key = k
              /\ it.at = buckets
              /\ \A i \in Live : i < it.at => slot[i].key \in it.seen
            BY <2>2 DEF IterEnded, HashInv, Iterating
        <3>2. \A i \in Live : i < buckets
            BY DEF Live, Bucket, HashInv, Shape
        <3> QED BY <3>1, <3>2
    <2> QED BY <2>1, <2>2
<1> QED BY <1>1, HashInvariance, PTL

-----------------------------------------------------------------------------
(* What the table stands for *)

(* The partial function of the pairs T still to be stored and the elements H *)
AbsOf(T, H) == [k \in Key |->
                  IF k \in DOMAIN T THEN T[k]
                  ELSE IF \E e \in H : e.key = k THEN (CHOOSE e \in H : e.key = k).val
                  ELSE Absent]

(* The mapping is that of the pairs to come over the entries that are held. *)
LEMMA AbsIs == Abs = AbsOf(todo, Held)
BY DEF Abs, AbsOf

(* The same in the next state. *)
LEMMA AbsNext == Abs' = AbsOf(todo', Held')
BY DEF Abs, AbsOf

(* No two elements of H have the same key. *)
Apart(H) == \A e, f \in H : e.key = f.key => e = f

(* A key has the value still to be stored, else that of its entry, else none. *)
LEMMA AbsAt ==
    ASSUME NEW T, NEW H, Apart(H), NEW k \in Key
    PROVE  /\ k \in DOMAIN T => AbsOf(T, H)[k] = T[k]
           /\ \A e \in H : k \notin DOMAIN T /\ e.key = k => AbsOf(T, H)[k] = e.val
           /\ k \notin DOMAIN T /\ (\A e \in H : e.key # k) => AbsOf(T, H)[k] = Absent
<1>1. CASE k \in DOMAIN T
    BY <1>1 DEF AbsOf
<1>2. CASE k \notin DOMAIN T
    <2>1. ASSUME NEW e \in H, e.key = k PROVE AbsOf(T, H)[k] = e.val
        <3>1. AbsOf(T, H)[k] = (CHOOSE g \in H : g.key = k).val
            BY <1>2, <2>1 DEF AbsOf
        <3>2. \A g \in H : g.key = k => g = e
            BY <2>1 DEF Apart
        <3>3. (CHOOSE g \in H : g.key = k) = e
            BY <2>1, <3>2
        <3> QED BY <3>1, <3>3
    <2>2. ASSUME \A e \in H : e.key # k PROVE AbsOf(T, H)[k] = Absent
        BY <1>2, <2>2 DEF AbsOf
    <2> QED BY <1>2, <2>1, <2>2
<1> QED BY <1>1, <1>2

(* Two such functions that agree everywhere are equal. *)
LEMMA AbsEqual ==
    ASSUME NEW T, NEW H, NEW T2, NEW H2,
           \A k \in Key : AbsOf(T, H)[k] = AbsOf(T2, H2)[k]
    PROVE  AbsOf(T, H) = AbsOf(T2, H2)
<1>1. /\ AbsOf(T, H) = [k \in Key |-> AbsOf(T, H)[k]]
      /\ AbsOf(T2, H2) = [k \in Key |-> AbsOf(T2, H2)[k]]
    BY DEF AbsOf
<1> QED BY <1>1

(* The invariant keeps the elements apart, wherever they are. *)
LEMMA HeldApart ==
    ASSUME HashInv
    PROVE  /\ Apart(Held) /\ Held \in SUBSET Entry
           /\ phase # "rehash" => Held = {slot[i] : i \in Live}
<1>1. carried \in Entry \cup {None}
    BY DEF HashInv, Settled, InMotion, Shape
<1>2. Held \in SUBSET Entry
    BY <1>1 DEF Held, HashInv, Elements
<1>3. Apart(Held)
    BY DEF Apart, Held, HashInv, Elements
<1>4. phase # "rehash" => Held = {slot[i] : i \in Live}
    BY DEF Held, HashInv, Settled
<1> QED BY <1>2, <1>3, <1>4

(* A walk finds what is stored.                                            *)
LEMMA LookupIs ==
    ASSUME HashInv, Idle, NEW k \in Key
    PROVE  /\ Lookup(k) = Abs[k]
           /\ Lookup(k) # Absent <=> \E i \in Live : slot[i].key = k
<1> USE DEF Idle
<1>1. buckets \in Nat
    BY DEF HashInv, Shape
<1>2. k \notin DOMAIN todo /\ Apart(Held) /\ Held = {slot[i] : i \in Live}
    BY HeldApart DEF HashInv, Shape
<1>3. Abs = AbsOf(todo, Held)
    BY AbsIs
<1>4. ASSUME NEW i \in Live, slot[i].key = k
      PROVE  Lookup(k) = slot[i].val /\ Abs[k] = slot[i].val /\ slot[i].val \in Value
    <2>1. PICK s \in Bucket : StopsAt(k, s) /\ i = Site(k, s, buckets)
        BY <1>4 DEF HashInv, Settled, Leads, Halts, StopsAt, StopHere, IsEmpty, IsLive, Bucket
    <2>2. \A t \in Bucket : StopsAt(k, t) => t = s
        BY <1>1, <2>1, OneStop
    <2>3. (CHOOSE t \in Bucket : StopsAt(k, t)) = s
        BY <2>1, <2>2
    <2>4. Lookup(k) = slot[Site(k, CHOOSE t \in Bucket : StopsAt(k, t), buckets)].val
        BY <1>4, <2>1 DEF Lookup, Live
    <2>5. Abs[k] = slot[i].val
        BY <1>2, <1>3, <1>4, AbsAt
    <2> QED BY <2>1, <2>3, <2>4, <2>5, ContentsIs
<1>5. ASSUME \A i \in Live : slot[i].key # k
      PROVE  Lookup(k) = Absent /\ Abs[k] = Absent
    <2>1. ASSUME NEW s \in Bucket, StopsAt(k, s), IsLive(Site(k, s, buckets)) PROVE FALSE
        <3>1. Site(k, s, buckets) \in Bucket
            BY <1>1, SiteIn DEF Bucket
        <3>2. slot[Site(k, s, buckets)].key = k
            BY <2>1 DEF StopsAt, StopHere, IsEmpty, IsLive
        <3> QED BY <1>5, <2>1, <3>1, <3>2 DEF Live
    <2>2. Lookup(k) = Absent
        BY <2>1 DEF Lookup
    <2>3. Abs[k] = Absent
        BY <1>2, <1>3, <1>5, AbsAt
    <2> QED BY <2>2, <2>3
<1>6. \A v \in Value : v # Absent
    BY HashAssumption
<1> QED BY <1>4, <1>5, <1>6

(* The comparison of sets by size and lookups is that of sets.             *)
LEMMA ComparesRight ==
    ASSUME HashInv, Idle, NEW K \in SUBSET Key, IsFiniteSet(K),
           NEW mine, mine = {k \in Key : Abs[k] # Absent}
    PROVE  /\ SetCmp(K) = 0 <=> mine = K
           /\ SetCmp(K) = 1 <=> K \subseteq mine /\ mine # K
           /\ SetCmp(K) = -1 <=> mine \subseteq K /\ mine # K
<1>1. \A k \in Key : Has(k) <=> k \in mine
    BY LookupIs DEF Has
<1>2. mine = {slot[i].key : i \in Live}
    BY LookupIs, Sets
<1>3. IsFiniteSet(mine) /\ Cardinality(mine) = size
    <2> DEFINE f == [i \in Live |-> slot[i].key]
    <2>1. f \in Bijection(Live, mine)
        <3>1. f \in [Live -> mine] /\ \A k \in mine : \E i \in Live : f[i] = k
            BY <1>2
        <3>2. \A i, j \in Live : f[i] = f[j] => i = j
            BY DEF HashInv, Elements
        <3> HIDE DEF f
        <3> QED BY <3>1, <3>2 DEF Bijection, Injection, Surjection, IsInjective
    <2>2. IsFiniteSet(Live) /\ Cardinality(Live) \in Nat
        BY Sets
    <2>3. IsFiniteSet(mine) /\ Cardinality(mine) = Cardinality(Live)
        BY <2>1, <2>2, FS_Bijection DEF ExistsBijection
    <2>4. taken = {} /\ carried = None
        BY DEF HashInv, Settled, Idle
    <2>5. size = Cardinality(Live)
        BY <2>2, <2>4, FS_EmptySet DEF HashInv, Counted
    <2> QED BY <2>3, <2>5
<1>4. Cardinality(K) \in Nat /\ size \in Nat
    BY <1>3, FS_CardinalityType
<1>5. /\ K \subseteq mine => Cardinality(K) <= size /\ (Cardinality(K) = size => K = mine)
      /\ mine \subseteq K => size <= Cardinality(K) /\ (Cardinality(K) = size => K = mine)
    BY <1>3, FS_Subset
<1>6. SetEq(K) <=> mine = K
    <2>1. (\A k \in K : Has(k)) <=> K \subseteq mine
        BY <1>1
    <2> QED BY <1>3, <1>5, <2>1 DEF SetEq
<1>7. SetContains(K) <=> K \subseteq mine /\ mine # K
    <2>1. (\A k \in K : Has(k)) <=> K \subseteq mine
        BY <1>1
    <2> QED BY <1>3, <1>4, <1>5, <2>1 DEF SetContains
<1>8. ContainedIn(K) <=> mine \subseteq K /\ mine # K
    <2>1. (\A i \in Live : slot[i].key \in K) <=> mine \subseteq K
        BY <1>2
    <2> QED BY <1>3, <1>4, <1>5, <2>1 DEF ContainedIn
<1>9. SetCmp(K) = IF SetEq(K) THEN 0 ELSE IF SetContains(K) THEN 1
                  ELSE IF ContainedIn(K) THEN -1 ELSE 3
    BY DEF SetCmp, Incomparable
<1> QED BY <1>6, <1>7, <1>8, <1>9

(* Between calls a lookup finds what is stored (kho_get), and sets compare *)
(* as sets (set.c).                                                        *)
THEOREM LookupsRight == HashSpec => []LookupFinds
<1>1. HashInv => LookupFinds
    <2> SUFFICES ASSUME HashInv, Idle
                 PROVE  LookupFinds
        BY DEF LookupFinds
    <2>1. \A k \in Key : Lookup(k) = Abs[k]
        BY LookupIs
    <2> DEFINE mine == {k \in Key : Abs[k] # Absent}
    <2>2. \A K \in SUBSET Key : IsFiniteSet(K) =>
             /\ SetCmp(K) = 0 <=> mine = K
             /\ SetCmp(K) = 1 <=> K \subseteq mine /\ mine # K
             /\ SetCmp(K) = -1 <=> mine \subseteq K /\ mine # K
        BY ComparesRight
    <2> QED BY <2>1, <2>2 DEF LookupFinds
<1> QED BY <1>1, HashInvariance, PTL

-----------------------------------------------------------------------------
(* The table implements the partial function *)

(* A step that keeps what is held and what is to be stored is unseen.      *)
LEMMA Unseen ==
    ASSUME Held' = Held, todo' = todo
    PROVE  Abs' = Abs
BY AbsIs, AbsNext

(* What leaves table, rehash and queue alone leaves the mapping alone. *)
LEMMA StillStands ==
    ASSUME UNCHANGED <<tvars, rvars, todo>>
    PROVE  Abs' = Abs
<1>1. Held' = Held
    BY DEF tvars, rvars, Held, Live, Bucket, IsLive
<1> QED BY <1>1, Unseen

(* The beginning of a rehash is a stutter of the map. *)
LEMMA ResizeForUnseen ==
    ASSUME HashInv, ResizeFor
    PROVE  Abs' = Abs
<1> USE DEF ResizeFor
<1>1. Wanted \in Nat /\ buckets <= Wanted /\ buckets \in Nat
    BY WantedRoom, Sets, PowersEven DEF HashInv, Shape
<1>2. Live' = Live /\ taken = {} /\ taken' = {} /\ carried' = carried
    BY DEF Live, Bucket, IsLive, HashInv, Settled
<1>3. \A i \in Live : slot'[i] = slot[i]
    BY <1>1, Sets DEF Bucket
<1>4. Held' = Held
    BY <1>2, <1>3 DEF Held
<1> QED BY <1>4, Unseen

(* An entry in motion is still held. *)
LEMMA TakeOutUnseen ==
    ASSUME HashInv, TakeOut
    PROVE  Abs' = Abs
<1> USE DEF TakeOut
<1>1. /\ buckets \in Nat /\ flag \in [Bucket -> {"live", "deleted", "empty"}]
      /\ visit \in Bucket /\ target \in Nat /\ buckets <= target
      /\ \A i \in Live : i \notin taken
      /\ DOMAIN slot = 0 .. target - 1 /\ taken \in SUBSET (0 .. target - 1)
    BY PowersEven DEF HashInv, Shape, InMotion, Bucket
<1>2. CASE IsLive(visit)
    <2>1. /\ carried' = slot[visit] /\ flag' = [flag EXCEPT ![visit] = "deleted"]
          /\ slot' = [slot EXCEPT ![visit] = None] /\ visit \in Live
        BY <1>1, <1>2 DEF Live
    <2>2. Live' = Live \ {visit} /\ Live \in SUBSET (0 .. target - 1)
        BY <1>1, <2>1 DEF Live, IsLive, Bucket
    <2>3. \A i \in Live' \cup taken' : slot'[i] = slot[i]
        BY <1>1, <2>1, <2>2
    <2>4. Live \cup taken = (Live' \cup taken') \cup {visit}
        BY <2>1, <2>2
    <2>5. carried' # None
        BY <2>1, NoneIsNone DEF HashInv, Elements
    <2>6. Held' = {slot[i] : i \in Live' \cup taken'} \cup {slot[visit]}
        BY <2>1, <2>3, <2>5 DEF Held
    <2>7. Held = {slot[i] : i \in Live \cup taken}
        BY DEF Held
    <2>8. Held' = Held
        BY <2>4, <2>6, <2>7
    <2> QED BY <2>8, Unseen
<1>3. CASE ~IsLive(visit)
    <2>1. Held' = Held
        BY <1>3 DEF Held, Live, Bucket, IsLive
    <2> QED BY <2>1, Unseen
<1> QED BY <1>2, <1>3

(* An entry that is put down, and one that it turns out, are still held. *)
LEMMA PutDownUnseen ==
    ASSUME HashInv, PutDown
    PROVE  Abs' = Abs
<1>1. PICK i \in 0 .. target - 1 :
         /\ i \notin taken /\ taken' = taken \cup {i}
         /\ slot' = [slot EXCEPT ![i] = carried]
         /\ carried' = (IF i \in Live THEN slot[i] ELSE None)
         /\ flag' = (IF i \in Live THEN [flag EXCEPT ![i] = "deleted"] ELSE flag)
    <2>1. PICK s \in 0 .. target - 1 :
             LET i == Site(carried.key, s, target)
                 kicked == i < buckets /\ IsLive(i)
             IN  /\ FreeAt(carried.key, s)
                 /\ taken' = taken \cup {i}
                 /\ slot' = [slot EXCEPT ![i] = carried]
                 /\ carried' = IF kicked THEN slot[i] ELSE None
                 /\ flag' = IF kicked THEN [flag EXCEPT ![i] = "deleted"] ELSE flag
        BY DEF PutDown
    <2>2. target \in Nat \ {0} /\ carried.key \in Key /\ buckets \in Nat
        BY PowersEven DEF PutDown, HashInv, InMotion, Entry, Shape
    <2>3. Site(carried.key, s, target) \in 0 .. target - 1
        BY <2>2, SiteIn
    <2>4. PICK i \in 0 .. target - 1 : i = Site(carried.key, s, target)
        BY <2>3
    <2>5. i < buckets /\ IsLive(i) <=> i \in Live
        BY <2>2 DEF Live, Bucket
    <2> QED BY <2>1, <2>4, <2>5 DEF FreeAt
<1>2. /\ carried # None /\ UNCHANGED <<buckets, todo>> /\ carried \in Entry
      /\ flag \in [Bucket -> {"live", "deleted", "empty"}]
      /\ DOMAIN slot = 0 .. target - 1
    BY DEF PutDown, HashInv, InMotion, Shape
<1>3. Live' = Live \ {i}
    BY <1>1, <1>2 DEF Live, IsLive, Bucket
<1>4. \A j \in Live \cup taken : j # i => slot'[j] = slot[j]
    <2>1. \A j \in Live \cup taken : j \in 0 .. target - 1
        BY PowersEven DEF PutDown, HashInv, InMotion, Shape, Live, Bucket
    <2> QED BY <1>1, <1>2, <2>1
<1>5. slot'[i] = carried
    BY <1>1, <1>2
<1>6. Live' \cup taken' = ((Live \cup taken) \ {i}) \cup {i}
    BY <1>1, <1>3
<1>7. Held' = {slot[j] : j \in (Live \cup taken) \ {i}} \cup {carried} \cup ({carried'} \ {None})
    BY <1>4, <1>5, <1>6 DEF Held
<1>8. Held = {slot[j] : j \in Live \cup taken} \cup {carried}
    BY <1>2 DEF Held
<1>9. CASE i \in Live
    <2>1. slot[i] # None /\ carried' = slot[i]
        BY <1>1, <1>9, NoneIsNone DEF HashInv, Elements
    <2>2. Held' = Held
        BY <1>7, <1>8, <1>9, <2>1
    <2> QED BY <1>2, <2>2, Unseen
<1>10. CASE i \notin Live
    <2>1. carried' = None /\ (Live \cup taken) \ {i} = Live \cup taken
        BY <1>1, <1>10
    <2>2. Held' = Held
        BY <1>7, <1>8, <2>1
    <2> QED BY <1>2, <2>2, Unseen
<1> QED BY <1>9, <1>10

(* The end of a rehash is a stutter of the map. *)
LEMMA RehashedUnseen ==
    ASSUME HashInv, Rehashed
    PROVE  Abs' = Abs
<1> USE DEF Rehashed
<1>1. target \in Nat /\ taken \in SUBSET (0 .. target - 1) /\ \A i \in Live : i >= visit
    BY PowersEven DEF HashInv, InMotion
<1>2. Live = {}
    <2>1. buckets \in Nat /\ Live \in SUBSET (0 .. buckets - 1) /\ visit = buckets
        BY Sets DEF HashInv, Shape, Bucket
    <2> QED BY <1>1, <2>1
<1>3. Live' = taken
    BY <1>1 DEF Live, IsLive, Bucket
<1>4. Held' = Held
    BY <1>2, <1>3 DEF Held
<1> QED BY <1>4, Unseen

(* A put moves a pair from the queue to the table: the map had it before. *)
LEMMA InsertUnseen ==
    ASSUME HashInv, Insert
    PROVE  Abs' = Abs
<1>1. phase # "rehash" /\ UNCHANGED <<buckets, taken, carried>> /\ phase' = "put"
    BY DEF Insert
<1>2. PICK k \in DOMAIN todo, s \in Bucket, i \in Bucket :
         /\ StopsAt(k, s) /\ PutsInto(k, s, i)
         /\ slot' = [slot EXCEPT ![i] = [key |-> k, val |-> todo[k]]]
         /\ flag' = [flag EXCEPT ![i] = "live"]
         /\ todo' = [l \in DOMAIN todo \ {k} |-> todo[l]]
    BY DEF Insert
<1>3. k \in Key /\ DOMAIN slot = Bucket /\ flag \in [Bucket -> {"live", "deleted", "empty"}]
    BY <1>1 DEF HashInv, Shape, Settled
<1>4. \A j \in Live : slot[j].key = k => j = i
    BY <1>1, <1>2, <1>3, PutsWell
<1>5. IsLive(i) => slot[i].key = k
    BY <1>1, <1>2, <1>3, PutsWell
<1>6. Live' = Live \cup {i} /\ Live \in SUBSET Bucket
    BY <1>1, <1>2, <1>3 DEF Bucket, Live, IsLive
<1>7. Held = {slot[j] : j \in Live} /\ Apart(Held)
    BY <1>1, HeldApart
<1>8. HashInv'
    BY InsertKeeps
<1>9. Held' = {slot'[j] : j \in Live'} /\ Apart(Held')
    <2>1. phase' # "rehash" /\ taken' = {} /\ carried' = None
        BY <1>1 DEF HashInv, Settled
    <2>2. Held' = {slot'[j] : j \in Live'}
        BY <2>1 DEF Held
    <2>3. Apart(Held')
        BY <1>8, <2>2 DEF Apart, HashInv, Elements
    <2> QED BY <2>2, <2>3
<1>10. /\ slot'[i] = [key |-> k, val |-> todo[k]]
       /\ \A j \in Live \ {i} : slot'[j] = slot[j]
    BY <1>2, <1>3, <1>6
<1>11. ASSUME NEW l \in Key
       PROVE  AbsOf(todo', Held')[l] = AbsOf(todo, Held)[l]
    <2>1. CASE l = k
        <3>1. AbsOf(todo, Held)[l] = todo[k]
            BY <1>2, <1>7, <2>1, AbsAt
        <3>2. slot'[i] \in Held' /\ slot'[i].key = l /\ slot'[i].val = todo[k]
            BY <1>6, <1>9, <1>10, <2>1
        <3>3. l \notin DOMAIN todo'
            BY <1>2, <2>1
        <3> QED BY <1>9, <3>1, <3>2, <3>3, AbsAt
    <2>2. CASE l # k /\ l \in DOMAIN todo
        <3>1. l \in DOMAIN todo' /\ todo'[l] = todo[l]
            BY <1>2, <2>2
        <3> QED BY <1>7, <1>9, <2>2, <3>1, AbsAt
    <2>3. CASE l # k /\ l \notin DOMAIN todo
        <3>1. l \notin DOMAIN todo'
            BY <1>2, <2>3
        <3>2. CASE \E j \in Live : slot[j].key = l
            <4>1. PICK j \in Live : slot[j].key = l
                BY <3>2
            <4>2. j # i
                BY <1>5, <2>3, <4>1 DEF Live
            <4>3. slot'[j] = slot[j] /\ slot'[j] \in Held' /\ slot[j] \in Held
                BY <1>6, <1>7, <1>9, <1>10, <4>2
            <4>4. AbsOf(todo, Held)[l] = slot[j].val
                BY <1>7, <2>3, <4>1, <4>3, AbsAt
            <4>5. AbsOf(todo', Held')[l] = slot'[j].val
                BY <1>9, <3>1, <4>1, <4>3, AbsAt
            <4> QED BY <4>3, <4>4, <4>5
        <3>3. CASE \A j \in Live : slot[j].key # l
            <4>1. \A j \in Live' : slot'[j].key # l
                BY <1>6, <1>10, <2>3, <3>3
            <4>2. AbsOf(todo, Held)[l] = Absent
                BY <1>7, <2>3, <3>3, AbsAt
            <4>3. AbsOf(todo', Held')[l] = Absent
                BY <1>9, <3>1, <4>1, AbsAt
            <4> QED BY <4>2, <4>3
        <3> QED BY <3>2, <3>3
    <2> QED BY <2>1, <2>2, <2>3
<1>12. AbsOf(todo', Held') = AbsOf(todo, Held)
    BY <1>11, AbsEqual
<1> QED BY <1>12, AbsIs, AbsNext

(* A copy maps every key as the original does. *)
LEMMA CopyUnseen ==
    ASSUME HashInv, Copy
    PROVE  Abs' = Abs
<1> USE DEF Copy, Idle
<1>1. taken = {} /\ carried = None
    BY DEF HashInv, Settled
<1>2. Held' = {}
    BY <1>1 DEF Held, Live, Bucket, IsLive
<1>3. DOMAIN todo = {} /\ Held = {slot[i] : i \in Live} /\ Apart(Held)
    BY HeldApart DEF HashInv, Shape
<1>4. DOMAIN todo' = {slot[i].key : i \in Live}
    OBVIOUS
<1>5. ASSUME NEW k \in Key
      PROVE  AbsOf(todo', Held')[k] = AbsOf(todo, Held)[k]
    <2>1. CASE \E i \in Live : slot[i].key = k
        <3>1. PICK i \in Live : slot[i].key = k
            BY <2>1
        <3>2. k \in DOMAIN todo' /\ todo'[k] = Contents(k)
            BY <1>4, <3>1
        <3>3. AbsOf(todo', Held')[k] = slot[i].val
            BY <1>2, <3>1, <3>2, ContentsIs, AbsAt DEF Apart
        <3>4. AbsOf(todo, Held)[k] = slot[i].val
            BY <1>3, <3>1, AbsAt
        <3> QED BY <3>3, <3>4
    <2>2. CASE \A i \in Live : slot[i].key # k
        <3>1. k \notin DOMAIN todo'
            BY <1>4, <2>2
        <3>2. AbsOf(todo', Held')[k] = Absent
            BY <1>2, <3>1, AbsAt DEF Apart
        <3>3. AbsOf(todo, Held)[k] = Absent
            BY <1>3, <2>2, AbsAt
        <3> QED BY <3>2, <3>3
    <2> QED BY <2>1, <2>2
<1>6. AbsOf(todo', Held') = AbsOf(todo, Held)
    BY <1>5, AbsEqual
<1> QED BY <1>6, AbsIs, AbsNext

(* What is said of the function is said key by key. *)
LEMMA AbsFunction == Abs = [k \in Key |-> Abs[k]] /\ Abs' = [k \in Key |-> Abs'[k]]
BY DEF Abs

(* The calls that change the dict. *)
LEMMA StoreMaps ==
    ASSUME HashInv, NEW pairs \in Batch, Store(pairs)
    PROVE  Map!MapNext
<1> USE DEF Store, Idle
<1>1. DOMAIN todo = {} /\ Apart(Held)
    BY HeldApart DEF HashInv, Shape
<1>2. Held' = Held /\ todo' = pairs
    BY DEF Held, Live, Bucket, IsLive
<1>3. ASSUME NEW k \in Key
      PROVE  Abs'[k] = IF k \in DOMAIN pairs THEN pairs[k] ELSE Abs[k]
    <2>1. Abs'[k] = AbsOf(pairs, Held)[k] /\ Abs[k] = AbsOf(todo, Held)[k]
        BY <1>2, AbsIs, AbsNext
    <2>2. k \notin DOMAIN pairs => AbsOf(pairs, Held)[k] = AbsOf(todo, Held)[k]
        <3>1. CASE \E e \in Held : e.key = k
            BY <1>1, <3>1, AbsAt
        <3>2. CASE \A e \in Held : e.key # k
            BY <1>1, <3>2, AbsAt
        <3> QED BY <3>1, <3>2
    <2>3. k \in DOMAIN pairs => AbsOf(pairs, Held)[k] = pairs[k]
        BY <1>1, AbsAt
    <2> QED BY <2>1, <2>2, <2>3
<1>4. Abs' = [k \in Key |-> IF k \in DOMAIN pairs THEN pairs[k] ELSE Abs[k]]
    BY <1>3, AbsFunction
<1>5. DOMAIN pairs \in SUBSET Key /\ pairs \in [DOMAIN pairs -> Value]
    BY HashAssumption
<1>6. Map!MapStore(pairs)
    BY <1>4 DEF Map!MapStore
<1> QED BY <1>5, <1>6 DEF Map!MapNext

(* A removal is a removal of the map. *)
LEMMA RemoveMaps ==
    ASSUME HashInv, NEW k \in Key, RemoveKey(k)
    PROVE  Map!MapNext
<1>1. PICK s \in Bucket :
         LET i == Site(k, s, buckets)
         IN  /\ StopsAt(k, s) /\ IsLive(i)
             /\ flag' = [flag EXCEPT ![i] = "deleted"]
             /\ slot' = [slot EXCEPT ![i] = None]
    BY DEF RemoveKey
<1>2. /\ phase = "idle" /\ UNCHANGED <<buckets, todo, taken, carried>>
    BY DEF RemoveKey, Idle
<1>3. PICK i \in Bucket :
         /\ IsLive(i) /\ slot[i].key = k
         /\ flag' = [flag EXCEPT ![i] = "deleted"] /\ slot' = [slot EXCEPT ![i] = None]
    <2>1. buckets \in Nat \ {0} /\ s \in Nat
        BY DEF HashInv, Shape, Bucket
    <2>2. Site(k, s, buckets) \in Bucket
        BY <2>1, SiteIn DEF Bucket
    <2> QED BY <1>1, <2>2 DEF StopsAt, StopHere, IsLive, IsEmpty
<1>4. /\ flag \in [Bucket -> {"live", "deleted", "empty"}] /\ DOMAIN todo = {} /\ DOMAIN todo' = {}
      /\ taken = {} /\ carried = None /\ DOMAIN slot = Bucket
    BY <1>2 DEF HashInv, Shape, Settled
<1>5. i \in Live /\ Live' = Live \ {i} /\ Live \in SUBSET Bucket
    BY <1>2, <1>3, <1>4 DEF Bucket, Live, IsLive
<1>6. Held = {slot[j] : j \in Live} /\ Apart(Held)
    BY <1>2, HeldApart
<1>7. Held' = {slot[j] : j \in Live \ {i}}
    <2>1. \A j \in Live \ {i} : slot'[j] = slot[j]
        BY <1>3, <1>4, <1>5
    <2>2. Held' = {slot'[j] : j \in Live \ {i}}
        BY <1>2, <1>4, <1>5 DEF Held
    <2> QED BY <2>1, <2>2
<1>8. Apart(Held')
    BY <1>6, <1>7 DEF Apart
<1>9. \A j \in Live : slot[j].key = k => j = i
    BY <1>3, <1>5 DEF HashInv, Elements
<1>10. Abs[k] = slot[i].val /\ slot[i].val \in Value
    BY <1>3, <1>4, <1>5, <1>6, AbsIs, AbsAt, ContentsIs
<1>11. Abs[k] # Absent
    BY <1>10, HashAssumption
<1>12. Abs'[k] = Absent
    <2>1. \A e \in Held' : e.key # k
        BY <1>7, <1>9
    <2> QED BY <1>4, <1>8, <2>1, AbsNext, AbsAt
<1>13. ASSUME NEW l \in Key, l # k PROVE Abs'[l] = Abs[l]
    <2>1. CASE \E j \in Live : slot[j].key = l
        <3>1. PICK j \in Live : slot[j].key = l
            BY <2>1
        <3>2. slot[j] \in Held /\ slot[j] \in Held'
            BY <1>3, <1>6, <1>7, <1>13, <3>1
        <3> QED BY <1>4, <1>6, <1>8, <3>1, <3>2, AbsIs, AbsNext, AbsAt
    <2>2. CASE \A j \in Live : slot[j].key # l
        <3>1. (\A e \in Held : e.key # l) /\ (\A e \in Held' : e.key # l)
            BY <1>6, <1>7, <2>2
        <3> QED BY <1>4, <1>6, <1>8, <3>1, AbsIs, AbsNext, AbsAt
    <2> QED BY <2>1, <2>2
<1>14. Abs' = [Abs EXCEPT ![k] = Absent]
    BY <1>12, <1>13, AbsFunction
<1>15. Map!MapRemove(k)
    BY <1>11, <1>14 DEF Map!MapRemove
<1> QED BY <1>15 DEF Map!MapNext

(* A clear is a clear of the map. *)
LEMMA ClearMaps ==
    ASSUME HashInv, Clear
    PROVE  Map!MapNext
<1> USE DEF Clear, Idle
<1>1. DOMAIN todo' = {} /\ Held' = {}
    BY DEF HashInv, Shape, Settled, Held, Live, Bucket, IsLive
<1>2. \A k \in Key : Abs'[k] = Absent
    BY <1>1, AbsNext, AbsAt DEF Apart
<1>3. Abs' = [k \in Key |-> Absent]
    BY <1>2, AbsFunction
<1>4. Map!MapClear
    BY <1>3 DEF Map!MapClear
<1> QED BY <1>4 DEF Map!MapNext

(* The empty table is the empty map. *)
LEMMA InitMap == HashInit => Map!MapInit
<1> SUFFICES ASSUME HashInit PROVE Map!MapInit
    OBVIOUS
<1>1. DOMAIN todo = {} /\ Held = {}
    BY DEF HashInit, TableInit, Held, Live, Bucket
<1>2. \A k \in Key : Abs[k] = Absent
    BY <1>1, AbsIs, AbsAt DEF Apart
<1>3. Abs = [k \in Key |-> Absent]
    BY <1>2, AbsFunction
<1> QED BY <1>3 DEF Map!MapInit

(* A step of a call in progress is not seen; the others are the dict's.    *)
LEMMA HashStepMaps ==
    HashInv /\ [HashNext]_hvars => /\ [Map!MapNext]_Abs
                                   /\ phase # "idle" => Abs' = Abs
<1> SUFFICES ASSUME HashInv, [HashNext]_hvars
             PROVE  [Map!MapNext]_Abs /\ (phase # "idle" => Abs' = Abs)
    OBVIOUS
<1>1. CASE UNCHANGED hvars
    BY <1>1, StillStands DEF hvars, tvars, rvars
<1>2. CASE HashStep
    <2>1. CASE Stored
        BY <2>1, StillStands DEF Stored, tvars, rvars
    <2>2. CASE ResizeFor \/ TakeOut \/ PutDown \/ Rehashed \/ Insert
        BY <2>2, ResizeForUnseen, TakeOutUnseen, PutDownUnseen, RehashedUnseen, InsertUnseen
    <2> QED BY <1>2, <2>1, <2>2 DEF HashStep
<1>3. CASE Iterate \/ IterNext
    <2>1. UNCHANGED <<tvars, rvars, todo>>
        BY <1>3 DEF Iterate, IterNext, tvars, rvars
    <2> QED BY <2>1, StillStands
<1>4. CASE Copy
    BY <1>4, CopyUnseen
<1>5. CASE Clear
    BY <1>5, ClearMaps DEF Clear, Idle
<1>6. ASSUME NEW pairs \in Batch, Store(pairs)
      PROVE  [Map!MapNext]_Abs /\ (phase # "idle" => Abs' = Abs)
    BY <1>6, StoreMaps DEF Store, Idle
<1>7. ASSUME NEW k \in Key, RemoveKey(k)
      PROVE  [Map!MapNext]_Abs /\ (phase # "idle" => Abs' = Abs)
    BY <1>7, RemoveMaps DEF RemoveKey, Idle
<1>8. CASE PopFirst
    <2>1. PICK i \in Live : RemoveKey(slot[i].key)
        BY <1>8 DEF PopFirst
    <2>2. slot[i].key \in Key
        BY Sets
    <2> QED BY <1>7, <2>1, <2>2
<1> QED BY <1>1, <1>2, <1>3, <1>4, <1>5, <1>6, <1>7, <1>8 DEF HashNext

(* The hash table (khash_obj.h), with its tombstones and its rehashing in  *)
(* place, implements a partial function that each call changes in one step.*)
THEOREM RefinesMap == HashSpec => HashImplements
<1>1. HashSpec => []HashInv
    BY HashInvariance
<1>2. HashInit => Map!MapInit
    BY InitMap
<1>3. HashInv /\ [HashNext]_hvars => [Map!MapNext]_Abs
    BY HashStepMaps
<1>4. HashInv /\ [HashNext]_hvars => [phase # "idle" => Abs' = Abs]_hvars
    BY HashStepMaps
<1> QED BY <1>1, <1>2, <1>3, <1>4, PTL DEF HashSpec, HashImplements, Map!MapSpec

-----------------------------------------------------------------------------
(* Lists: slices *)

(* Larger factors make larger products. *)
LEMMA Scaled ==
    ASSUME NEW p \in Int, NEW q \in Int, NEW s \in Nat, p <= q
    PROVE  p * s <= q * s
<1>1. (q - p) * s >= 0
    BY SMTT(20)
<1>2. (q - p) * s = q * s - p * s
    BY SMTT(20)
<1>3. p * s \in Int /\ q * s \in Int
    OBVIOUS
<1> QED BY <1>1, <1>2, <1>3

(* Division and remainder. *)
LEMMA Divided ==
    ASSUME NEW d \in Nat, NEW s \in Nat \ {0}
    PROVE  /\ d \div s \in Nat /\ d % s \in 0 .. s - 1
           /\ d = (d \div s) * s + (d % s)
BY SMTT(20)

(* What is taken from a multiple, and from nothing else, leaves none. *)
LEMMA Multiple ==
    ASSUME NEW q \in Nat, NEW s \in Nat \ {0}
    PROVE  (q * s) % s = 0 /\ (q * s) \div s = q
<1> DEFINE d == q * s
<1>1. d \in Nat
    BY SMTT(20)
<1> DEFINE r == d \div s   m == d % s
<1>2. r \in Nat /\ m \in 0 .. s - 1 /\ d = r * s + m
    BY <1>1, Divided
<1> HIDE DEF r, m
<1>3. ~(r < q)
    <2> SUFFICES ASSUME r < q PROVE FALSE
        OBVIOUS
    <2>1. (r + 1) * s <= q * s
        BY <1>2, Scaled
    <2>2. (r + 1) * s = r * s + s
        BY <1>2, SMTT(20)
    <2>3. r * s \in Int
        BY <1>2
    <2> QED BY <1>1, <1>2, <2>1, <2>2, <2>3
<1>4. ~(r > q)
    <2> SUFFICES ASSUME r > q PROVE FALSE
        OBVIOUS
    <2>1. (q + 1) * s <= r * s
        BY <1>2, Scaled
    <2>2. (q + 1) * s = q * s + s
        BY SMTT(20)
    <2>3. r * s \in Int
        BY <1>2
    <2> QED BY <1>1, <1>2, <2>1, <2>2, <2>3
<1>5. r = q
    BY <1>2, <1>3, <1>4
<1>6. m = 0
    BY <1>1, <1>2, <1>5
<1> QED BY <1>5, <1>6 DEF r, m

(* As many steps of s as fit, rounded up, reach every element in between.  *)
LEMMA Progression ==
    ASSUME NEW d \in Nat, NEW s \in Nat \ {0}
    PROVE  /\ CeilDiv(d, s) \in Nat
           /\ \A k \in Span(CeilDiv(d, s)) : k * s \in Nat /\ k * s < d /\ (k * s) % s = 0
           /\ \A j \in Span(d) : j % s = 0 => \E k \in Span(CeilDiv(d, s)) : j = k * s
           /\ d % s = 0 => d \div s = CeilDiv(d, s)
<1> DEFINE c == CeilDiv(d, s)   r == (d + s - 1) % s
<1>1. c \in Nat /\ r \in 0 .. s - 1 /\ d + s - 1 = c * s + r
    <2>1. d + s - 1 \in Nat
        OBVIOUS
    <2> QED BY <2>1, Divided DEF CeilDiv
<1> HIDE DEF c, r
<1>2. c * s \in Int /\ c * s <= d + s - 1 /\ c * s >= d
    BY <1>1
<1>3. ASSUME NEW k \in Span(c) PROVE k * s \in Nat /\ k * s < d /\ (k * s) % s = 0
    <2>1. k \in Nat /\ k + 1 <= c
        BY <1>1 DEF Span
    <2>2. (k + 1) * s <= c * s
        BY <1>1, <2>1, Scaled
    <2>3. (k + 1) * s = k * s + s /\ k * s \in Nat
        BY <2>1, SMTT(20)
    <2>4. (k * s) % s = 0
        BY <2>1, Multiple
    <2> QED BY <1>2, <2>2, <2>3, <2>4
<1>4. ASSUME NEW j \in Span(d), j % s = 0 PROVE \E k \in Span(c) : j = k * s
    <2> DEFINE k == j \div s
    <2>1. j \in Nat /\ j < d
        BY DEF Span
    <2>2. k \in Nat /\ j = k * s
        <3>1. k \in Nat /\ j = k * s + (j % s)
            BY <2>1, Divided
        <3> HIDE DEF k
        <3>2. k * s \in Int
            BY <3>1
        <3> QED BY <3>1, <3>2, <1>4
    <2> HIDE DEF k
    <2>3. k < c
        <3> SUFFICES ASSUME c <= k PROVE FALSE
            BY <1>1, <2>2
        <3>1. c * s <= k * s
            BY <1>1, <2>2, Scaled
        <3> QED BY <1>2, <2>1, <2>2, <3>1
    <2> QED BY <2>2, <2>3, <1>1 DEF Span
<1>5. ASSUME d % s = 0 PROVE d \div s = c
    <2> DEFINE q == d \div s
    <2>1. q \in Nat /\ d = q * s
        <3>1. q \in Nat /\ d = q * s + (d % s)
            BY Divided
        <3> HIDE DEF q
        <3>2. q * s \in Int
            BY <3>1
        <3> QED BY <3>1, <3>2, <1>5
    <2> HIDE DEF q
    <2>2. ~(q < c)
        <3> SUFFICES ASSUME q < c PROVE FALSE
            OBVIOUS
        <3>1. (q + 1) * s <= c * s
            BY <1>1, <2>1, Scaled
        <3>2. (q + 1) * s = q * s + s
            BY <2>1, SMTT(20)
        <3> QED BY <1>2, <2>1, <3>1, <3>2
    <2>3. ~(c < q)
        <3> SUFFICES ASSUME c < q PROVE FALSE
            OBVIOUS
        <3>1. (c + 1) * s <= q * s
            BY <1>1, <2>1, Scaled
        <3>2. (c + 1) * s = c * s + s
            BY <1>1, SMTT(20)
        <3> QED BY <1>2, <2>1, <3>1, <3>2
    <2>4. q = c
        BY <1>1, <2>1, <2>2, <2>3
    <2> QED BY <2>4 DEF q
<1> QED BY <1>1, <1>3, <1>4, <1>5 DEF c

Bound == Int \cup {NoBound}

(* A bound lies in the list or at its end. *)
LEMMA FixInside ==
    ASSUME len \in Nat, NEW i \in Int
    PROVE  Fix(i) \in 0 .. len
BY DEF Fix

(* Forwards, a slice runs from its first element to before its stop. *)
LEMMA Forwards ==
    ASSUME len \in Nat, NEW lo \in Bound, NEW hi \in Bound, NEW step \in Int, step > 0,
           Ordered(lo, hi, step)
    PROVE  LET a == First(lo, hi, step)   b == Stop(lo, hi, step)
           IN  /\ a \in 0 .. len /\ b \in 0 .. len /\ a <= b
               /\ Distance(lo, hi, step) = b - a /\ Abs1(step) = step
               /\ Meant(lo, hi, step) = {i \in a .. b - 1 : (i - a) % step = 0}
<1> DEFINE a == First(lo, hi, step)   b == Stop(lo, hi, step)
<1>1. a \in 0 .. len
    <2>1. CASE lo = NoBound
        BY <2>1 DEF First
    <2>2. CASE lo # NoBound
        BY <2>2, FixInside DEF First, Bound
    <2> QED BY <2>1, <2>2
<1>2. b \in 0 .. len
    <2>1. CASE hi = NoBound
        BY <2>1 DEF Stop
    <2>2. CASE hi # NoBound
        BY <2>2, FixInside DEF Stop, Bound
    <2> QED BY <2>1, <2>2
<1>3. a <= b
    BY DEF Ordered
<1>4. Distance(lo, hi, step) = b - a /\ Abs1(step) = step
    <2>1. Distance(lo, hi, step) = Abs1(b - a)
        BY DEF Distance
    <2> HIDE DEF a, b
    <2> QED BY <1>1, <1>2, <1>3, <2>1 DEF Abs1
<1>5. Meant(lo, hi, step) = {i \in Span(len) : i >= a /\ i < b /\ (i - a) % step = 0}
    BY DEF Meant, First, Stop
<1> HIDE DEF a, b
<1>6. Meant(lo, hi, step) = {i \in a .. b - 1 : (i - a) % step = 0}
    BY <1>1, <1>2, <1>5 DEF Span
<1> QED BY <1>1, <1>2, <1>3, <1>4, <1>6 DEF a, b

(* Backwards over everything, it runs from the last element to the first.  *)
LEMMA Backwards ==
    ASSUME len \in Nat, NEW step \in Int, step < 0
    PROVE  /\ First(NoBound, NoBound, step) = len - 1 /\ Abs1(step) = -step
           /\ Distance(NoBound, NoBound, step) = len
           /\ Meant(NoBound, NoBound, step) =
                {i \in Span(len) : (len - 1 - i) % (-step) = 0}
<1>1. First(NoBound, NoBound, step) = len - 1 /\ Stop(NoBound, NoBound, step) = -1
    BY DEF First, Stop
<1>2. Abs1(step) = -step /\ Distance(NoBound, NoBound, step) = len
    BY <1>1 DEF Distance, Abs1
<1>3. Meant(NoBound, NoBound, step) =
        {i \in Span(len) : i <= len - 1 /\ i > -1 /\ (len - 1 - i) % (-step) = 0}
    BY DEF Meant
<1>4. \A i \in Span(len) : i <= len - 1 /\ i > -1
    BY DEF Span
<1> QED BY <1>1, <1>2, <1>3, <1>4

(* An ordered slice visits what is meant, each slot once. *)
LEMMA SliceVisits ==
    ASSUME len \in Nat, NEW lo \in Bound, NEW hi \in Bound, NEW step \in Int \ {0},
           Ordered(lo, hi, step)
    PROVE  LET c == Count(lo, hi, step)
           IN  /\ c \in Nat
               /\ Visited(lo, hi, step, c) = Meant(lo, hi, step)
               /\ Meant(lo, hi, step) \in SUBSET Span(len)
               /\ First(lo, hi, step) \in Int
               /\ Distance(lo, hi, step) % Abs1(step) = 0 => SeqCount(lo, hi, step) = c
<1> DEFINE a == First(lo, hi, step)   d == Distance(lo, hi, step)
           c == Count(lo, hi, step)   M == Meant(lo, hi, step)
<1>1. CASE step > 0
    <2> DEFINE b == Stop(lo, hi, step)
    <2>1. /\ a \in 0 .. len /\ b \in 0 .. len /\ a <= b
          /\ d = b - a /\ Abs1(step) = step
          /\ M = {i \in a .. b - 1 : (i - a) % step = 0}
        BY <1>1, Forwards
    <2>2. c = CeilDiv(d, step) /\ SeqCount(lo, hi, step) = d \div step
        BY <2>1 DEF Count, SeqCount
    <2>3. d \in Nat /\ step \in Nat \ {0}
        BY <1>1, <2>1
    <2>4. Visited(lo, hi, step, c) = {a + k * step : k \in Span(c)}
        BY DEF Visited
    <2> HIDE DEF a, b, d, c, M
    <2>5. /\ c \in Nat
          /\ \A k \in Span(c) : k * step \in Nat /\ k * step < d /\ (k * step) % step = 0
          /\ \A j \in Span(d) : j % step = 0 => \E k \in Span(c) : j = k * step
          /\ d % step = 0 => d \div step = c
        BY <2>2, <2>3, Progression
    <2>6. ASSUME NEW k \in Span(c) PROVE a + k * step \in M
        <3> DEFINE ks == k * step
        <3>1. ks \in Nat /\ ks < d /\ ks % step = 0
            BY <2>5
        <3> HIDE DEF ks
        <3>2. a + ks \in a .. b - 1 /\ (a + ks) - a = ks
            BY <2>1, <3>1
        <3> QED BY <2>1, <3>1, <3>2 DEF ks
    <2>7. ASSUME NEW i \in M PROVE \E k \in Span(c) : i = a + k * step
        <3>1. i \in Int /\ i - a \in Span(d) /\ (i - a) % step = 0
            BY <2>1 DEF Span
        <3>2. PICK k \in Span(c) : i - a = k * step
            BY <2>5, <3>1
        <3>3. k * step \in Nat
            BY <2>5
        <3> QED BY <2>1, <3>1, <3>2, <3>3
    <2>8. Visited(lo, hi, step, c) = M
        BY <2>4, <2>6, <2>7
    <2>9. M \in SUBSET Span(len) /\ a \in Int
        BY <2>1 DEF Span
    <2> QED BY <2>1, <2>2, <2>5, <2>8, <2>9 DEF a, d, c, M
<1>2. CASE step < 0
    <2>1. lo = NoBound /\ hi = NoBound
        BY <1>2 DEF Ordered
    <2>2. a = len - 1 /\ Abs1(step) = -step /\ d = len
          /\ M = {i \in Span(len) : (len - 1 - i) % (-step) = 0}
        BY <1>2, <2>1, Backwards
    <2> DEFINE s == -step
    <2>3. c = CeilDiv(d, s) /\ SeqCount(lo, hi, step) = d \div s
        BY <2>2 DEF Count, SeqCount
    <2>4. d \in Nat /\ s \in Nat \ {0}
        BY <1>2, <2>2
    <2>5. Visited(lo, hi, step, c) = {a + k * step : k \in Span(c)}
        BY DEF Visited
    <2>6. ASSUME NEW k \in Int PROVE k * step = -(k * s) /\ k * s \in Int
        BY SMTT(20)
    <2> HIDE DEF a, d, c, M, s
    <2>7. /\ c \in Nat
          /\ \A k \in Span(c) : k * s \in Nat /\ k * s < d /\ (k * s) % s = 0
          /\ \A j \in Span(d) : j % s = 0 => \E k \in Span(c) : j = k * s
          /\ d % s = 0 => d \div s = c
        BY <2>3, <2>4, Progression
    <2>8. ASSUME NEW k \in Span(c) PROVE a + k * step \in M
        <3> DEFINE ks == k * s
        <3>1. ks \in Nat /\ ks < d /\ ks % s = 0
            BY <2>7
        <3>2. k * step = -ks
            BY <2>6, <2>7 DEF Span
        <3> HIDE DEF ks
        <3>3. a + k * step \in Span(len) /\ len - 1 - (a + k * step) = ks
            BY <2>2, <3>1, <3>2 DEF Span
        <3> QED BY <2>2, <3>1, <3>3 DEF s
    <2>9. ASSUME NEW i \in M PROVE \E k \in Span(c) : i = a + k * step
        <3>1. i \in Int /\ len - 1 - i \in Span(d) /\ (len - 1 - i) % s = 0
            BY <2>2 DEF Span, s
        <3>2. PICK k \in Span(c) : len - 1 - i = k * s
            BY <2>7, <3>1
        <3>3. k * step = -(k * s) /\ k * s \in Int
            BY <2>6, <2>7 DEF Span
        <3> QED BY <2>2, <3>1, <3>2, <3>3
    <2>10. Visited(lo, hi, step, c) = M
        BY <2>5, <2>8, <2>9
    <2>11. M \in SUBSET Span(len) /\ a \in Int
        BY <2>2
    <2>12. d % Abs1(step) = 0 => SeqCount(lo, hi, step) = c
        BY <2>2, <2>3, <2>7 DEF s
    <2> QED BY <2>7, <2>10, <2>11, <2>12 DEF a, d, c, M
<1> QED BY <1>1, <1>2

-----------------------------------------------------------------------------
(* Deleting slots *)

(* What is not at 0 and comes nowhere for the first time never comes.      *)
LEMMA NeverComes ==
    ASSUME NEW m \in Nat, NEW T \in SUBSET (0 .. m), 0 \notin T,
           \A k \in 1 .. m : k \in T => k - 1 \in T
    PROVE  T = {}
<1> SUFFICES ASSUME T # {} PROVE FALSE
    OBVIOUS
<1>1. T \in SUBSET Nat
    OBVIOUS
<1>2. PICK x \in T : \A y \in T : x <= y
    BY <1>1, LeastOf
<1>3. x \in 1 .. m
    OBVIOUS
<1> QED BY <1>2, <1>3

(* The first m slots of f without those in D: g[k] after k of them *)
NextKept(g, f, D, k) ==
    IF k = 0 THEN <<>> ELSE IF k - 1 \in D THEN g[k - 1] ELSE Append(g[k - 1], f[k])
Keeps(g, f, D, S, m) ==
    g \in [0 .. m -> Seq(S)] /\ \A k \in 0 .. m : g[k] = NextKept(g, f, D, k)

(* The recursive function of Kept exists, by the least number of which it would have none. *)
LEMMA KeepsExist ==
    ASSUME NEW m \in Nat, NEW f, NEW D, NEW S, \A k \in 1 .. m : k - 1 \notin D => f[k] \in S
    PROVE  \E g : Keeps(g, f, D, S, m)
<1> DEFINE T == {n \in 0 .. m : ~\E g : Keeps(g, f, D, S, n)}
<1>1. 0 \notin T
    <2>1. Keeps([k \in 0 .. 0 |-> <<>>], f, D, S, 0)
        BY DEF Keeps, NextKept
    <2> QED BY <2>1
<1>2. ASSUME NEW n \in 1 .. m, n - 1 \notin T PROVE n \notin T
    <2>1. n - 1 \in 0 .. m
        OBVIOUS
    <2>2. PICK g : Keeps(g, f, D, S, n - 1)
        BY <1>2, <2>1
    <2>3. g[n - 1] \in Seq(S) /\ \A k \in 0 .. n - 1 : g[k] \in Seq(S)
        BY <2>2 DEF Keeps
    <2>4. NextKept(g, f, D, n) \in Seq(S)
        BY <2>3, AppendProperties DEF NextKept
    <2> DEFINE h == [k \in 0 .. n |-> NextKept(g, f, D, k)]
    <2>5. \A k \in 0 .. n - 1 : h[k] = g[k]
        BY <2>2 DEF Keeps
    <2>6. \A k \in 0 .. n : k \in 0 .. n - 1 \/ k = n
        OBVIOUS
    <2>7. h \in [0 .. n -> Seq(S)]
        <3> SUFFICES ASSUME NEW k \in 0 .. n PROVE NextKept(g, f, D, k) \in Seq(S)
            OBVIOUS
        <3>1. CASE k = n
            BY <3>1, <2>4
        <3>2. CASE k \in 0 .. n - 1
            BY <3>2, <2>2, <2>3 DEF Keeps
        <3> QED BY <3>1, <3>2, <2>6
    <2>8. \A k \in 0 .. n : h[k] = NextKept(h, f, D, k)
        <3> SUFFICES ASSUME NEW k \in 0 .. n
                     PROVE  NextKept(g, f, D, k) = NextKept(h, f, D, k)
            OBVIOUS
        <3>1. CASE k = 0
            BY <3>1 DEF NextKept
        <3>2. CASE k # 0
            <4>1. k - 1 \in 0 .. n - 1
                BY <3>2
            <4> HIDE DEF h
            <4>2. h[k - 1] = g[k - 1]
                BY <4>1, <2>5
            <4> QED BY <4>2, <3>2 DEF NextKept
        <3> QED BY <3>1, <3>2
    <2>9. Keeps(h, f, D, S, n)
        BY <2>7, <2>8 DEF Keeps
    <2> QED BY <2>9
<1> HIDE DEF T
<1>3. T = {}
    <2>1. T \in SUBSET (0 .. m)
        BY DEF T
    <2> QED BY <1>1, <1>2, <2>1, NeverComes
<1>4. m \in 0 .. m
    OBVIOUS
<1> QED BY <1>3, <1>4 DEF T

(* No other function satisfies its equation. *)
LEMMA KeepsUnique ==
    ASSUME NEW m \in Nat, NEW f, NEW D, NEW S, NEW g, NEW h, Keeps(g, f, D, S, m),
           \A k \in 0 .. m : h[k] = NextKept(h, f, D, k)
    PROVE  \A k \in 0 .. m : h[k] = g[k]
<1> DEFINE T == {k \in 0 .. m : h[k] # g[k]}
<1>1. 0 \notin T
    <2>1. 0 \in 0 .. m
        OBVIOUS
    <2> QED BY <2>1 DEF Keeps, NextKept
<1>2. ASSUME NEW k \in 1 .. m, k - 1 \notin T PROVE k \notin T
    <2>1. h[k - 1] = g[k - 1]
        BY <1>2
    <2>2. k \in 0 .. m /\ k # 0
        OBVIOUS
    <2>3. h[k] = NextKept(h, f, D, k) /\ g[k] = NextKept(g, f, D, k)
        BY <2>2 DEF Keeps
    <2> QED BY <2>1, <2>2, <2>3 DEF NextKept
<1> HIDE DEF T
<1>3. T = {}
    <2>1. T \in SUBSET (0 .. m)
        BY DEF T
    <2> QED BY <1>1, <1>2, <2>1, NeverComes
<1> QED BY <1>3 DEF T

(* Kept is what its recursion says. *)
LEMMA KeptIs ==
    ASSUME len \in Nat, NEW f, NEW D, NEW S, \A k \in 1 .. len : k - 1 \notin D => f[k] \in S
    PROVE  \E g : Keeps(g, f, D, S, len) /\ Kept(f, D) = g[len]
<1> DEFINE K == CHOOSE g : g = [k \in 0 .. len |->
                    IF k = 0 THEN <<>>
                    ELSE IF k - 1 \in D THEN g[k - 1] ELSE Append(g[k - 1], f[k])]
<1>1. PICK g : Keeps(g, f, D, S, len)
    BY KeepsExist
<1>2. g = [k \in 0 .. len |->
            IF k = 0 THEN <<>> ELSE IF k - 1 \in D THEN g[k - 1] ELSE Append(g[k - 1], f[k])]
    BY <1>1 DEF Keeps, NextKept
<1>3. K = [k \in 0 .. len |->
            IF k = 0 THEN <<>> ELSE IF k - 1 \in D THEN K[k - 1] ELSE Append(K[k - 1], f[k])]
    BY <1>2
<1>4. Kept(f, D) = K[len]
    BY DEF Kept
<1> HIDE DEF K
<1>5. \A k \in 0 .. len : K[k] = NextKept(K, f, D, k)
    BY <1>3 DEF NextKept
<1>6. \A k \in 0 .. len : K[k] = g[k]
    BY <1>1, <1>5, KeepsUnique
<1>7. len \in 0 .. len
    OBVIOUS
<1> QED BY <1>1, <1>4, <1>6, <1>7

(* It has an element less for each slot that goes. *)
LEMMA KeptCounts ==
    ASSUME len \in Nat, NEW f, NEW D \in SUBSET Span(len), NEW S,
           \A k \in 1 .. len : k - 1 \notin D => f[k] \in S
    PROVE  /\ Kept(f, D) \in Seq(S)
           /\ IsFiniteSet(D) /\ Cardinality(D) \in Nat
           /\ Len(Kept(f, D)) + Cardinality(D) = len
<1>1. PICK g : Keeps(g, f, D, S, len) /\ Kept(f, D) = g[len]
    BY KeptIs
<1> DEFINE Gone(k) == D \cap Span(k)
           Good(k) == /\ IsFiniteSet(Gone(k)) /\ Cardinality(Gone(k)) \in Nat
                      /\ Len(g[k]) + Cardinality(Gone(k)) = k
           T == {k \in 0 .. len : ~Good(k)}
<1>2. \A k \in 0 .. len : g[k] \in Seq(S)
    BY <1>1 DEF Keeps
<1>3. 0 \notin T
    <2>1. Gone(0) = {} /\ g[0] = <<>>
        BY <1>1 DEF Keeps, NextKept, Span
    <2>2. Good(0)
        BY <2>1, FS_EmptySet
    <2> QED BY <2>2
<1>4. ASSUME NEW k \in 1 .. len, k - 1 \notin T PROVE k \notin T
    <2>1. k - 1 \in 0 .. len /\ k \in 0 .. len /\ k # 0
        OBVIOUS
    <2>2. Good(k - 1) /\ g[k - 1] \in Seq(S)
        BY <1>2, <1>4, <2>1
    <2>3. g[k] = NextKept(g, f, D, k)
        BY <1>1, <2>1 DEF Keeps
    <2>4. CASE k - 1 \in D
        <3>1. g[k] = g[k - 1]
            BY <2>1, <2>3, <2>4 DEF NextKept
        <3>2. Gone(k) = Gone(k - 1) \cup {k - 1} /\ k - 1 \notin Gone(k - 1)
            BY <2>4 DEF Span
        <3>a. /\ IsFiniteSet(Gone(k - 1)) /\ Cardinality(Gone(k - 1)) \in Nat
              /\ Len(g[k - 1]) + Cardinality(Gone(k - 1)) = k - 1
            BY <2>2
        <3> HIDE DEF Gone
        <3>3. IsFiniteSet(Gone(k)) /\ Cardinality(Gone(k)) = Cardinality(Gone(k - 1)) + 1
            BY <3>a, <3>2, FS_AddElement
        <3>4. Len(g[k - 1]) \in Nat
            BY <2>2, LenProperties
        <3>5. Good(k)
            BY <3>a, <3>1, <3>3, <3>4, SMTT(30)
        <3> QED BY <3>5
    <2>5. CASE k - 1 \notin D
        <3>1. g[k] = Append(g[k - 1], f[k]) /\ f[k] \in S
            BY <2>1, <2>3, <2>5 DEF NextKept
        <3>2. Len(g[k]) = Len(g[k - 1]) + 1 /\ Len(g[k - 1]) \in Nat
            BY <2>2, <3>1, AppendProperties, LenProperties
        <3>3. Gone(k) = Gone(k - 1)
            BY <2>5 DEF Span
        <3>a. /\ IsFiniteSet(Gone(k - 1)) /\ Cardinality(Gone(k - 1)) \in Nat
              /\ Len(g[k - 1]) + Cardinality(Gone(k - 1)) = k - 1
            BY <2>2
        <3> HIDE DEF Gone
        <3>b. IsFiniteSet(Gone(k)) /\ Cardinality(Gone(k)) = Cardinality(Gone(k - 1))
            BY <3>a, <3>3
        <3>c. Len(g[k]) + Cardinality(Gone(k)) = k
            <4> DEFINE n == Len(g[k - 1])   c == Cardinality(Gone(k - 1))
            <4>1. n + c = k - 1 /\ n \in Nat /\ c \in Nat /\ k \in Nat
                BY <3>a, <3>2
            <4>2. Len(g[k]) = n + 1 /\ Cardinality(Gone(k)) = c
                BY <3>b, <3>2
            <4> HIDE DEF n, c
            <4> QED BY <4>1, <4>2
        <3>4. Good(k)
            BY <3>a, <3>b, <3>c
        <3> QED BY <3>4
    <2> QED BY <2>4, <2>5
<1>5. T = {}
    <2>1. T \in SUBSET (0 .. len)
        OBVIOUS
    <2> HIDE DEF T
    <2> QED BY <1>3, <1>4, <2>1, NeverComes
<1>6. len \in 0 .. len /\ Gone(len) = D
    OBVIOUS
<1> QED BY <1>1, <1>2, <1>5, <1>6

(* What lies in the slots that go does not matter. *)
Alike(h, f, D, S) == \A k \in 1 .. len : k - 1 \notin D => f[k] \in S /\ h[k] = f[k]
LEMMA KeptSame ==
    ASSUME len \in Nat, NEW f, NEW h, NEW D, NEW S, Alike(h, f, D, S)
    PROVE  Kept(h, D) = Kept(f, D)
<1>0. \A k \in 1 .. len : k - 1 \notin D => f[k] \in S /\ h[k] = f[k]
    BY DEF Alike
<1>1. PICK g : Keeps(g, f, D, S, len) /\ Kept(f, D) = g[len]
    BY <1>0, KeptIs
<1>2. \A k \in 1 .. len : k - 1 \notin D => h[k] \in S
    BY <1>0
<1>3. PICK e : Keeps(e, h, D, S, len) /\ Kept(h, D) = e[len]
    BY <1>2, KeptIs
<1>4. \A k \in 0 .. len : e[k] = NextKept(e, f, D, k)
    <2> TAKE k \in 0 .. len
    <2>1. e[k] = NextKept(e, h, D, k)
        BY <1>3 DEF Keeps
    <2>2. k # 0 => k \in 1 .. len
        OBVIOUS
    <2> QED BY <1>0, <2>1, <2>2 DEF NextKept
<1>5. \A k \in 0 .. len : e[k] = g[k]
    BY <1>1, <1>4, KeepsUnique
<1>6. len \in 0 .. len
    OBVIOUS
<1> QED BY <1>1, <1>3, <1>5, <1>6

(* Without a block, what lies behind it comes up to its start. *)
Closed(s, f, a, b) ==
    /\ s \in Seq(Elem) /\ Len(s) = len - (b - a)
    /\ \A j \in 1 .. a : s[j] = f[j]
    /\ \A j \in a + 1 .. len - (b - a) : s[j] = f[j + (b - a)]

(* The sequence without the block from a to b. *)
LEMMA KeptBlock ==
    ASSUME len \in Nat, NEW f \in Seq(Elem), Len(f) = len,
           NEW a \in 0 .. len, NEW b \in a .. len,
           NEW s, s = Kept(f, a .. b - 1)
    PROVE  Closed(s, f, a, b)
<1> DEFINE D == a .. b - 1
           L(k) == IF k <= a THEN k ELSE IF k <= b THEN a ELSE a + (k - b)
           At(j) == IF j <= a THEN j ELSE j + (b - a)
<1>1. PICK g : Keeps(g, f, D, Elem, len) /\ Kept(f, D) = g[len]
    <2>1. \A k \in 1 .. len : k - 1 \notin D => f[k] \in Elem
        BY ElementOfSeq
    <2> HIDE DEF D
    <2> QED BY <2>1, KeptIs
<1> DEFINE Good(k) == Len(g[k]) = L(k) /\ \A j \in 1 .. L(k) : g[k][j] = f[At(j)]
           T == {k \in 0 .. len : ~Good(k)}
<1>2. 0 \notin T
    <2>1. g[0] = <<>> /\ L(0) = 0
        BY <1>1 DEF Keeps, NextKept
    <2>2. Good(0)
        BY <2>1
    <2> QED BY <2>2
<1>3. ASSUME NEW k \in 1 .. len, k - 1 \notin T PROVE k \notin T
    <2>1. k - 1 \in 0 .. len /\ k \in 0 .. len /\ k # 0
        OBVIOUS
    <2>2. Good(k - 1) /\ g[k - 1] \in Seq(Elem)
        BY <1>1, <1>3, <2>1 DEF Keeps
    <2>3. g[k] = NextKept(g, f, D, k)
        BY <1>1, <2>1 DEF Keeps
    <2>4. CASE k - 1 \in D
        <3>1. g[k] = g[k - 1]
            BY <2>1, <2>3, <2>4 DEF NextKept
        <3>2. L(k) = L(k - 1)
            BY <2>4
        <3>3. Good(k)
            BY <2>2, <3>1, <3>2
        <3> QED BY <3>3
    <2>5. CASE k - 1 \notin D
        <3>1. g[k] = Append(g[k - 1], f[k]) /\ f[k] \in Elem
            BY <2>1, <2>3, <2>5, ElementOfSeq DEF NextKept
        <3>2. L(k) = L(k - 1) + 1 /\ L(k - 1) \in Nat /\ At(L(k)) = k
            BY <2>5
        <3>3. /\ Len(g[k]) = L(k)
              /\ \A j \in 1 .. L(k - 1) : g[k][j] = g[k - 1][j]
              /\ g[k][L(k)] = f[k]
            BY <2>2, <3>1, <3>2, AppendProperties, SMTT(30)
        <3>4. \A j \in 1 .. L(k) : j \in 1 .. L(k - 1) \/ j = L(k)
            BY <3>2
        <3> HIDE DEF L, At
        <3>5. Good(k)
            BY <2>2, <3>2, <3>3, <3>4
        <3> QED BY <3>5
    <2> QED BY <2>4, <2>5
<1>4. T = {}
    <2>1. T \in SUBSET (0 .. len)
        OBVIOUS
    <2> HIDE DEF T
    <2> QED BY <1>2, <1>3, <2>1, NeverComes
<1>5. len \in 0 .. len /\ L(len) = len - (b - a)
    OBVIOUS
<1>6. Good(len) /\ g[len] \in Seq(Elem)
    BY <1>1, <1>4, <1>5 DEF Keeps
<1>7. ASSUME NEW j \in 1 .. a PROVE g[len][j] = f[j]
    <2>1. j \in 1 .. L(len) /\ At(j) = j
        BY <1>5
    <2> HIDE DEF L, At
    <2> QED BY <1>6, <2>1
<1>8. ASSUME NEW j \in a + 1 .. len - (b - a) PROVE g[len][j] = f[j + (b - a)]
    <2>1. j \in 1 .. L(len) /\ At(j) = j + (b - a)
        BY <1>5
    <2> HIDE DEF L, At
    <2> QED BY <1>6, <2>1
<1> QED BY <1>1, <1>5, <1>6, <1>7, <1>8 DEF Closed

-----------------------------------------------------------------------------
(* The memory of a list *)

(* The list s in n slots of the memory m, which has max of them *)
Right(m, max, n, s) ==
    /\ max \in Nat /\ n \in Nat /\ n <= max
    /\ DOMAIN m = Span(max)
    /\ s \in Seq(Elem) /\ n = Len(s)
    /\ \A i \in Span(n) : m[i] = s[i + 1]

(* The inductive invariant: what a list holds fits, besides.               *)
ListInv == tame => ok /\ Right(mem, maxsize, len, ref)

(* Slots below the size of the memory are inside it. *)
LEMMA FitsMemory ==
    ASSUME NEW m, NEW max \in Nat, DOMAIN m = Span(max),
           NEW lo \in Nat, NEW n \in Int, lo + n <= max
    PROVE  Inside(m, lo, n)
BY DEF Inside, Span

(* A new list holds nothing in no memory. *)
LEMMA InitList == ListInit => ListInv
<1> SUFFICES ASSUME ListInit PROVE ok /\ Right(mem, maxsize, len, ref)
    BY DEF ListInv
<1>1. PICK s \in Short : \E room \in {Len(s), 4} :
        /\ maxsize = room /\ len = Len(s) /\ ref = s
        /\ mem = [i \in Span(room) |-> IF i < Len(s) THEN s[i + 1] ELSE Junk]
        /\ tame = TRUE /\ ok = TRUE
    BY DEF ListInit
<1>2. s \in Seq(Elem) /\ Len(s) \in 0 .. 2
    <2>1. PICK n \in 0 .. 2 : s \in [1 .. n -> Elem]
        BY DEF Short
    <2>2. n \in Nat
        OBVIOUS
    <2>3. s \in Seq(Elem)
        BY <2>1, <2>2, SeqDef
    <2>4. Len(s) \in Nat /\ DOMAIN s = 1 .. Len(s) /\ DOMAIN s = 1 .. n
        BY <2>1, <2>3, LenProperties
    <2> QED BY <2>1, <2>3, <2>4
<1>3. /\ mem = [i \in Span(maxsize) |-> IF i < Len(s) THEN s[i + 1] ELSE Junk]
      /\ maxsize \in {Len(s), 4} /\ len = Len(s) /\ ref = s /\ ok = TRUE
    BY <1>1
<1>4. \A i \in Span(len) : i \in Span(maxsize) /\ i < Len(s)
    BY <1>2, <1>3 DEF Span
<1> QED BY <1>2, <1>3, <1>4 DEF Right

(* One element more, in memory that has grown if it was full. *)
LEMMA Append1Right ==
    ASSUME ok, Right(mem, maxsize, len, ref), NEW x \in Elem, Append1(x)
    PROVE  ListInv'
<1> DEFINE max == IF len < maxsize THEN maxsize ELSE IF maxsize = 0 THEN 4 ELSE 2 * maxsize
           m == IF len < maxsize THEN mem ELSE Realloc(mem, max)
<1>1. /\ ok' = Inside(m, len, 1) /\ mem' = IF Inside(m, len, 1) THEN Written(m, len, <<x>>) ELSE mem
      /\ maxsize' = max /\ len' = len + 1 /\ ref' = Append(ref, x)
    BY DEF Append1, Result
<1>2. /\ len \in Nat /\ maxsize \in Nat /\ len <= maxsize /\ DOMAIN mem = Span(maxsize)
      /\ ref \in Seq(Elem) /\ len = Len(ref) /\ \A i \in Span(len) : mem[i] = ref[i + 1]
    BY DEF Right
<1>3. max \in Nat /\ len < max /\ maxsize <= max
    BY <1>2
<1> HIDE DEF max
<1>4. DOMAIN m = Span(max) /\ \A i \in Span(len) : m[i] = mem[i]
    <2>1. CASE len < maxsize
        BY <1>2, <2>1 DEF max
    <2>2. CASE ~(len < maxsize)
        BY <1>2, <1>3, <2>2 DEF Realloc, Span
    <2> QED BY <2>1, <2>2
<1> HIDE DEF m
<1>5. Inside(m, len, 1)
    BY <1>2, <1>3, <1>4, FitsMemory
<1>6. mem' = Written(m, len, <<x>>)
    BY <1>1, <1>5
<1>7. /\ DOMAIN mem' = Span(max) /\ mem'[len] = x
      /\ \A i \in Span(len) : mem'[i] = mem[i]
    BY <1>2, <1>3, <1>4, <1>6 DEF Written, Span
<1>8. /\ ref' \in Seq(Elem) /\ Len(ref') = len + 1 /\ ref'[len + 1] = x
      /\ \A i \in Span(len) : ref'[i + 1] = ref[i + 1]
    BY <1>1, <1>2, AppendProperties DEF Span
<1>9. ASSUME NEW i \in Span(len + 1) PROVE mem'[i] = ref'[i + 1]
    <2>1. i \in Span(len) \/ i = len
        BY <1>2 DEF Span
    <2> QED BY <1>2, <1>7, <1>8, <2>1
<1>10. len + 1 \in Nat /\ len + 1 <= max /\ ok'
    BY <1>1, <1>2, <1>3, <1>5
<1> QED BY <1>1, <1>3, <1>7, <1>8, <1>9, <1>10 DEF ListInv, Right

(* clear, copy, pop, reverse: nothing is written beyond what is in use.    *)
LEMMA PlainRight ==
    ASSUME ok, Right(mem, maxsize, len, ref), ClearList \/ CopyList \/ PopElem \/ ReverseList
    PROVE  ListInv'
<1>2. /\ len \in Nat /\ maxsize \in Nat /\ len <= maxsize /\ DOMAIN mem = Span(maxsize)
      /\ ref \in Seq(Elem) /\ len = Len(ref) /\ \A i \in Span(len) : mem[i] = ref[i + 1]
    BY DEF Right
<1>3. CASE ClearList
    <2>1. mem' = mem /\ maxsize' = maxsize /\ len' = 0 /\ ref' = <<>> /\ ok'
        BY <1>3 DEF ClearList, Result
    <2>2. Span(0) = {}
        BY DEF Span
    <2> QED BY <1>2, <2>1, <2>2 DEF ListInv, Right
<1>4. CASE CopyList
    <2>1. /\ mem' = Realloc(mem, len) /\ maxsize' = maxsize /\ len' = len /\ ref' = ref /\ ok'
          /\ tame' => len = maxsize
        BY <1>4 DEF CopyList, Result
    <2>2. DOMAIN mem' = Span(len) /\ \A i \in Span(len) : mem'[i] = mem[i]
        BY <1>2, <2>1 DEF Realloc, Span
    <2> QED BY <1>2, <2>1, <2>2 DEF ListInv, Right
<1>5. CASE PopElem
    <2>1. /\ mem' = mem /\ maxsize' = maxsize /\ len' = len - 1 /\ len > 0 /\ ok'
          /\ ref' = SubSeq(ref, 1, Len(ref) - 1)
        BY <1>5 DEF PopElem, Result
    <2>2. \A i \in 1 .. len - 1 : ref[i] \in Elem
        BY <1>2, ElementOfSeq
    <2>3. /\ ref' \in Seq(Elem) /\ Len(ref') = len - 1
          /\ \A i \in 1 .. len - 1 : ref'[i] = ref[i]
        BY <1>2, <2>1, <2>2, SubSeqProperties
    <2>4. \A i \in Span(len - 1) : i \in Span(len) /\ i + 1 \in 1 .. len - 1
        BY <1>2, <2>1 DEF Span
    <2> QED BY <1>2, <2>1, <2>3, <2>4 DEF ListInv, Right
<1>6. CASE ReverseList
    <2>1. Inside(mem, 0, len)
        BY <1>2, FitsMemory
    <2>2. /\ mem' = Reversed(mem) /\ maxsize' = maxsize /\ len' = len /\ ok'
          /\ ref' = [i \in 1 .. Len(ref) |-> ref[Len(ref) + 1 - i]]
        BY <1>6, <2>1 DEF ReverseList, Result
    <2>3. ref' \in [1 .. len -> Elem]
        BY <1>2, <2>2, ElementOfSeq
    <2>4. ref' \in Seq(Elem) /\ Len(ref') = len
        <3>1. ref' \in Seq(Elem) /\ DOMAIN ref' = 1 .. len
            BY <1>2, <2>3, SeqDef
        <3>2. Len(ref') \in Nat /\ DOMAIN ref' = 1 .. Len(ref')
            BY <3>1, LenProperties
        <3> QED BY <1>2, <3>1, <3>2
    <2>5. DOMAIN mem' = Span(maxsize)
        BY <1>2, <2>2 DEF Reversed
    <2>6. ASSUME NEW i \in Span(len) PROVE mem'[i] = ref'[i + 1]
        <3>1. i \in Span(maxsize) /\ len - 1 - i \in Span(len) /\ i + 1 \in 1 .. len
            BY <1>2 DEF Span
        <3>2. mem'[i] = mem[len - 1 - i]
            BY <1>2, <2>2, <3>1 DEF Reversed
        <3>3. ref'[i + 1] = ref[len + 1 - (i + 1)]
            BY <1>2, <2>2, <3>1
        <3>4. len + 1 - (i + 1) = (len - 1 - i) + 1
            BY <1>2 DEF Span
        <3> QED BY <1>2, <3>1, <3>2, <3>3, <3>4
    <2> QED BY <1>2, <2>2, <2>4, <2>5, <2>6 DEF ListInv, Right
<1> QED BY <1>3, <1>4, <1>5, <1>6

(* All of another sequence behind the elements. *)
LEMMA ExtendRight ==
    ASSUME ok, Right(mem, maxsize, len, ref), NEW s \in Seq(Elem), Extend(s)
    PROVE  ListInv'
<1> DEFINE n == Len(s)
           max == IF len + n >= maxsize THEN len + n ELSE maxsize
           m == IF len + n >= maxsize THEN Realloc(mem, max) ELSE mem
<1>1. /\ ok' = Inside(m, len, n) /\ mem' = IF Inside(m, len, n) THEN Written(m, len, s) ELSE mem
      /\ maxsize' = max /\ len' = len + n /\ ref' = ref \o s
    BY DEF Extend, Result
<1>2. /\ len \in Nat /\ maxsize \in Nat /\ len <= maxsize /\ DOMAIN mem = Span(maxsize)
      /\ ref \in Seq(Elem) /\ len = Len(ref) /\ \A i \in Span(len) : mem[i] = ref[i + 1]
    BY DEF Right
<1>a. n \in Nat
    BY LenProperties
<1> HIDE DEF n
<1>3. max \in Nat /\ len + n <= max /\ maxsize <= max
    BY <1>2, <1>a
<1> HIDE DEF max
<1>4. DOMAIN m = Span(max) /\ \A i \in Span(len) : m[i] = mem[i]
    <2>1. CASE len + n >= maxsize
        BY <1>2, <1>3, <2>1 DEF Realloc, Span
    <2>2. CASE ~(len + n >= maxsize)
        BY <1>2, <2>2 DEF max
    <2> QED BY <2>1, <2>2
<1> HIDE DEF m
<1>5. Inside(m, len, n)
    <2>1. len \in Nat /\ n \in Int
        BY <1>2, <1>a
    <2>2. max \in Nat /\ len + n <= max /\ DOMAIN m = Span(max)
        BY <1>3, <1>4
    <2> QED BY <2>1, <2>2, FitsMemory
<1>6. mem' = Written(m, len, s)
    BY <1>1, <1>5
<1>7. /\ DOMAIN mem' = Span(max)
      /\ \A i \in Span(len) : mem'[i] = mem[i]
      /\ \A i \in len .. len + n - 1 : mem'[i] = s[(i - len) + 1]
    BY <1>2, <1>a, <1>3, <1>4, <1>6 DEF Written, Span, n
<1>8. /\ ref' \in Seq(Elem) /\ Len(ref') = len + n
      /\ \A i \in 1 .. len + n : ref'[i] = IF i <= len THEN ref[i] ELSE s[i - len]
    BY <1>1, <1>2, ConcatProperties DEF n
<1>9. ASSUME NEW i \in Span(len + n) PROVE mem'[i] = ref'[i + 1]
    <2>1. i + 1 \in 1 .. len + n /\ (i + 1) - len = (i - len) + 1
        BY <1>2, <1>a DEF Span
    <2>2. CASE i \in Span(len)
        BY <1>2, <1>7, <1>8, <2>1, <2>2 DEF Span
    <2>3. CASE i \notin Span(len)
        <3>1. i \in len .. len + n - 1 /\ ~(i + 1 <= len)
            BY <1>2, <1>a, <2>3 DEF Span
        <3>2. mem'[i] = s[(i - len) + 1]
            BY <1>7, <3>1
        <3>3. ref'[i + 1] = s[(i + 1) - len]
            <4> DEFINE R(j) == IF j <= len THEN ref[j] ELSE s[j - len]
            <4>1. \A j \in 1 .. len + n : ref'[j] = R(j)
                BY <1>8
            <4> HIDE DEF R
            <4>2. ref'[i + 1] = R(i + 1)
                BY <2>1, <4>1
            <4> QED BY <3>1, <4>2 DEF R
        <3> QED BY <2>1, <3>2, <3>3
    <2> QED BY <2>2, <2>3
<1>10. len + n \in Nat /\ len + n <= max /\ ok'
    BY <1>1, <1>2, <1>a, <1>3, <1>5
<1> QED BY <1>1, <1>3, <1>7, <1>8, <1>9, <1>10 DEF ListInv, Right

(* One element changed, or an index that is refused. *)
LEMMA SetItemRight ==
    ASSUME ok, Right(mem, maxsize, len, ref), NEW i \in Int, NEW x \in Elem, SetItem(i, x)
    PROVE  ListInv'
<1> DEFINE at == Slot(i)
<1>1. at \in Span(len)
    BY DEF SetItem, IndexOk
<1> HIDE DEF at
<1>2. /\ len \in Nat /\ maxsize \in Nat /\ len <= maxsize /\ DOMAIN mem = Span(maxsize)
      /\ ref \in Seq(Elem) /\ len = Len(ref) /\ \A j \in Span(len) : mem[j] = ref[j + 1]
    BY DEF Right
<1>3. Inside(mem, at, 1)
    BY <1>1, <1>2, FitsMemory DEF Span
<1>4. /\ mem' = Written(mem, at, <<x>>) /\ maxsize' = maxsize /\ len' = len /\ ok'
      /\ ref' = [ref EXCEPT ![at + 1] = x]
    BY <1>3 DEF SetItem, Result, at
<1>5. /\ DOMAIN mem' = Span(maxsize)
      /\ \A j \in Span(maxsize) : mem'[j] = IF j = at THEN x ELSE mem[j]
    BY <1>1, <1>2, <1>4 DEF Written, Span
<1>6. /\ ref' \in Seq(Elem) /\ Len(ref') = len
      /\ \A j \in 1 .. len : ref'[j] = IF j = at + 1 THEN x ELSE ref[j]
    BY <1>1, <1>2, <1>4, ExceptSeq DEF Span
<1>7. \A j \in Span(len) : j \in Span(maxsize) /\ j + 1 \in 1 .. len /\ (j + 1 = at + 1 <=> j = at)
    BY <1>1, <1>2 DEF Span
<1> QED BY <1>2, <1>4, <1>5, <1>6, <1>7 DEF ListInv, Right

(* Closing the gap that one element leaves. *)
LEMMA DelItemRight ==
    ASSUME ok, Right(mem, maxsize, len, ref), NEW i \in Int, DelItem(i)
    PROVE  ListInv'
<1> DEFINE at == Slot(i)   n == len - at - 1
<1>1. at \in Span(len)
    BY DEF DelItem, IndexOk
<1>2. /\ len \in Nat /\ maxsize \in Nat /\ len <= maxsize /\ DOMAIN mem = Span(maxsize)
      /\ ref \in Seq(Elem) /\ len = Len(ref) /\ \A j \in Span(len) : mem[j] = ref[j + 1]
    BY DEF Right
<1>3. Inside(mem, at + 1, n)
    <2> HIDE DEF at
    <2>1. at + 1 \in Nat /\ n \in Int /\ at + 1 + n <= maxsize
        BY <1>1, <1>2 DEF Span
    <2> QED BY <1>2, <2>1, FitsMemory
<1>4. /\ mem' = Moved1(mem, at, at + 1, n) /\ maxsize' = maxsize /\ len' = len - 1 /\ ok'
      /\ ref' = SubSeq(ref, 1, at) \o SubSeq(ref, at + 2, Len(ref))
    <2>1. /\ mem' = Moved1(mem, at, at + 1, n) /\ maxsize' = maxsize /\ len' = len - 1 /\ ok'
          /\ ref' = Without(ref, at + 1)
        BY <1>3 DEF DelItem, Result
    <2> HIDE DEF at
    <2>2. (at + 1) - 1 = at /\ (at + 1) + 1 = at + 2
        BY <1>1, <1>2 DEF Span
    <2> QED BY <2>1, <2>2 DEF Without
<1> HIDE DEF at
<1>5. /\ DOMAIN mem' = Span(maxsize)
      /\ \A j \in Span(len - 1) : mem'[j] = IF j < at THEN mem[j] ELSE mem[j + 1]
    <2>1. DOMAIN mem' = Span(maxsize)
        BY <1>2, <1>4 DEF Moved1
    <2>2. ASSUME NEW j \in Span(len - 1)
          PROVE  mem'[j] = IF j < at THEN mem[j] ELSE mem[j + 1]
        <3>1. j \in Span(maxsize) /\ j \in Int /\ at \in Int
            BY <1>1, <1>2 DEF Span
        <3>2. j \in at .. at + n - 1 <=> j >= at
            BY <1>1, <1>2 DEF Span
        <3>3. at + 1 + (j - at) = j + 1
            BY <3>1
        <3>4. mem'[j] = IF j \in at .. at + n - 1 THEN mem[at + 1 + (j - at)] ELSE mem[j]
            BY <1>2, <1>4, <3>1 DEF Moved1
        <3> HIDE DEF n
        <3> QED BY <3>1, <3>2, <3>3, <3>4
    <2> QED BY <2>1, <2>2
<1>6. /\ ref' \in Seq(Elem) /\ Len(ref') = len - 1
      /\ \A j \in 1 .. len - 1 : ref'[j] = IF j <= at THEN ref[j] ELSE ref[j + 1]
    <2> DEFINE u == SubSeq(ref, 1, at)   v == SubSeq(ref, at + 2, len)
    <2>1. at \in Nat /\ at < len /\ \A j \in 1 .. len : ref[j] \in Elem
        BY <1>1, <1>2, ElementOfSeq DEF Span
    <2>2. u \in Seq(Elem) /\ Len(u) = at /\ \A j \in 1 .. at : u[j] = ref[j]
        BY <1>2, <2>1, SubSeqProperties
    <2>3. /\ v \in Seq(Elem) /\ Len(v) = len - at - 1
          /\ \A j \in 1 .. len - at - 1 : v[j] = ref[at + 1 + j]
        <3>1. /\ v \in Seq(Elem) /\ Len(v) = IF at + 2 <= len THEN len - (at + 2) + 1 ELSE 0
              /\ \A j \in 1 .. len - (at + 2) + 1 : v[j] = ref[at + 2 + j - 1]
            BY <1>2, <2>1, SubSeqProperties
        <3>2. \A j \in 1 .. len - at - 1 : at + 2 + j - 1 = at + 1 + j
            BY <1>2, <2>1
        <3> QED BY <1>2, <2>1, <3>1, <3>2
    <2>4. ref' = u \o v
        BY <1>2, <1>4
    <2> HIDE DEF u, v
    <2>5. /\ ref' \in Seq(Elem) /\ Len(ref') = at + (len - at - 1)
          /\ \A j \in 1 .. at + (len - at - 1) :
                ref'[j] = IF j <= at THEN u[j] ELSE v[j - at]
        <3>1. /\ u \o v \in Seq(Elem) /\ Len(u \o v) = Len(u) + Len(v)
              /\ \A j \in 1 .. Len(u) + Len(v) :
                    (u \o v)[j] = IF j <= Len(u) THEN u[j] ELSE v[j - Len(u)]
            BY <2>2, <2>3, ConcatProperties
        <3> QED BY <2>2, <2>3, <2>4, <3>1
    <2>6. at + (len - at - 1) = len - 1
        BY <1>2, <2>1
    <2>7. ASSUME NEW j \in 1 .. len - 1
          PROVE  ref'[j] = IF j <= at THEN ref[j] ELSE ref[j + 1]
        <3>1. CASE j <= at
            BY <2>1, <2>2, <2>5, <2>6, <3>1
        <3>2. CASE ~(j <= at)
            <4>1. j - at \in 1 .. len - at - 1 /\ at + 1 + (j - at) = j + 1
                BY <1>2, <2>1, <3>2
            <4> QED BY <2>3, <2>5, <2>6, <3>2, <4>1
        <3> QED BY <3>1, <3>2
    <2> QED BY <2>5, <2>6, <2>7
<1>7. ASSUME NEW j \in Span(len - 1) PROVE mem'[j] = ref'[j + 1]
    <2>1. /\ j \in Span(len) /\ j + 1 \in Span(len) /\ j + 1 \in 1 .. len - 1
          /\ (j + 1 <= at <=> j < at)
        BY <1>1, <1>2 DEF Span
    <2> QED BY <1>2, <1>5, <1>6, <2>1
<1>8. len - 1 \in Nat /\ len - 1 <= maxsize
    BY <1>1, <1>2 DEF Span
<1> QED BY <1>2, <1>4, <1>5, <1>6, <1>7, <1>8 DEF ListInv, Right

(* A block that a part of a sequence is. *)
LEMMA PartOf ==
    ASSUME NEW S, NEW s \in Seq(S), NEW a \in 0 .. Len(s), NEW b \in a .. Len(s)
    PROVE  LET t == SubSeq(s, a + 1, b)
           IN  t \in Seq(S) /\ Len(t) = b - a /\ \A j \in 1 .. b - a : t[j] = s[a + j]
<1> DEFINE t == SubSeq(s, a + 1, b)
<1>1. Len(s) \in Nat /\ \A j \in 1 .. Len(s) : s[j] \in S
    BY LenProperties, ElementOfSeq
<1>2. a + 1 \in Int /\ b \in Int /\ \A j \in a + 1 .. b : s[j] \in S
    BY <1>1
<1>3. /\ t \in Seq(S) /\ Len(t) = IF a + 1 <= b THEN b - (a + 1) + 1 ELSE 0
      /\ \A j \in 1 .. b - (a + 1) + 1 : t[j] = s[a + 1 + j - 1]
    BY <1>2, SubSeqProperties
<1> HIDE DEF t
<1>4. b - (a + 1) + 1 = b - a /\ \A j \in 1 .. b - a : a + 1 + j - 1 = a + j
    BY <1>1
<1>5. Len(t) = b - a
    BY <1>1, <1>3
<1> QED BY <1>3, <1>4, <1>5 DEF t

(* s[lo:hi] = t: what is behind the block is moved, then the block written.*)
LEMMA SetBlockRight ==
    ASSUME ok, Right(mem, maxsize, len, ref), NEW lo \in Bound, NEW hi \in Bound,
           NEW s \in Seq(Elem), SetBlock(lo, hi, s)
    PROVE  ListInv'
<1> SUFFICES ASSUME tame' PROVE ok' /\ Right(mem', maxsize', len', ref')
    BY DEF ListInv
<1> DEFINE a == First(lo, hi, 1)   b == Stop(lo, hi, 1)   c == Count(lo, hi, 1)
           p == Len(s)   n == len - c + p
           max == IF c < p /\ n > maxsize THEN n ELSE maxsize
           m == Realloc(mem, IF max = maxsize THEN Cardinality(DOMAIN mem) ELSE max)
           inside == Inside(m, a + c, len - c) /\ Inside(m, a + p, len - c)
<1>1. /\ ok' = inside
      /\ mem' = IF inside
                THEN IF inside THEN Written(Moved1(m, a + p, a + c, len - c), a, s) ELSE m
                ELSE mem
      /\ maxsize' = max /\ len' = n
      /\ ref' = IF a <= b THEN SubSeq(ref, 1, a) \o s \o SubSeq(ref, b + 1, len) ELSE ref
      /\ Ordered(lo, hi, 1) /\ (a = 0 \/ (a + len <= max /\ a + n <= max))
    BY DEF SetBlock, Result
<1>2. /\ len \in Nat /\ maxsize \in Nat /\ len <= maxsize /\ DOMAIN mem = Span(maxsize)
      /\ ref \in Seq(Elem) /\ len = Len(ref) /\ \A j \in Span(len) : mem[j] = ref[j + 1]
    BY DEF Right
<1>3. a \in 0 .. len /\ b \in a .. len /\ c = b - a
    <2>1. a \in 0 .. len /\ b \in 0 .. len /\ a <= b /\ Distance(lo, hi, 1) = b - a /\ Abs1(1) = 1
        BY <1>1, <1>2, Forwards
    <2>2. c = CeilDiv(b - a, 1)
        BY <2>1 DEF Count
    <2> HIDE DEF a, b
    <2>3. \A d \in Nat : CeilDiv(d, 1) = d
        BY DEF CeilDiv
    <2>4. b - a \in Nat
        BY <2>1, <1>2
    <2> QED BY <2>1, <2>2, <2>3, <2>4
<1>4. p \in Nat
    BY LenProperties
<1> HIDE DEF a, b, c, p
<1>5. n \in Nat /\ max \in Nat /\ maxsize <= max /\ n <= max
    BY <1>2, <1>3, <1>4
<1>6. a + len <= max /\ a + n <= max
    BY <1>1, <1>2, <1>3, <1>5
<1>7. Cardinality(DOMAIN mem) = maxsize
    <2> DEFINE z == maxsize - 1
    <2>1. z \in Int /\ (IF 0 > z THEN 0 ELSE z - 0 + 1) = maxsize
        BY <1>2
    <2>2. DOMAIN mem = 0 .. z
        BY <1>2 DEF Span
    <2> HIDE DEF z
    <2>3. Cardinality(0 .. z) = IF 0 > z THEN 0 ELSE z - 0 + 1
        BY <2>1, FS_Interval
    <2> QED BY <2>1, <2>2, <2>3
<1>8. m = Realloc(mem, max)
    BY <1>7
<1> HIDE DEF max, m
<1>9. DOMAIN m = Span(max) /\ \A j \in Span(len) : j \in Span(max) /\ m[j] = mem[j]
    BY <1>2, <1>5, <1>8 DEF Realloc, Span
<1>10. inside
    <2>1. a + c \in Nat /\ a + p \in Nat /\ len - c \in Int
        BY <1>2, <1>3, <1>4
    <2>2. a + c + (len - c) <= max /\ a + p + (len - c) <= max
        BY <1>2, <1>3, <1>4, <1>6
    <2> QED BY <1>5, <1>9, <2>1, <2>2, FitsMemory
<1>11. mem' = Written(Moved1(m, a + p, a + c, len - c), a, s)
    BY <1>1, <1>10
<1> HIDE DEF inside
<1> DEFINE u == SubSeq(ref, 1, a)   v == SubSeq(ref, b + 1, len)
<1>12. u \in Seq(Elem) /\ Len(u) = a /\ \A j \in 1 .. a : u[j] = ref[j]
    <2>1. /\ SubSeq(ref, 0 + 1, a) \in Seq(Elem) /\ Len(SubSeq(ref, 0 + 1, a)) = a - 0
          /\ \A j \in 1 .. a - 0 : SubSeq(ref, 0 + 1, a)[j] = ref[0 + j]
        BY <1>2, <1>3, PartOf
    <2> QED BY <1>2, <1>3, <2>1
<1>13. v \in Seq(Elem) /\ Len(v) = len - b /\ \A j \in 1 .. len - b : v[j] = ref[b + j]
    BY <1>2, <1>3, PartOf
<1>14. ref' = u \o s \o v
    <2>1. a <= b
        BY <1>2, <1>3
    <2>2. ref' = IF a <= b THEN u \o s \o v ELSE ref
        BY <1>1, Zenon
    <2> QED BY <2>1, <2>2
<1> HIDE DEF u, v
<1>15. /\ u \o s \in Seq(Elem) /\ Len(u \o s) = a + p
       /\ \A j \in 1 .. a + p : (u \o s)[j] = IF j <= a THEN u[j] ELSE s[j - a]
    BY <1>12, ConcatProperties DEF p
<1>16. /\ ref' \in Seq(Elem) /\ Len(ref') = n
       /\ \A j \in 1 .. n : ref'[j] = IF j <= a + p THEN (u \o s)[j] ELSE v[j - (a + p)]
    <2>1. /\ ref' \in Seq(Elem) /\ Len(ref') = (a + p) + (len - b)
          /\ \A j \in 1 .. (a + p) + (len - b) :
                ref'[j] = IF j <= a + p THEN (u \o s)[j] ELSE v[j - (a + p)]
        <3> DEFINE us == u \o s
        <3>1. us \in Seq(Elem) /\ Len(us) = a + p /\ ref' = us \o v
            BY <1>14, <1>15
        <3> HIDE DEF us
        <3>2. /\ us \o v \in Seq(Elem) /\ Len(us \o v) = Len(us) + Len(v)
              /\ \A j \in 1 .. Len(us) + Len(v) :
                    (us \o v)[j] = IF j <= Len(us) THEN us[j] ELSE v[j - Len(us)]
            BY <1>13, <3>1, ConcatProperties
        <3>3. /\ ref' \in Seq(Elem) /\ Len(ref') = (a + p) + (len - b)
              /\ \A j \in 1 .. (a + p) + (len - b) :
                    ref'[j] = IF j <= a + p THEN us[j] ELSE v[j - (a + p)]
            BY <1>13, <3>1, <3>2
        <3> QED BY <3>3 DEF us
    <2>2. (a + p) + (len - b) = n
        BY <1>2, <1>3, <1>4
    <2> QED BY <2>1, <2>2
<1>17. DOMAIN mem' = Span(max)
    BY <1>9, <1>11 DEF Written, Moved1
<1>18. ASSUME NEW j \in Span(n) PROVE mem'[j] = ref'[j + 1]
    <2>1. j \in Span(max) /\ j \in Nat /\ j + 1 \in 1 .. n
        BY <1>5 DEF Span
    <2>2. mem'[j] = IF j \in a .. a + p - 1 THEN s[(j - a) + 1]
                    ELSE IF j \in a + p .. a + p + (len - c) - 1
                         THEN m[a + c + (j - (a + p))] ELSE m[j]
        BY <1>9, <1>11, <2>1 DEF Written, Moved1, p
    <2>3. ref'[j + 1] = IF j + 1 <= a + p THEN (u \o s)[j + 1] ELSE v[(j + 1) - (a + p)]
        <3> DEFINE R(i) == IF i <= a + p THEN (u \o s)[i] ELSE v[i - (a + p)]
        <3>1. \A i \in 1 .. n : ref'[i] = R(i)
            BY <1>16
        <3> HIDE DEF R
        <3>2. ref'[j + 1] = R(j + 1)
            BY <2>1, <3>1
        <3> QED BY <3>2 DEF R
    <2>4. CASE j < a
        <3>1. /\ ~(j \in a .. a + p - 1) /\ ~(j \in a + p .. a + p + (len - c) - 1)
              /\ j + 1 <= a + p /\ j + 1 <= a /\ j + 1 \in 1 .. a + p /\ j + 1 \in 1 .. a
              /\ j \in Span(len)
            BY <1>2, <1>3, <1>4, <2>1, <2>4 DEF Span
        <3> QED BY <1>2, <1>9, <1>12, <1>15, <2>2, <2>3, <3>1
    <2>5. CASE j \in a .. a + p - 1
        <3>1. j + 1 <= a + p /\ ~(j + 1 <= a) /\ j + 1 \in 1 .. a + p /\ (j + 1) - a = (j - a) + 1
            BY <1>3, <1>4, <2>1, <2>5
        <3>2. (u \o s)[j + 1] = s[(j + 1) - a]
            <4> DEFINE R(i) == IF i <= a THEN u[i] ELSE s[i - a]
            <4>1. \A i \in 1 .. a + p : (u \o s)[i] = R(i)
                BY <1>15
            <4> HIDE DEF R
            <4>2. (u \o s)[j + 1] = R(j + 1)
                BY <3>1, <4>1
            <4> QED BY <3>1, <4>2 DEF R
        <3> QED BY <2>2, <2>3, <2>5, <3>1, <3>2
    <2>6. CASE j >= a + p
        <3> DEFINE i == j - (a + p)
        <3>1. /\ ~(j \in a .. a + p - 1) /\ j \in a + p .. a + p + (len - c) - 1
              /\ ~(j + 1 <= a + p) /\ (j + 1) - (a + p) = i + 1
              /\ i + 1 \in 1 .. len - b /\ a + c + i = b + i
              /\ b + i \in Span(len) /\ (b + i) + 1 = b + (i + 1)
            BY <1>2, <1>3, <1>4, <2>1, <2>6 DEF Span
        <3> HIDE DEF i
        <3>2. mem'[j] = m[a + c + i]
            BY <2>2, <3>1 DEF i
        <3>3. ref'[j + 1] = ref[b + (i + 1)]
            BY <1>13, <2>3, <3>1
        <3> QED BY <1>2, <1>9, <3>1, <3>2, <3>3
    <2> QED BY <1>3, <1>4, <2>1, <2>4, <2>5, <2>6
<1> QED BY <1>1, <1>5, <1>10, <1>16, <1>17, <1>18 DEF Right

(* Slots stored one by one, where as many are given as are visited. *)
LEMMA SetSlotsRight ==
    ASSUME ok, Right(mem, maxsize, len, ref), NEW lo \in Bound, NEW hi \in Bound,
           NEW step \in Int \ {0}, NEW s \in Seq(Elem), SetSlots(lo, hi, step, s)
    PROVE  ListInv'
<1> SUFFICES ASSUME tame' PROVE ok' /\ Right(mem', maxsize', len', ref')
    BY DEF ListInv
<1> DEFINE c == Count(lo, hi, step)
           at(i) == CHOOSE k \in Span(c) : First(lo, hi, step) + k * step = i
           here == Visited(lo, hi, step, c)
           new(f, shift) == [i \in DOMAIN f |->
                                IF i - shift \in here THEN s[at(i - shift) + 1] ELSE f[i]]
<1>1. /\ ok' = (here \subseteq DOMAIN mem)
      /\ mem' = IF here \subseteq DOMAIN mem THEN new(mem, 0) ELSE mem
      /\ maxsize' = maxsize /\ len' = len /\ ref' = new(ref, 1)
      /\ Ordered(lo, hi, step) /\ c = Len(s)
    BY DEF SetSlots, Result
<1>2. /\ len \in Nat /\ maxsize \in Nat /\ len <= maxsize /\ DOMAIN mem = Span(maxsize)
      /\ ref \in Seq(Elem) /\ len = Len(ref) /\ \A j \in Span(len) : mem[j] = ref[j + 1]
    BY DEF Right
<1>3. here \in SUBSET Span(len) /\ c \in Nat
    BY <1>1, <1>2, SliceVisits
<1>4. \A i \in Span(len) : i \in Span(maxsize)
    BY <1>2 DEF Span
<1>5. here \subseteq DOMAIN mem
    BY <1>2, <1>3, <1>4
<1>6. \A i \in here : at(i) \in Span(c)
    <2> TAKE i \in here
    <2>1. \E k \in Span(c) : First(lo, hi, step) + k * step = i
        BY DEF Visited
    <2> QED BY <2>1
<1>7. ASSUME NEW i \in here PROVE s[at(i) + 1] \in Elem
    <2>1. at(i) \in Span(c)
        BY <1>6
    <2> HIDE DEF at
    <2>2. at(i) + 1 \in 1 .. Len(s)
        BY <1>1, <1>3, <2>1 DEF Span
    <2> QED BY <2>2, ElementOfSeq
<1> HIDE DEF c, here, at
<1>8. mem' = new(mem, 0) /\ ref' = new(ref, 1) /\ ok'
    BY <1>1, <1>5
<1>9. DOMAIN ref = 1 .. len /\ \A j \in 1 .. len : ref[j] \in Elem
    BY <1>2, LenProperties, ElementOfSeq
<1>10. ref' \in [1 .. len -> Elem]
    BY <1>7, <1>8, <1>9
<1>11. ref' \in Seq(Elem) /\ Len(ref') = len
    <2>1. ref' \in Seq(Elem) /\ DOMAIN ref' = 1 .. len
        BY <1>2, <1>10, SeqDef
    <2>2. Len(ref') \in Nat /\ DOMAIN ref' = 1 .. Len(ref')
        BY <2>1, LenProperties
    <2> QED BY <1>2, <2>1, <2>2
<1>12. DOMAIN mem' = Span(maxsize)
    BY <1>2, <1>8
<1>13. ASSUME NEW i \in Span(len) PROVE mem'[i] = ref'[i + 1]
    <2>1. i \in DOMAIN mem /\ i + 1 \in DOMAIN ref /\ i - 0 = i /\ (i + 1) - 1 = i
        BY <1>2, <1>4, <1>9 DEF Span
    <2>2. mem'[i] = IF i \in here THEN s[at(i) + 1] ELSE mem[i]
        BY <1>8, <2>1
    <2>3. ref'[i + 1] = IF i \in here THEN s[at(i) + 1] ELSE ref[i + 1]
        BY <1>8, <2>1
    <2> QED BY <1>2, <2>2, <2>3
<1> QED BY <1>1, <1>2, <1>8, <1>11, <1>12, <1>13 DEF Right

(* No slot is visited twice. *)
LEMMA VisitsOnce ==
    ASSUME NEW a \in Int, NEW c \in Nat, NEW step \in Int \ {0}
    PROVE  Cardinality({a + k * step : k \in Span(c)}) = c
<1> DEFINE M == {a + k * step : k \in Span(c)}
           f == [k \in 1 .. c |-> a + (k - 1) * step]
<1>1. \A k \in 1 .. c : k - 1 \in Span(c)
    BY DEF Span
<1>2. f \in [1 .. c -> M]
    BY <1>1
<1>3. \A t \in M : \E k \in 1 .. c : f[k] = t
    <2> TAKE t \in M
    <2>1. PICK k \in Span(c) : t = a + k * step
        OBVIOUS
    <2>2. k + 1 \in 1 .. c /\ (k + 1) - 1 = k
        BY <2>1 DEF Span
    <2>3. f[k + 1] = a + ((k + 1) - 1) * step
        BY <2>2
    <2> QED BY <2>1, <2>2, <2>3
<1>4. ASSUME NEW k \in 1 .. c, NEW l \in 1 .. c, f[k] = f[l] PROVE k = l
    <2> DEFINE x == k - 1   y == l - 1
    <2>1. a + x * step = a + y * step /\ x \in Int /\ y \in Int
        BY <1>4
    <2> HIDE DEF x, y
    <2>2. x * step \in Int /\ y * step \in Int
        BY <2>1
    <2>3. x * step = y * step
        BY <2>1, <2>2
    <2>4. (x - y) * step = 0
        BY <2>1, <2>2, <2>3, SMTT(20)
    <2>5. x - y = 0
        BY <2>1, <2>4, SMTT(20)
    <2>6. x = y
        BY <2>1, <2>5
    <2> QED BY <2>6 DEF x, y
<1> HIDE DEF f, M
<1>5. f \in Bijection(1 .. c, M)
    <2>a. \A k, l \in 1 .. c : f[k] = f[l] => k = l
        BY <1>4, Zenon
    <2>1. f \in Injection(1 .. c, M)
        BY <1>2, <2>a DEF Injection, IsInjective
    <2>2. f \in Surjection(1 .. c, M)
        BY <1>2, <1>3 DEF Surjection
    <2> QED BY <2>1, <2>2 DEF Bijection
<1>6. Cardinality(M) = c
    BY <1>5, FS_CountingElements DEF ExistsBijection
<1> QED BY <1>6 DEF M

(* del s[lo:hi]: the block goes where it is moved far enough. *)
LEMMA DelBlockRight ==
    ASSUME ok, Right(mem, maxsize, len, ref), NEW lo \in Bound, NEW hi \in Bound,
           DelBlock(lo, hi)
    PROVE  ListInv'
<1> SUFFICES ASSUME tame' PROVE ok' /\ Right(mem', maxsize', len', ref')
    BY DEF ListInv
<1> DEFINE a == First(lo, hi, 1)   b == Stop(lo, hi, 1)   c == Count(lo, hi, 1)
           moves == c > 0 /\ b # len
           inside == moves => Inside(mem, b, c)
<1>1. /\ ok' = inside
      /\ mem' = IF inside
                THEN IF moves /\ inside THEN Moved1(mem, a, b, c) ELSE mem
                ELSE mem
      /\ maxsize' = maxsize /\ len' = len - c
      /\ ref' = Kept(ref, Meant(lo, hi, 1))
      /\ Ordered(lo, hi, 1) /\ (moves => c >= len - b /\ b + c <= maxsize)
    BY DEF DelBlock, Result
<1>2. /\ len \in Nat /\ maxsize \in Nat /\ len <= maxsize /\ DOMAIN mem = Span(maxsize)
      /\ ref \in Seq(Elem) /\ len = Len(ref) /\ \A j \in Span(len) : mem[j] = ref[j + 1]
    BY DEF Right
<1>3. a \in 0 .. len /\ b \in a .. len /\ c = b - a /\ Meant(lo, hi, 1) = a .. b - 1
    <2>1. /\ a \in 0 .. len /\ b \in 0 .. len /\ a <= b
          /\ Distance(lo, hi, 1) = b - a /\ Abs1(1) = 1
          /\ Meant(lo, hi, 1) = {i \in a .. b - 1 : (i - a) % 1 = 0}
        BY <1>1, <1>2, Forwards
    <2>2. c = CeilDiv(b - a, 1)
        BY <2>1 DEF Count
    <2> HIDE DEF a, b
    <2>3. \A d \in Nat : CeilDiv(d, 1) = d /\ d % 1 = 0
        BY DEF CeilDiv
    <2>4. b - a \in Nat /\ b \in a .. len /\ \A i \in a .. b - 1 : i - a \in Nat
        BY <2>1, <1>2
    <2>5. c = b - a
        BY <2>2, <2>3, <2>4
    <2>6. {i \in a .. b - 1 : (i - a) % 1 = 0} = a .. b - 1
        BY <2>3, <2>4
    <2> HIDE DEF c
    <2> QED BY <2>1, <2>4, <2>5, <2>6
<1> HIDE DEF a, b, c
<1>4. inside
    BY <1>1, <1>2, <1>3, FitsMemory
<1>5. ok' /\ mem' = IF moves THEN Moved1(mem, a, b, c) ELSE mem
    BY <1>1, <1>4
<1>6. /\ ref' \in Seq(Elem) /\ Len(ref') = len - c
      /\ \A j \in 1 .. len - c : /\ j <= a => ref'[j] = ref[j]
                                 /\ j > a => ref'[j] = ref[j + c]
    <2>1. ref' = Kept(ref, a .. b - 1) /\ c = b - a
        BY <1>1, <1>3
    <2>2. len \in Nat /\ ref \in Seq(Elem) /\ Len(ref) = len /\ a \in 0 .. len /\ b \in a .. len
        BY <1>2, <1>3
    <2>3. PICK t : t = Kept(ref, a .. b - 1)
        OBVIOUS
    <2>4. /\ t \in Seq(Elem) /\ Len(t) = len - (b - a)
          /\ \A j \in 1 .. a : t[j] = ref[j]
          /\ \A j \in a + 1 .. len - (b - a) : t[j] = ref[j + (b - a)]
        <3>1. len \in Nat /\ ref \in Seq(Elem) /\ Len(ref) = len
            BY <2>2
        <3>2. a \in 0 .. len /\ b \in a .. len
            BY <2>2
        <3>3. Closed(t, ref, a, b)
            BY <2>3, <3>1, <3>2, KeptBlock
        <3> QED BY <3>3 DEF Closed
    <2>5. ref' = t /\ b - a = c /\ c \in 0 .. len
        BY <2>1, <2>2, <2>3
    <2>6. ASSUME NEW j \in 1 .. len - c PROVE j <= a => t[j] = ref[j]
        BY <2>2, <2>4
    <2>7. ASSUME NEW j \in 1 .. len - c PROVE j > a => t[j] = ref[j + c]
        <3> SUFFICES ASSUME j > a PROVE t[j] = ref[j + c]
            OBVIOUS
        <3>1. j \in a + 1 .. len - (b - a) /\ j + (b - a) = j + c
            BY <2>2, <2>5
        <3>2. t[j] = ref[j + (b - a)]
            BY <2>4, <3>1
        <3> QED BY <3>1, <3>2
    <2> QED BY <2>4, <2>5, <2>6, <2>7
<1>7. DOMAIN mem' = Span(maxsize)
    BY <1>2, <1>5 DEF Moved1
<1>8. ASSUME NEW j \in Span(len - c) PROVE mem'[j] = ref'[j + 1]
    <2>1. j \in Nat /\ j + 1 \in 1 .. len - c /\ j \in Span(maxsize)
        BY <1>2, <1>3 DEF Span
    <2>2. /\ j + 1 <= a => ref'[j + 1] = ref[j + 1]
          /\ j + 1 > a => ref'[j + 1] = ref[(j + 1) + c]
        BY <1>6, <2>1
    <2>3. CASE j < a
        <3>1. j \in Span(len) /\ ~(j \in a .. a + c - 1) /\ j + 1 <= a
            BY <1>2, <1>3, <2>1, <2>3 DEF Span
        <3>2. mem'[j] = mem[j]
            BY <1>2, <1>5, <2>1, <3>1 DEF Moved1
        <3> QED BY <1>2, <2>2, <3>1, <3>2
    <2>4. CASE j >= a
        <3>1. (c > 0 => b # len) /\ j + 1 > a /\ j + c \in Span(len) /\ (j + 1) + c = (j + c) + 1
            BY <1>2, <1>3, <2>1, <2>4 DEF Span
        <3>2. mem'[j] = mem[j + c]
            <4>1. CASE moves
                <5>1. j \in a .. a + c - 1 /\ b + (j - a) = j + c
                    BY <1>1, <1>2, <1>3, <2>1, <2>4, <4>1 DEF Span
                <5> QED BY <1>2, <1>5, <2>1, <4>1, <5>1 DEF Moved1
            <4>2. CASE ~moves
                <5>1. c = 0
                    BY <1>2, <1>3, <3>1, <4>2
                <5>2. mem' = mem /\ j + c = j
                    BY <1>5, <2>1, <4>2, <5>1
                <5> QED BY <5>2
            <4> QED BY <4>1, <4>2
        <3>3. mem[j + c] = ref[(j + c) + 1]
            BY <1>2, <3>1
        <3> QED BY <2>2, <3>1, <3>2, <3>3
    <2> QED BY <1>2, <1>3, <2>1, <2>3, <2>4
<1>9. len - c \in Nat /\ len - c <= maxsize
    BY <1>2, <1>3
<1> QED BY <1>1, <1>2, <1>5, <1>6, <1>7, <1>8, <1>9 DEF Right

(* del s[lo:hi:step]: the cleared slots are those that are closed up.      *)
LEMMA DelSlotsRight ==
    ASSUME ok, Right(mem, maxsize, len, ref), NEW lo \in Bound, NEW hi \in Bound,
           NEW step \in Int \ {0}, DelSlots(lo, hi, step)
    PROVE  ListInv'
<1> SUFFICES ASSUME tame' PROVE ok' /\ Right(mem', maxsize', len', ref')
    BY DEF ListInv
<1> DEFINE c == Count(lo, hi, step)
           gone == Visited(lo, hi, step, c)
           cleared == [i \in DOMAIN mem |-> IF i \in gone THEN Null ELSE mem[i]]
           h == [k \in 1 .. len |-> cleared[k - 1]]
           D == {i \in Span(len) : cleared[i] = Null}
           staying == Kept(h, D)
<1>1. /\ ok' = (gone \subseteq DOMAIN mem)
      /\ mem' = IF gone \subseteq DOMAIN mem THEN Written(cleared, 0, staying) ELSE mem
      /\ maxsize' = maxsize /\ len' = len - c
      /\ ref' = Kept(ref, Meant(lo, hi, step)) /\ Ordered(lo, hi, step)
    BY DEF DelSlots, Result
<1>2. /\ len \in Nat /\ maxsize \in Nat /\ len <= maxsize /\ DOMAIN mem = Span(maxsize)
      /\ ref \in Seq(Elem) /\ len = Len(ref) /\ \A j \in Span(len) : mem[j] = ref[j + 1]
    BY DEF Right
<1>3. /\ c \in Nat /\ gone = Meant(lo, hi, step) /\ gone \in SUBSET Span(len)
      /\ First(lo, hi, step) \in Int
    BY <1>1, <1>2, SliceVisits
<1>4. Cardinality(gone) = c
    BY <1>3, VisitsOnce DEF Visited
<1> HIDE DEF c, gone
<1>5. \A i \in Span(len) : i \in Span(maxsize) /\ i + 1 \in 1 .. len
    BY <1>2 DEF Span
<1>6. \A k \in 1 .. len : k - 1 \in Span(len) /\ (k - 1) + 1 = k /\ ref[k] \in Elem
    BY <1>2, ElementOfSeq DEF Span
<1>7. D = gone
    <2>1. \A i \in Span(len) : cleared[i] = IF i \in gone THEN Null ELSE ref[i + 1]
        BY <1>2, <1>5
    <2>2. \A i \in Span(len) : ref[i + 1] # Null
        BY <1>5, <1>6, ListAssumption
    <2> HIDE DEF cleared
    <2> QED BY <1>3, <2>1, <2>2
<1>8. \A k \in 1 .. len : k - 1 \notin gone => ref[k] \in Elem /\ h[k] = ref[k]
    BY <1>2, <1>5, <1>6
<1> HIDE DEF h, D, cleared
<1>9. staying = ref'
    <2>1. Kept(h, gone) = Kept(ref, gone)
        <3>1. Alike(h, ref, gone, Elem)
            BY <1>8 DEF Alike
        <3> QED BY <1>2, <3>1, KeptSame
    <2> QED BY <1>1, <1>3, <1>7, <2>1
<1>10. ref' \in Seq(Elem) /\ Len(ref') = len - c
    <2>1. /\ Kept(ref, gone) \in Seq(Elem) /\ Len(Kept(ref, gone)) + Cardinality(gone) = len
        BY <1>2, <1>3, <1>6, KeptCounts
    <2>2. Len(Kept(ref, gone)) \in Nat
        BY <2>1, LenProperties
    <2>3. ref' = Kept(ref, gone)
        BY <1>1, <1>3
    <2> HIDE DEF staying
    <2> QED BY <1>2, <1>3, <1>4, <2>1, <2>2, <2>3
<1>11. gone \subseteq DOMAIN mem
    BY <1>2, <1>3, <1>5
<1>12. mem' = Written(cleared, 0, ref')
    BY <1>1, <1>9, <1>11
<1>13. DOMAIN mem' = Span(maxsize)
    BY <1>2, <1>12 DEF Written, cleared
<1>14. ASSUME NEW j \in Span(len - c) PROVE mem'[j] = ref'[j + 1]
    <2>1. j \in 0 .. 0 + Len(ref') - 1 /\ j \in Span(maxsize) /\ j - 0 + 1 = j + 1
        BY <1>2, <1>3, <1>10 DEF Span
    <2> QED BY <1>2, <1>12, <2>1 DEF Written, cleared
<1>15. len - c \in Nat /\ len - c <= maxsize
    <2>1. Len(ref') \in Nat
        BY <1>10, LenProperties
    <2> QED BY <1>2, <1>3, <1>10, <2>1
<1> QED BY <1>1, <1>2, <1>10, <1>11, <1>13, <1>14, <1>15 DEF Right

-----------------------------------------------------------------------------
(* Every step of a list keeps the invariant. *)
LEMMA ListStep == ListInv /\ [ListNext]_lvars => ListInv'
<1> SUFFICES ASSUME ListInv, [ListNext]_lvars PROVE ListInv'
    OBVIOUS
<1>1. CASE UNCHANGED lvars
    BY <1>1 DEF lvars, ListInv, Right
<1>2. CASE ListNext
    <2>1. ok /\ Right(mem, maxsize, len, ref)
        BY <1>2 DEF ListNext, ListInv
    <2>2. ASSUME NEW x \in Elem, Append1(x) PROVE ListInv'
        BY <2>1, <2>2, Append1Right
    <2>3. ASSUME NEW x \in Elem, RemoveElem(x) PROVE ListInv'
        <3>1. PICK i \in Span(len) : DelItem(i)
            BY <2>3 DEF RemoveElem
        <3>2. i \in Int
            BY <2>1, <3>1 DEF Right, Span
        <3> QED BY <2>1, <3>1, <3>2, DelItemRight
    <2>4. CASE ClearList \/ CopyList \/ PopElem \/ ReverseList
        BY <2>1, <2>4, PlainRight
    <2>a. \A s \in Short : s \in Seq(Elem)
        <3> TAKE s \in Short
        <3>1. PICK n \in 0 .. 2 : s \in [1 .. n -> Elem]
            BY DEF Short
        <3>2. n \in Nat
            OBVIOUS
        <3> QED BY <3>1, <3>2, SeqDef
    <2>5. ASSUME NEW s \in Short, Extend(s) PROVE ListInv'
        BY <2>1, <2>5, <2>a, ExtendRight
    <2>6. ASSUME NEW i \in -MaxLen .. MaxLen - 1, DelItem(i) PROVE ListInv'
        BY <2>1, <2>6, DelItemRight, ListAssumption
    <2>7. ASSUME NEW i \in -MaxLen .. MaxLen - 1, NEW x \in Elem, SetItem(i, x) PROVE ListInv'
        BY <2>1, <2>7, SetItemRight, ListAssumption
    <2>8. ASSUME NEW i \in -MaxLen .. MaxLen - 1, NEW x \in Elem, InsertElem(i, x) PROVE ListInv'
        <3>1. ~tame'
            BY <2>8 DEF InsertElem, Result
        <3> QED BY <3>1 DEF ListInv
    <2>b. \A lo \in Bounds : lo \in Bound
        BY ListAssumption DEF Bounds, Bound
    <2>c. \A step \in Steps : step \in Int \ {0}
        BY ListAssumption
    <2>9. ASSUME NEW lo \in Bounds, NEW hi \in Bounds, NEW step \in Steps, SliceDel(lo, hi, step)
          PROVE  ListInv'
        <3>1. CASE step = 1
            <4>1. DelBlock(lo, hi)
                BY <2>9, <3>1 DEF SliceDel
            <4> QED BY <2>1, <2>b, <4>1, DelBlockRight
        <3>2. CASE step # 1
            <4>1. DelSlots(lo, hi, step)
                BY <2>9, <3>2 DEF SliceDel
            <4> QED BY <2>1, <2>b, <2>c, <4>1, DelSlotsRight
        <3> QED BY <3>1, <3>2
    <2>10. ASSUME NEW lo \in Bounds, NEW hi \in Bounds, NEW step \in Steps, NEW s \in Short,
                  SliceSet(lo, hi, step, s)
           PROVE  ListInv'
        <3>1. CASE step = 1
            <4>1. SetBlock(lo, hi, s)
                BY <2>10, <3>1 DEF SliceSet
            <4> QED BY <2>1, <2>a, <2>b, <4>1, SetBlockRight
        <3>2. CASE step # 1
            <4>1. SetSlots(lo, hi, step, s)
                BY <2>10, <3>2 DEF SliceSet
            <4> QED BY <2>1, <2>a, <2>b, <2>c, <4>1, SetSlotsRight
        <3> QED BY <3>1, <3>2
    <2> QED BY <1>2, <2>2, <2>3, <2>4, <2>5, <2>6, <2>7, <2>8, <2>9, <2>10 DEF ListNext
<1> QED BY <1>1, <1>2

(* The invariant of a list, in every state of every run.                   *)
THEOREM ListInvariance == ListSpec => []ListInv
<1> QED BY InitList, ListStep, PTL DEF ListSpec

(* Tame calls (list.c:56-287) in any number and order, on lists of any     *)
(* length, access only memory that is allocated, and leave in it what a    *)
(* list would hold.                                                        *)
THEOREM ListsRight == ListSpec => []TameListsRight
<1>1. ListInv => TameListsRight
    BY DEF ListInv, Right, TameListsRight
<1> QED BY <1>1, ListInvariance, PTL

(* A slice (list.c:159-187) visits exactly the slots that it means, for    *)
(* every length, every bound and every step but 0, where it is ordered.    *)
THEOREM SlicesRight == ListSpec => []SlicesAsMeant
<1>1. ListInv => SlicesAsMeant
    <2> SUFFICES ASSUME ListInv, tame, NEW lo \in Bounds, NEW hi \in Bounds, NEW step \in Steps,
                        Ordered(lo, hi, step)
                 PROVE  /\ Visited(lo, hi, step, Count(lo, hi, step)) = Meant(lo, hi, step)
                        /\ Distance(lo, hi, step) % Abs1(step) = 0 =>
                             Visited(lo, hi, step, SeqCount(lo, hi, step)) = Meant(lo, hi, step)
        BY DEF SlicesAsMeant
    <2>1. len \in Nat
        BY DEF ListInv, Right
    <2>2. lo \in Bound /\ hi \in Bound /\ step \in Int \ {0}
        BY ListAssumption DEF Bounds, Bound
    <2> QED BY <2>1, <2>2, SliceVisits
<1> QED BY <1>1, ListInvariance, PTL

=============================================================================
