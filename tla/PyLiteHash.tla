----------------------------- MODULE PyLiteHash -----------------------------
(***************************************************************************)
(* The hash table under dicts and sets (src/deps/khash_obj.h), with the    *)
(* calls that types/common/dict.c and set.c make of it and the iterators   *)
(* over it (types/extra/iter.c).                                           *)
(*                                                                         *)
(* The table is open: a key lies in the first bucket of its probe sequence *)
(* that was not empty when it was stored.  Deleting leaves a tombstone.    *)
(* Rehashing works in place: old and new table share the arrays of keys    *)
(* and values, and an element that is in the way is kicked out and carried *)
(* on.  A rehash is written step by step, a put is the walk to its bucket. *)
(***************************************************************************)
EXTENDS Integers, FiniteSets

CONSTANTS
    Key, Value, Absent,     \* as in PyLiteMap
    Hash,           \* pylt_obj_hash of each key
    Batch,          \* bound: what one call may store, partial functions
    MaxBuckets      \* bound: the table grows up to this many buckets

ASSUME HashAssumption ==
    /\ Hash \in [Key -> Nat]
    /\ Absent \notin Value
    /\ \A pairs \in Batch : /\ DOMAIN pairs \subseteq Key
                            /\ pairs \in [DOMAIN pairs -> Value]
    /\ MaxBuckets \in Nat

None == [nothing |-> TRUE]
Entry == [key : Key, val : Value]

VARIABLES
    buckets,    \* n_buckets
    flag,       \* flags: what each bucket is
    slot,       \* keys and vals; None where nothing will be read again
    size,       \* size: live buckets
    occupied,   \* n_occupied: buckets that are not empty
    phase,      \* where the call in progress is
    todo,       \* pairs that the call in progress still has to store
    target,     \* new_n_buckets
    taken,      \* new_flags: buckets of the new table in use
    visit,      \* j: old buckets below it have been moved
    carried,    \* key, val: the element in hand, or None
    it          \* an iterator over the table, with what it has yielded

tvars == <<buckets, flag, slot, size, occupied>>
rvars == <<target, taken, visit, carried>>
hvars == <<buckets, flag, slot, size, occupied, phase, todo, target, taken, visit, carried, it>>

-----------------------------------------------------------------------------
(* Geometry of the table. *)

(* h->upper_bound, (khint_t)(n_buckets * __ac_HASH_UPPER + 0.5): how many  *)
(* buckets may be in use before a put rehashes                             *)
UpperNever(n) == n + 1          \* mutant: the table is never too full
Upper(n) == (77 * n + 50) \div 100

(* The bucket that step s of the probe for k looks at, in a table of n      *)
(* buckets: i = (i + (++step)) & mask                                      *)
Site(k, s, n) == (Hash[k] + (s * (s + 1)) \div 2) % n

(* kroundup32, and the least size: the powers of two, whose divisors are   *)
(* all even, from 4 to the bound                                           *)
Powers == {p \in 4 .. MaxBuckets : \A d \in 2 .. p : p % d = 0 => d % 2 = 0}
Fits(n) == \E p \in Powers : p >= n
RoundUp(n) == CHOOSE p \in Powers : p >= n /\ \A q \in Powers : q >= n => p <= q

Bucket == 0 .. buckets - 1
IsLive(i) == flag[i] = "live"
IsEmpty(i) == flag[i] = "empty"
Live == {i \in Bucket : IsLive(i)}

(* The walk for k stops at step s: at an empty bucket, or at k.  The first *)
(* n steps look at every bucket once, so that no more are needed           *)
(* (ProbesEverywhere).                                                     *)
StopHere(k, i) == IsEmpty(i) \/ (IsLive(i) /\ slot[i].key = k)
StopsAt(k, s) ==
    /\ s \in Bucket
    /\ StopHere(k, Site(k, s, buckets))
    /\ \A t \in 0 .. s - 1 : ~StopHere(k, Site(k, t, buckets))

(* kho_get and getitem: the value of k, or NULL *)
Lookup(k) ==
    IF \E s \in Bucket : StopsAt(k, s) /\ IsLive(Site(k, s, buckets))
    THEN slot[Site(k, CHOOSE s \in Bucket : StopsAt(k, s), buckets)].val
    ELSE Absent

(* The bucket that kho_put chooses for a walk that stops at step s: the    *)
(* last tombstone on the way, if the walk stops at an empty bucket         *)
IsTomb(k, s, t) == t < s /\ flag[Site(k, t, buckets)] = "deleted"
PutsInto(k, s, i) ==
    LET stop == Site(k, s, buckets)
    IN  IF IsEmpty(stop) /\ \E t \in Bucket : IsTomb(k, s, t)
        THEN \E t \in Bucket : /\ IsTomb(k, s, t)
                               /\ \A u \in Bucket : IsTomb(k, s, u) => u <= t
                               /\ i = Site(k, t, buckets)
        ELSE i = stop

-----------------------------------------------------------------------------
NoIter == [on |-> FALSE]
Idle == phase = "idle"

TableInit ==
    /\ buckets = 0 /\ flag = [i \in {} |-> "empty"] /\ slot = [i \in {} |-> None]
    /\ size = 0 /\ occupied = 0

HashInit ==
    /\ TableInit
    /\ phase = "idle" /\ todo = [k \in {} |-> Absent]
    /\ target = 0 /\ taken = {} /\ visit = 0 /\ carried = None
    /\ it = NoIter

(* The element k changes its place: an iterator may meet it again, or not  *)
(* at all.  (A ghost.)  When all elements do the model follows the         *)
(* iterator no further.                                                    *)
Moved(k) ==
    it' = IF it.on THEN [it EXCEPT !.moved = @ \cup {k}, !.seen = @ \ {k}] ELSE it
AllMoved == it' = NoIter

(* A call that stores pairs: setitem (one pair), update, NEW_OBJ dict, set *)
(* add                                                                     *)
Store(pairs) ==
    /\ Idle
    /\ phase' = "put" /\ todo' = pairs
    /\ UNCHANGED <<buckets, flag, slot, size, occupied, target, taken, visit, carried, it>>

(* kho_put, first part: at the upper bound the table is rehashed, in the   *)
(* same size if at most half of it is live, else in the next one.          *)
(* kho_resize does nothing if what is live would not fit.                  *)
Wished == IF buckets > 2 * size THEN buckets - 1 ELSE buckets + 1
Wanted == RoundUp(Wished)
MustRehash == occupied >= Upper(buckets) /\ size < Upper(Wanted)

ResizeFor ==
    /\ phase = "put" /\ todo # [k \in {} |-> Absent]
    /\ Fits(Wished) /\ MustRehash
    /\ phase' = "rehash"
    /\ target' = Wanted /\ taken' = {} /\ visit' = 0 /\ carried' = None
    /\ slot' = [i \in 0 .. Wanted - 1 |-> IF i \in Bucket THEN slot[i] ELSE None]
    /\ AllMoved
    /\ UNCHANGED <<buckets, flag, size, occupied, todo>>

(* kho_resize, the loop over the old buckets: take out what is live in     *)
(* bucket j ...                                                            *)
TakeOut ==
    /\ phase = "rehash" /\ carried = None /\ visit < buckets
    /\ visit' = visit + 1
    /\ IF IsLive(visit)
       THEN /\ carried' = slot[visit]
            /\ flag' = [flag EXCEPT ![visit] = "deleted"]
            /\ slot' = [slot EXCEPT ![visit] = None]
       ELSE UNCHANGED <<carried, flag, slot>>
    /\ UNCHANGED <<buckets, size, occupied, phase, todo, target, taken, it>>

(* ... and put it into the first free bucket of the new table; what is     *)
(* still there of the old one is kicked out and goes on                    *)
FreeAt(k, s) ==
    /\ s \in 0 .. target - 1
    /\ Site(k, s, target) \notin taken
    /\ \A t \in 0 .. s - 1 : Site(k, t, target) \in taken

PutDownOver ==                  \* mutant: what is kicked out is dropped
    /\ phase = "rehash" /\ carried # None
    /\ \E s \in 0 .. target - 1 :
         LET i == Site(carried.key, s, target)
         IN  /\ FreeAt(carried.key, s)
             /\ taken' = taken \cup {i}
             /\ slot' = [slot EXCEPT ![i] = carried]
             /\ flag' = IF i < buckets THEN [flag EXCEPT ![i] = "deleted"] ELSE flag
    /\ carried' = None
    /\ UNCHANGED <<buckets, size, occupied, phase, todo, target, visit, it>>

PutDown ==
    /\ phase = "rehash" /\ carried # None
    /\ \E s \in 0 .. target - 1 :
         LET i == Site(carried.key, s, target)
             kicked == i < buckets /\ IsLive(i)
         IN  /\ FreeAt(carried.key, s)
             /\ taken' = taken \cup {i}
             /\ slot' = [slot EXCEPT ![i] = carried]
             /\ carried' = IF kicked THEN slot[i] ELSE None
             /\ flag' = IF kicked THEN [flag EXCEPT ![i] = "deleted"] ELSE flag
    /\ UNCHANGED <<buckets, size, occupied, phase, todo, target, visit, it>>

(* The new flags become the flags *)
Rehashed ==
    /\ phase = "rehash" /\ carried = None /\ visit = buckets
    /\ buckets' = target
    /\ flag' = [i \in 0 .. target - 1 |-> IF i \in taken THEN "live" ELSE "empty"]
    /\ occupied' = size
    /\ phase' = "insert"
    /\ target' = 0 /\ taken' = {} /\ visit' = 0
    /\ UNCHANGED <<slot, size, todo, carried, it>>

(* kho_put, second part, and the value that setitem writes *)
Insert ==
    /\ phase = "insert" \/ (phase = "put" /\ ~MustRehash)
    /\ \E k \in DOMAIN todo : \E s \in Bucket : \E i \in Bucket :
         /\ StopsAt(k, s) /\ PutsInto(k, s, i)
         /\ slot' = [slot EXCEPT ![i] = [key |-> k, val |-> todo[k]]]
         /\ flag' = [flag EXCEPT ![i] = "live"]
         /\ size' = size + IF IsLive(i) THEN 0 ELSE 1
         /\ occupied' = occupied + IF IsEmpty(i) THEN 1 ELSE 0
         /\ todo' = [l \in DOMAIN todo \ {k} |-> todo[l]]
    /\ phase' = "put"
    /\ UNCHANGED <<buckets, target, taken, visit, carried, it>>

Stored ==
    /\ phase = "put" /\ todo = [k \in {} |-> Absent]
    /\ phase' = "idle"
    /\ UNCHANGED <<buckets, flag, slot, size, occupied, todo, target, taken, visit, carried, it>>

RemoveKeyToEmpty(k) ==             \* mutant: no tombstone is left
    /\ Idle
    /\ \E s \in Bucket :
         LET i == Site(k, s, buckets)
         IN  /\ StopsAt(k, s) /\ IsLive(i)
             /\ flag' = [flag EXCEPT ![i] = "empty"]
             /\ slot' = [slot EXCEPT ![i] = None]
    /\ size' = size - 1
    /\ Moved(k)
    /\ UNCHANGED <<buckets, occupied, phase, todo, target, taken, visit, carried>>

(* kho_get and kho_del: del d[k], d.pop(k), s.remove(k)                    *)
RemoveKey(k) ==
    /\ Idle
    /\ \E s \in Bucket :
         LET i == Site(k, s, buckets)
         IN  /\ StopsAt(k, s) /\ IsLive(i)
             /\ flag' = [flag EXCEPT ![i] = "deleted"]
             /\ slot' = [slot EXCEPT ![i] = None]
    /\ size' = size - 1
    /\ Moved(k)
    /\ UNCHANGED <<buckets, occupied, phase, todo, target, taken, visit, carried>>

(* pop() of a set: the first element *)
PopFirst ==
    \E i \in Live : (\A j \in Live : i <= j) /\ RemoveKey(slot[i].key)

(* kho_clear: the buckets stay *)
Clear ==
    /\ Idle
    /\ flag' = [i \in Bucket |-> "empty"] /\ slot' = [i \in Bucket |-> None]
    /\ size' = 0 /\ occupied' = 0
    /\ AllMoved
    /\ UNCHANGED <<buckets, phase, todo, target, taken, visit, carried>>

(* copy(): a table with room for the length of this one, into which all    *)
(* pairs are stored; the model goes on with the copy                       *)
Contents(k) == CHOOSE v \in Value : \E i \in Live : slot[i] = [key |-> k, val |-> v]
Copy ==
    /\ Idle /\ Fits(size)
    /\ LET room == RoundUp(size)
       IN  /\ buckets' = room
           /\ flag' = [i \in 0 .. room - 1 |-> "empty"]
           /\ slot' = [i \in 0 .. room - 1 |-> None]
    /\ size' = 0 /\ occupied' = 0
    /\ phase' = "put"
    /\ todo' = [k \in {slot[i].key : i \in Live} |-> Contents(k)]
    /\ it' = NoIter
    /\ UNCHANGED <<target, taken, visit, carried>>

-----------------------------------------------------------------------------
(* Iterators (dict_begin, dict_next, iter_new, the iternext functions).    *)

AfterSkips(i) ==                \* mutant: the key is stepped twice
    LET rest == {j \in Live : j > i + 1}
    IN  IF rest = {} THEN buckets ELSE CHOOSE j \in rest : \A l \in rest : j <= l

(* The first live bucket after i, or the end: dict_next *)
After(i) ==
    LET rest == {j \in Live : j > i}
    IN  IF rest = {} THEN buckets ELSE CHOOSE j \in rest : \A l \in rest : j <= l

Iterate ==
    /\ Idle
    /\ \E items \in BOOLEAN :
         it' = [on |-> TRUE, items |-> items, at |-> After(-1), count |-> size,
                seen |-> {}, moved |-> {}, again |-> FALSE, null |-> FALSE, lost |-> FALSE]
    /\ UNCHANGED <<buckets, flag, slot, size, occupied, phase, todo, target, taken, visit, carried>>

(* A word of flags is for 16 buckets, and there is one at least, its rest  *)
(* not live; a table into which nothing was ever put has none.             *)
FlagsHave(i) == buckets > 0 /\ (i < 16 \/ i < buckets)

(* dict_iternext, set_iternext and dict_items_iternext: NULL when the      *)
(* length has changed or the bucket is not live.  That is asked of the end *)
(* as well, of a flag that may not be there, and the first two then step   *)
(* on from the end, for which they always read behind the flags: it may go *)
(* well, or the iterator is lost.  Through the NULL of no flags at all it  *)
(* always is.  Every loop over an iterator stops at NULL, and so does the  *)
(* model of it.                                                            *)
IterNext ==
    /\ Idle /\ it.on /\ ~it.null /\ ~it.lost
    /\ \/ /\ size # it.count \/ it.at \notin Live \cup {buckets}
          /\ it' = [it EXCEPT !.null = TRUE]
       \/ /\ size = it.count /\ it.at \in Live
          /\ LET k == slot[it.at].key
             IN  it' = [it EXCEPT !.at = After(it.at),
                                  !.seen = @ \cup ({k} \ it.moved),
                                  !.again = @ \/ k \in it.seen]
       \/ /\ size = it.count /\ it.at = buckets
          /\ \/ buckets > 0 /\ it' = [it EXCEPT !.null = TRUE]
             \/ it.items /\ ~FlagsHave(buckets) /\ it' = [it EXCEPT !.lost = TRUE]
             \/ ~it.items /\ it' = [it EXCEPT !.lost = TRUE]
    /\ UNCHANGED <<buckets, flag, slot, size, occupied, phase, todo, target, taken, visit, carried>>

-----------------------------------------------------------------------------
HashStep == ResizeFor \/ TakeOut \/ PutDown \/ Rehashed \/ Insert \/ Stored

HashNext ==
    \/ HashStep
    \/ \E pairs \in Batch : Store(pairs)
    \/ \E k \in Key : RemoveKey(k)
    \/ PopFirst \/ Clear \/ Copy
    \/ Iterate \/ IterNext

HashSpec == HashInit /\ [][HashNext]_hvars /\ WF_hvars(HashStep)
-----------------------------------------------------------------------------
(* What the table holds in the eyes of the program: the pairs of a call in *)
(* progress, then the element in hand, then the buckets, old and new.      *)
Held == {slot[i] : i \in Live \cup taken} \cup ({carried} \ {None})
Abs == [k \in Key |->
          IF k \in DOMAIN todo THEN todo[k]
          ELSE IF \E e \in Held : e.key = k
               THEN (CHOOSE e \in Held : e.key = k).val
               ELSE Absent]

(* A set compares with another, of keys K: pylt_obj_set_eq and             *)
(* pylt_obj_set_contains look at the sizes, then look up element by element*)
Has(k) == Lookup(k) # Absent
SetEq(K) == size = Cardinality(K) /\ \A k \in K : Has(k)
SetContains(K) == size > Cardinality(K) /\ \A k \in K : Has(k)
ContainedIn(K) == Cardinality(K) > size /\ \A i \in Live : slot[i].key \in K

Incomparable == 3
SetCmp(K) ==
    IF SetEq(K) THEN 0
    ELSE IF SetContains(K) THEN 1
    ELSE IF ContainedIn(K) THEN -1
    ELSE Incomparable

Map == INSTANCE PyLiteMap WITH map <- Abs

(* The table implements the partial function: every call takes effect at   *)
(* once and as a whole, a copy holds what its original holds, and while a  *)
(* call goes on rehashing loses nothing and brings nothing back.           *)
HashImplements == Map!MapSpec /\ [][phase # "idle" => Abs' = Abs]_hvars

(* Between calls a walk finds exactly what was stored and not removed      *)
(* since, tombstones and collisions notwithstanding; and so sets compare   *)
(* as (finite) sets are ordered, by size and lookups alone.                *)
LookupFinds ==
    Idle => /\ \A k \in Key : Lookup(k) = Abs[k]
            /\ LET mine == {k \in Key : Abs[k] # Absent}
               IN  \A K \in SUBSET Key : IsFiniteSet(K) =>
                       /\ SetCmp(K) = 0 <=> mine = K
                       /\ SetCmp(K) = 1 <=> K \subseteq mine /\ mine # K
                       /\ SetCmp(K) = -1 <=> mine \subseteq K /\ mine # K

(* An iterator yields no element twice and, unless the length has changed  *)
(* or an element was removed under it, has yielded all of them when it     *)
(* ends or is lost; except for elements that a rehash has moved.  The      *)
(* iterator of items() is lost only in a table that was never filled or    *)
(* that has outgrown the first word of its flags.                          *)
IterEnded == (it.null \/ it.lost) /\ size = it.count /\ it.moved = {}
IterFaithful ==
    it.on => /\ ~it.again
             /\ IterEnded => it.seen = {slot[i].key : i \in Live}
             /\ it.lost /\ it.items => buckets \notin 1 .. 15

(* Every call that stores comes to its end.                                *)
StoreEnds == phase = "put" ~> Idle
=============================================================================
