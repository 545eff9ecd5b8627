----------------------------- MODULE PyLiteList -----------------------------
(***************************************************************************)
(* The methods of lists (types/common/list.c) on the memory of one list:   *)
(* an allocation, of which ob_maxsize slots are believed to be there and   *)
(* ob_size are in use.  Next to it stands what the list should hold, a     *)
(* plain sequence.                                                         *)
(*                                                                         *)
(* Some methods are only right on some arguments, and one never is.  A     *)
(* call is tame where the code does what is meant; the model stops after   *)
(* a call that is not.                                                     *)
(***************************************************************************)
EXTENDS Integers, Sequences, FiniteSets

CONSTANTS
    Elem,       \* what lists hold
    NoBound,    \* a bound of a slice that is left out
    Steps,      \* steps of slices; the code refuses 0
    MaxLen      \* bound: the longest list

Junk == [uninitialised |-> TRUE]    \* what lies in memory nobody has written
Null == [null |-> TRUE]             \* a NULL written by a deletion

ASSUME ListAssumption ==
    /\ MaxLen \in Nat \ {0} /\ NoBound \notin Int
    /\ Steps \subseteq Int \ {0}
    /\ Null \notin Elem            \* no element is a NULL pointer

VARIABLES
    mem,        \* ob_val: the slots that are allocated
    maxsize,    \* ob_maxsize
    len,        \* ob_size
    ref,        \* what the list should hold
    tame,       \* no call went beyond what the code does right
    ok          \* every access was to allocated memory

lvars == <<mem, maxsize, len, ref, tame, ok>>

Span(n) == 0 .. n - 1

(* The n slots from lo on are allocated in m *)
Inside(m, lo, n) == \A i \in lo .. lo + n - 1 : i \in DOMAIN m

(* memcpy and memmove of n slots within m, and from another array *)
Moved1(m, to, from, n) ==
    [i \in DOMAIN m |-> IF i \in to .. to + n - 1 THEN m[from + (i - to)] ELSE m[i]]
Written(m, to, s) ==
    [i \in DOMAIN m |-> IF i \in to .. to + Len(s) - 1 THEN s[i - to + 1] ELSE m[i]]

(* pylt_realloc *)
Realloc(m, n) == [i \in Span(n) |-> IF i \in DOMAIN m THEN m[i] ELSE Junk]

Abs1(x) == IF x < 0 THEN -x ELSE x
CeilDiv(a, b) == (a + b - 1) \div b

Short == UNION {[1 .. n -> Elem] : n \in 0 .. 2}

(* A list display of n elements has room for just these; list_new, which   *)
(* every other fresh list comes from, for four.                            *)
ListInit ==
    \E s \in Short : \E room \in {Len(s), 4} :
        /\ maxsize = room /\ len = Len(s) /\ ref = s
        /\ mem = [i \in Span(room) |-> IF i < Len(s) THEN s[i + 1] ELSE Junk]
        /\ tame = TRUE /\ ok = TRUE

(* One call: the new memory, sizes and meaning; whether it was in bounds   *)
(* and whether it was tame *)
Result(m, max, n, meant, inside, isTame) ==
    /\ ok' = inside
    /\ mem' = IF inside THEN m ELSE mem
    /\ maxsize' = max /\ len' = n
    /\ ref' = meant /\ tame' = isTame

-----------------------------------------------------------------------------
Append1Late(x) ==               \* mutant: grows one element too late
    /\ len < MaxLen
    /\ LET max == IF len <= maxsize THEN maxsize ELSE 2 * maxsize
           m == IF len <= maxsize THEN mem ELSE Realloc(mem, max)
       IN  Result(Written(m, len, <<x>>), max, len + 1, Append(ref, x), Inside(m, len, 1), TRUE)

Append1(x) ==
    /\ len < MaxLen
    /\ LET max == IF len < maxsize THEN maxsize ELSE IF maxsize = 0 THEN 4 ELSE 2 * maxsize
           m == IF len < maxsize THEN mem ELSE Realloc(mem, max)
       IN  Result(Written(m, len, <<x>>), max, len + 1, Append(ref, x), Inside(m, len, 1), TRUE)

ClearList == Result(mem, maxsize, 0, <<>>, TRUE, TRUE)

(* The copy takes over ob_maxsize, but has memory for ob_size only: it is  *)
(* as good as the list if that was full.  The model goes on with the copy. *)
CopyList == Result(Realloc(mem, len), maxsize, len, ref, TRUE, len = maxsize)

Extend(s) ==
    /\ len + Len(s) <= MaxLen
    /\ LET grow == len + Len(s) >= maxsize
           max == IF grow THEN len + Len(s) ELSE maxsize
           m == IF grow THEN Realloc(mem, max) ELSE mem
       IN  Result(Written(m, len, s), max, len + Len(s), ref \o s,
                  Inside(m, len, Len(s)), TRUE)

(* index_chk: the slot that an index means, if any *)
Slot(i) == IF i < 0 THEN i + len ELSE i
IndexOk(i) == Slot(i) \in Span(len)

SetItem(i, x) ==
    /\ IndexOk(i)
    /\ Result(Written(mem, Slot(i), <<x>>), maxsize, len,
              [ref EXCEPT ![Slot(i) + 1] = x], Inside(mem, Slot(i), 1), TRUE)

Without(s, i) == SubSeq(s, 1, i - 1) \o SubSeq(s, i + 1, Len(s))

DelItem(i) ==
    /\ IndexOk(i)
    /\ LET n == len - Slot(i) - 1
       IN  Result(Moved1(mem, Slot(i), Slot(i) + 1, n), maxsize, len - 1,
                  Without(ref, Slot(i) + 1), Inside(mem, Slot(i) + 1, n), TRUE)

(* list_remove: the first that equals x, by list_index *)
RemoveElem(x) ==
    /\ \E i \in Span(len) : /\ mem[i] = x /\ \A j \in Span(i) : mem[j] # x
                            /\ DelItem(i)

PopElem ==
    /\ len > 0
    /\ Result(mem, maxsize, len - 1, SubSeq(ref, 1, Len(ref) - 1), TRUE, TRUE)

(* The swaps of the first half with the second *)
Reversed(m) == [i \in DOMAIN m |-> IF i \in Span(len) THEN m[len - 1 - i] ELSE m[i]]
ReverseList ==
    Result(Reversed(mem), maxsize, len, [i \in 1 .. Len(ref) |-> ref[Len(ref) + 1 - i]],
           Inside(mem, 0, len), TRUE)

(* One element too many is moved, and ob_size is not counted up: the last  *)
(* element falls off.  An index at the end is refused.                     *)
InsertElem(i, x) ==
    /\ IndexOk(i)
    /\ LET max == IF len + 1 >= maxsize THEN len + 1 ELSE maxsize
           m == IF len + 1 >= maxsize THEN Realloc(mem, max) ELSE mem
           n == len - Slot(i) + 1
           inside == Inside(m, Slot(i), n) /\ Inside(m, Slot(i) + 1, n)
       IN  Result(IF inside THEN Written(Moved1(m, Slot(i) + 1, Slot(i), n), Slot(i), <<x>>) ELSE m,
                  max, len,
                  SubSeq(ref, 1, Slot(i)) \o <<x>> \o SubSeq(ref, Slot(i) + 1, Len(ref)),
                  inside, FALSE)

-----------------------------------------------------------------------------
(* Slices.  A bound is a number, or absent. *)
Fix(i) == LET j == IF i < 0 THEN i + len ELSE i
          IN  IF j < 0 THEN 0 ELSE IF j >= len THEN len ELSE j

(* The start and the number of the slots that the code visits *)
FirstAtEnd(lo, hi, step) ==     \* mutant: backwards from one past the end
    IF lo # NoBound THEN Fix(lo) ELSE IF step > 0 THEN 0 ELSE len
First(lo, hi, step) ==
    LET s == IF lo # NoBound THEN Fix(lo) ELSE IF step > 0 THEN 0 ELSE len
    IN  IF step < 0 THEN s - 1 ELSE s
Stop(lo, hi, step) ==
    IF hi # NoBound THEN Fix(hi) ELSE IF step > 0 THEN len ELSE -1
Distance(lo, hi, step) == Abs1(Stop(lo, hi, step) - First(lo, hi, step))
Count(lo, hi, step) == CeilDiv(Distance(lo, hi, step), Abs1(step))
Visited(lo, hi, step, count) == {First(lo, hi, step) + k * step : k \in Span(count)}

(* tuple_slice, str_slice and bytes_slice divide before they round up *)
SeqCount(lo, hi, step) == Distance(lo, hi, step) \div Abs1(step)

(* What a slice means: forwards the slots from start to before end,        *)
(* backwards those from start down to behind end                           *)
Meant(lo, hi, step) ==
    LET s == IF lo = NoBound THEN (IF step > 0 THEN 0 ELSE len - 1)
             ELSE IF step > 0 THEN Fix(lo)
             ELSE LET j == IF lo < 0 THEN lo + len ELSE lo
                  IN  IF j < 0 THEN -1 ELSE IF j >= len THEN len - 1 ELSE j
        e == IF hi = NoBound THEN (IF step > 0 THEN len ELSE -1)
             ELSE IF step > 0 THEN Fix(hi)
             ELSE LET j == IF hi < 0 THEN hi + len ELSE hi
                  IN  IF j < 0 THEN -1 ELSE IF j >= len THEN len - 1 ELSE j
    IN  {i \in Span(len) :
            IF step > 0 THEN i >= s /\ i < e /\ (i - s) % step = 0
                        ELSE i <= s /\ i > e /\ (s - i) % (-step) = 0}

(* The slots that are visited are those that are meant: so it is forwards  *)
(* and without crossing bounds, and backwards over everything.  Otherwise  *)
(* a start behind the stop counts the distance all the same, and backwards *)
(* a start is taken for one past the first element.                        *)
Ordered(lo, hi, step) ==
    \/ step > 0 /\ First(lo, hi, step) <= Stop(lo, hi, step)
    \/ step < 0 /\ lo = NoBound /\ hi = NoBound

(* s[lo:hi] = s: one block is exchanged.  What lies behind it is moved in  *)
(* the length of all the rest, so that a block behind the start needs as   *)
(* much spare memory.                                                      *)
SetBlock(lo, hi, s) ==
    LET start == First(lo, hi, 1)   stop == Stop(lo, hi, 1)
        count == Count(lo, hi, 1)   n == len - count + Len(s)
        max == IF count < Len(s) /\ n > maxsize THEN n ELSE maxsize
        m == Realloc(mem, IF max = maxsize THEN Cardinality(DOMAIN mem) ELSE max)
        inside == /\ Inside(m, start + count, len - count)
                  /\ Inside(m, start + Len(s), len - count)
    IN  /\ n <= MaxLen
        /\ Result(IF inside
                  THEN Written(Moved1(m, start + Len(s), start + count, len - count), start, s)
                  ELSE m,
                  max, n,
                  IF start <= stop THEN SubSeq(ref, 1, start) \o s \o SubSeq(ref, stop + 1, len)
                                   ELSE ref,
                  inside,
                  /\ Ordered(lo, hi, 1)
                  /\ start = 0 \/ (start + len <= max /\ start + n <= max))

(* s[lo:hi:step] = s: slot by slot, and only if the lengths agree *)
SetSlots(lo, hi, step, s) ==
    LET at(i) == CHOOSE k \in Span(Count(lo, hi, step)) : First(lo, hi, step) + k * step = i
        here == Visited(lo, hi, step, Count(lo, hi, step))
        new(f, shift) == [i \in DOMAIN f |->
                            IF i - shift \in here THEN s[at(i - shift) + 1] ELSE f[i]]
        inside == here \subseteq DOMAIN mem
    IN  /\ Count(lo, hi, step) = Len(s)
        /\ Result(new(mem, 0), maxsize, len, new(ref, 1), inside, Ordered(lo, hi, step))

SliceSet(lo, hi, step, s) ==
    IF step = 1 THEN SetBlock(lo, hi, s) ELSE SetSlots(lo, hi, step, s)

(* The elements that stay when those of the set D of slots go *)
Kept(f, D) ==
    LET K[k \in 0 .. len] == IF k = 0 THEN <<>>
                             ELSE IF k - 1 \in D THEN K[k - 1] ELSE Append(K[k - 1], f[k])
    IN  K[len]

(* del s[lo:hi]: as many elements are moved as are deleted, whether or not *)
(* as many, or more, are left behind them                                  *)
DelBlock(lo, hi) ==
    LET start == First(lo, hi, 1)   stop == Stop(lo, hi, 1)
        count == Count(lo, hi, 1)
        moves == count > 0 /\ stop # len
        inside == moves => Inside(mem, stop, count)
    IN  Result(IF moves /\ inside THEN Moved1(mem, start, stop, count) ELSE mem,
               maxsize, len - count, Kept(ref, Meant(lo, hi, 1)), inside,
               /\ Ordered(lo, hi, 1)
               /\ moves => count >= len - stop /\ stop + count <= maxsize)

(* del s[lo:hi:step]: the slots are cleared, then the list is closed up *)
DelSlots(lo, hi, step) ==
    LET gone == Visited(lo, hi, step, Count(lo, hi, step))
        inside == gone \subseteq DOMAIN mem
        cleared == [i \in DOMAIN mem |-> IF i \in gone THEN Null ELSE mem[i]]
        staying == Kept([k \in 1 .. len |-> cleared[k - 1]],
                        {i \in Span(len) : cleared[i] = Null})
    IN  Result(Written(cleared, 0, staying),
               maxsize, len - Count(lo, hi, step), Kept(ref, Meant(lo, hi, step)), inside,
               Ordered(lo, hi, step))

SliceDel(lo, hi, step) ==
    IF step = 1 THEN DelBlock(lo, hi) ELSE DelSlots(lo, hi, step)

-----------------------------------------------------------------------------
Bounds == (-MaxLen - 1 .. MaxLen + 1) \cup {NoBound}

ListNext ==
    /\ tame /\ ok
    /\ \/ \E x \in Elem : Append1(x) \/ RemoveElem(x)
       \/ ClearList \/ CopyList \/ PopElem \/ ReverseList
       \/ \E s \in Short : Extend(s)
       \/ \E i \in -MaxLen .. MaxLen - 1 : DelItem(i) \/ \E x \in Elem : SetItem(i, x) \/ InsertElem(i, x)
       \/ \E lo \in Bounds, hi \in Bounds, step \in Steps :
            SliceDel(lo, hi, step) \/ \E s \in Short : SliceSet(lo, hi, step, s)

ListSpec == ListInit /\ [][ListNext]_lvars

-----------------------------------------------------------------------------
(* Tame calls in any order keep the list what it should be: no access      *)
(* leaves the memory, which is as large as it is believed to be, and what  *)
(* lies in it are the elements that a list would hold.                     *)
TameListsRight ==
    tame => /\ ok
            /\ DOMAIN mem = Span(maxsize)
            /\ len = Len(ref)
            /\ \A i \in Span(len) : mem[i] = ref[i + 1]

(* A slice visits the elements that are meant, and no other memory; of a   *)
(* tuple, a str or bytes only if the step divides the distance.            *)
SlicesAsMeant ==
    tame => \A lo \in Bounds, hi \in Bounds, step \in Steps :
        Ordered(lo, hi, step) =>
            /\ Visited(lo, hi, step, Count(lo, hi, step)) = Meant(lo, hi, step)
            /\ Distance(lo, hi, step) % Abs1(step) = 0 =>
                 Visited(lo, hi, step, SeqCount(lo, hi, step)) = Meant(lo, hi, step)
=============================================================================
