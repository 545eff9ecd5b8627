------------------------ MODULE PyLiteValues_proofs ------------------------
(***************************************************************************)
(* Text and numbers.                                                       *)
(*                                                                         *)
(* Neither repr nor the operator % writes beyond the buffer it has         *)
(* reckoned, whatever the texts, the formats and the arguments are.  For   *)
(* repr the room asked for in each turn is that of the longest escape.     *)
(* For % the key is what is still to be read: the format is never written  *)
(* out longer than it is, so what has been written and what is to come     *)
(* always fit, and a directive, whose text may be longer, reckons anew.    *)
(*                                                                         *)
(* What repr writes reads back, a tame format gives its meaning piece by   *)
(* piece, and a search finds the first place.  The text written so far is  *)
(* always that of the first characters, or pieces; the reader of escapes   *)
(* goes forwards only, so a text of any length reads back if each escape   *)
(* does.                                                                   *)
(*                                                                         *)
(* Arithmetic gives what Python gives where it is tame, for every width of *)
(* the words: one lemma per operator, each about quotients, remainders and *)
(* the range of a word.  A number reads back as it was printed: after i of *)
(* its digits what has been read is the number without the others.         *)
(***************************************************************************)
EXTENDS PyLiteString, PyLiteNumber, FiniteSetTheorems, SequenceTheorems, WellFoundedInduction, TLAPS

-----------------------------------------------------------------------------
(* Least elements, in place of induction *)

Below == {ss \in Nat \X Nat : ss[1] < ss[2]}

(* A set of natural numbers has a least element. *)
LEMMA LeastOf ==
    ASSUME NEW T \in SUBSET Nat, T # {}
    PROVE  \E x \in T : \A y \in T : x <= y
<1>1. IsWellFoundedOn(Below, Nat)
    BY NatLessThanWellFounded DEF OpToRel, Below
<1>2. PICK x \in T : \A y \in T : <<y, x>> \notin Below
    BY <1>1, WFMin, Zenon
<1>3. ASSUME NEW y \in T PROVE x <= y
    <2>1. <<y, x>> \notin Below
        BY <1>2
    <2>2. ~(y < x)
        BY <2>1 DEF Below
    <2> QED BY <2>2
<1> QED BY <1>2, <1>3

-----------------------------------------------------------------------------
(* Recursion over 0 .. m, in place of induction *)

(* g starts with s and goes on as step says, a function of the number of   *)
(* the step and of the value before it. *)
Iterates(g, s, step, m) == g[0] = s /\ \A i \in 1 .. m : g[i] = step[<<i, g[i - 1]>>]

(* Such a function exists. *)
LEMMA Recursion ==
    ASSUME NEW S, NEW s \in S, NEW m \in Nat, NEW step \in [(1 .. m) \X S -> S]
    PROVE  \E g \in [0 .. m -> S] : Iterates(g, s, step, m)
<1> DEFINE T == {n \in 0 .. m : ~\E g \in [0 .. n -> S] : Iterates(g, s, step, n)}
<1>1. 0 \notin T
    <2>1. [k \in 0 .. 0 |-> s] \in [0 .. 0 -> S] /\ Iterates([k \in 0 .. 0 |-> s], s, step, 0)
        BY DEF Iterates
    <2> QED BY <2>1
<1>2. ASSUME NEW n \in 1 .. m, n - 1 \notin T PROVE n \notin T
    <2>1. PICK g \in [0 .. n - 1 -> S] : Iterates(g, s, step, n - 1)
        BY <1>2
    <2> DEFINE h == [k \in 0 .. n |-> IF k = n THEN step[<<n, g[n - 1]>>] ELSE g[k]]
    <2>2. step[<<n, g[n - 1]>>] \in S
        OBVIOUS
    <2>3. h \in [0 .. n -> S]
        BY <2>2
    <2>4. h[0] = s
        BY <2>1 DEF Iterates
    <2>5. ASSUME NEW i \in 1 .. n PROVE h[i] = step[<<i, h[i - 1]>>]
        <3>1. h[i - 1] = g[i - 1]
            OBVIOUS
        <3>2. CASE i = n
            <4>1. h[i] = step[<<n, g[n - 1]>>]
                BY <3>2
            <4> HIDE DEF h
            <4> QED BY <3>1, <3>2, <4>1
        <3>3. CASE i # n
            <4>1. i \in 1 .. n - 1 /\ h[i] = g[i]
                BY <3>3
            <4> QED BY <4>1, <3>1, <2>1 DEF Iterates
        <3> QED BY <3>2, <3>3
    <2> QED BY <2>3, <2>4, <2>5 DEF Iterates
<1>3. T = {}
    <2> SUFFICES ASSUME T # {} PROVE FALSE
        OBVIOUS
    <2>1. T \in SUBSET Nat /\ T \subseteq 0 .. m
        OBVIOUS
    <2> HIDE DEF T
    <2>2. PICK n \in T : \A k \in T : n <= k
        BY <2>1, LeastOf
    <2>3. n \in 1 .. m /\ n - 1 \notin T
        BY <2>1, <2>2, <1>1
    <2> QED BY <2>2, <2>3, <1>2
<1> QED BY <1>3

(* There is one only. *)
LEMMA RecursionOnce ==
    ASSUME NEW s, NEW m \in Nat, NEW step, NEW g, NEW h,
           Iterates(g, s, step, m), Iterates(h, s, step, m), NEW i \in 0 .. m
    PROVE  g[i] = h[i]
<1> DEFINE T == {k \in 0 .. m : g[k] # h[k]}
<1>1. ASSUME T # {} PROVE FALSE
    <2>1. T \in SUBSET Nat
        OBVIOUS
    <2>2. PICK n \in T : \A k \in T : n <= k
        BY <1>1, <2>1, LeastOf
    <2>3. n # 0
        BY <2>2 DEF Iterates
    <2>4. n \in 1 .. m /\ n - 1 \in 0 .. m /\ n - 1 \notin T
        BY <2>2, <2>3
    <2> QED BY <2>2, <2>4 DEF Iterates
<1> QED BY <1>1

-----------------------------------------------------------------------------
(* Texts *)

(* Codes of any kind in a sequence *)
IsSeq(s) == s \in Seq(Range(s))

(* A sequence over any set is one over its range. *)
LEMMA SeqIsSeq ==
    ASSUME NEW S, NEW s \in Seq(S)
    PROVE  IsSeq(s)
<1>1. Len(s) \in Nat /\ DOMAIN s = 1 .. Len(s) /\ s \in [1 .. Len(s) -> S]
    BY LenProperties
<1>2. s \in [1 .. Len(s) -> Range(s)]
    BY <1>1 DEF Range
<1> QED BY <1>1, <1>2, SeqDef DEF IsSeq

(* Lengths add up when sequences are joined. *)
LEMMA Joined ==
    ASSUME NEW s, NEW t, IsSeq(s), IsSeq(t)
    PROVE  IsSeq(s \o t) /\ Len(s \o t) = Len(s) + Len(t) /\ Len(s) \in Nat /\ Len(t) \in Nat
<1> DEFINE S == Range(s) \cup Range(t)
<1>1. s \in Seq(S) /\ t \in Seq(S)
    BY SeqDef, LenProperties DEF IsSeq
<1>2. s \o t \in Seq(S) /\ Len(s \o t) = Len(s) + Len(t)
    BY <1>1, ConcatProperties
<1> QED BY <1>1, <1>2, SeqIsSeq, LenProperties

(* Sequences of none to four codes *)
LEMMA Short ==
    /\ IsSeq(<<>>) /\ Len(<<>>) = 0
    /\ \A a : IsSeq(<<a>>) /\ Len(<<a>>) = 1
    /\ \A a, b : IsSeq(<<a, b>>) /\ Len(<<a, b>>) = 2
    /\ \A a, b, c, d : IsSeq(<<a, b, c, d>>) /\ Len(<<a, b, c, d>>) = 4
<1>1. <<>> \in Seq({}) /\ Len(<<>>) = 0
    OBVIOUS
<1>2. ASSUME NEW a PROVE <<a>> \in Seq({a}) /\ Len(<<a>>) = 1
    OBVIOUS
<1>3. ASSUME NEW a, NEW b PROVE <<a, b>> \in Seq({a, b}) /\ Len(<<a, b>>) = 2
    OBVIOUS
<1>4. ASSUME NEW a, NEW b, NEW c, NEW d
      PROVE  <<a, b, c, d>> \in Seq({a, b, c, d}) /\ Len(<<a, b, c, d>>) = 4
    OBVIOUS
<1>5. \A a : IsSeq(<<a>>) /\ Len(<<a>>) = 1
    BY <1>2, SeqIsSeq
<1>6. \A a, b : IsSeq(<<a, b>>) /\ Len(<<a, b>>) = 2
    BY <1>3, SeqIsSeq
<1>7. \A a, b, c, d : IsSeq(<<a, b, c, d>>) /\ Len(<<a, b, c, d>>) = 4
    BY <1>4, SeqIsSeq
<1> QED BY <1>1, <1>5, <1>6, <1>7, SeqIsSeq

(* An escape of repr has at most four codes. *)
LEMMA EscapedFits ==
    ASSUME NEW c
    PROVE  IsSeq(Escaped(c)) /\ Len(Escaped(c)) \in Nat /\ Len(Escaped(c)) <= 4
<1>1. CASE c \in DOMAIN Letters
    <2>1. Escaped(c) = <<Backslash, Letters[c]>>
        BY <1>1 DEF Escaped
    <2> QED BY <2>1, Short
<1>2. CASE c \notin DOMAIN Letters /\ c \in {Quote, Backslash}
    <2>1. Escaped(c) = <<Backslash, c>>
        BY <1>2 DEF Escaped
    <2> QED BY <2>1, Short
<1>3. CASE c \notin DOMAIN Letters /\ c \notin {Quote, Backslash} /\ c \in Unprintable
    <2>1. Escaped(c) = <<Backslash, Ex, Hex(c \div 16), Hex(c % 16)>>
        BY <1>3 DEF Escaped
    <2> QED BY <2>1, Short
<1>4. CASE c \notin DOMAIN Letters /\ c \notin {Quote, Backslash} /\ c \notin Unprintable
    <2>1. Escaped(c) = <<c>>
        BY <1>4 DEF Escaped
    <2> QED BY <2>1, Short
<1> QED BY <1>1, <1>2, <1>3, <1>4

(* The length of two texts, joined *)
LEMMA JoinedText ==
    ASSUME NEW x \in Seq(Nat), NEW y \in Seq(Nat)
    PROVE  x \o y \in Seq(Nat) /\ Len(x \o y) = Len(x) + Len(y) /\ Len(x) \in Nat /\ Len(y) \in Nat
BY ConcatProperties, LenProperties

-----------------------------------------------------------------------------
(* Texts one after the other *)

(* The first k of the texts in q, one after the other *)
UpTo(q, k) == FlattenSeq([i \in 1 .. k |-> q[i]])

(* One more text of q behind what there is *)
Appends(q, n) == [e \in (1 .. n) \X Seq(Nat) |-> e[2] \o q[e[1]]]

(* A function over no numbers is the empty text. *)
LEMMA EmptyText == \A f : DOMAIN f = 1 .. 0 /\ f = [i \in 1 .. 0 |-> f[i]] => f = <<>>
<1> SUFFICES ASSUME NEW f, DOMAIN f = 1 .. 0, f = [i \in 1 .. 0 |-> f[i]] PROVE f = <<>>
    OBVIOUS
<1>1. f \in [1 .. 0 -> {}]
    OBVIOUS
<1>2. f \in Seq({}) /\ 0 \in Nat
    BY <1>1, SeqDef
<1>3. Len(f) \in Nat /\ 1 .. Len(f) = 1 .. 0
    BY <1>2, LenProperties
<1>4. Len(f) = 0
    BY <1>3
<1> QED BY <1>2, <1>4, EmptySeq

(* FlattenSeq, folded out: a function that grows by one text at a time *)
LEMMA Flattens ==
    ASSUME NEW n \in Nat, NEW q \in [1 .. n -> Seq(Nat)]
    PROVE  \E g \in [0 .. n -> Seq(Nat)] :
               /\ g[0] = <<>> /\ \A i \in 1 .. n : g[i] = g[i - 1] \o q[i]
               /\ \A k \in 0 .. n : UpTo(q, k) = g[k]
<1>1. Appends(q, n) \in [(1 .. n) \X Seq(Nat) -> Seq(Nat)]
    BY DEF Appends
<1>2. <<>> \in Seq(Nat)
    OBVIOUS
<1>3. PICK g \in [0 .. n -> Seq(Nat)] : Iterates(g, <<>>, Appends(q, n), n)
    BY <1>1, <1>2, Recursion, Zenon
<1>4. g[0] = <<>>
    BY <1>3 DEF Iterates
<1>5. ASSUME NEW i \in 1 .. n PROVE g[i] = g[i - 1] \o q[i]
    <2>1. <<i, g[i - 1]>> \in (1 .. n) \X Seq(Nat)
        OBVIOUS
    <2> QED BY <1>3, <2>1 DEF Iterates, Appends
<1>6. ASSUME NEW k \in 0 .. n PROVE UpTo(q, k) = g[k]
    <2> DEFINE r == [i \in 1 .. k |-> q[i]]
    <2>1. r \in [1 .. k -> Seq(Nat)] /\ k \in Nat
        OBVIOUS
    <2>2. r \in Seq(Seq(Nat)) /\ Len(r) \in Nat /\ 1 .. Len(r) = 1 .. k
        BY <2>1, SeqDef, LenProperties
    <2>3. Len(r) = k
        BY <2>1, <2>2
    <2>4. CASE k = 0
        <3>1. r = <<>>
            BY <2>4, EmptyText
        <3>2. UpTo(q, k) = r
            BY <2>3, <2>4 DEF UpTo, FlattenSeq
        <3> QED BY <2>4, <3>1, <3>2, <1>4
    <2>5. CASE k # 0
        <3> DEFINE Flat(f) == f = [i \in 1 .. k |-> IF i = 1 THEN r[i] ELSE f[i - 1] \o r[i]]
                   f == CHOOSE f : Flat(f)
        <3>1. UpTo(q, k) = f[k]
            <4>1. FlattenSeq(r) = f[k]
                BY <2>3, <2>5 DEF FlattenSeq
            <4> QED BY <4>1 DEF UpTo
        <3>2. Flat([i \in 1 .. k |-> g[i]])
            <4>1. ASSUME NEW i \in 1 .. k PROVE g[i] = IF i = 1 THEN r[i] ELSE g[i - 1] \o r[i]
                <5>0. i \in 1 .. n /\ r[i] = q[i]
                    OBVIOUS
                <5>1. g[i] = g[i - 1] \o r[i] /\ r[i] \in Seq(Nat)
                    BY <1>5, <5>0
                <5>2. i = 1 => g[i - 1] = <<>>
                    BY <1>4
                <5> HIDE DEF r
                <5>3. i = 1 => g[i] = r[i]
                    BY <5>1, <5>2, ConcatEmptySeq
                <5> QED BY <5>1, <5>3
            <4> QED BY <4>1
        <3>3. Flat(f)
            <4> HIDE DEF Flat
            <4> QED BY <3>2
        <3> HIDE DEF f
        <3> DEFINE T == {i \in 1 .. k : f[i] # g[i]}
        <3>4. ASSUME T # {} PROVE FALSE
            <4>1. T \in SUBSET Nat
                OBVIOUS
            <4>2. PICK i \in T : \A j \in T : i <= j
                BY <3>4, <4>1, LeastOf
            <4>3. i # 1
                BY <3>2, <3>3, <4>2
            <4>4. i - 1 \in 1 .. k /\ i - 1 \notin T
                BY <4>2, <4>3
            <4>5. f[i] = f[i - 1] \o r[i]
                BY <3>3, <4>2, <4>3
            <4>6. r[i] = q[i] /\ i \in 1 .. n /\ f[i - 1] = g[i - 1] /\ f[i] # g[i]
                BY <4>2, <4>4
            <4> QED BY <1>5, <4>5, <4>6
        <3>5. \A i \in 1 .. k : f[i] = g[i]
            BY <3>4
        <3>6. k \in 1 .. k
            BY <2>5
        <3> QED BY <3>1, <3>5, <3>6
    <2> QED BY <2>4, <2>5
<1> QED BY <1>4, <1>5, <1>6

(* They grow by one text at a time. *)
LEMMA UpToGrows ==
    ASSUME NEW n \in Nat, NEW q \in [1 .. n -> Seq(Nat)]
    PROVE  /\ UpTo(q, 0) = <<>>
           /\ \A k \in 0 .. n : UpTo(q, k) \in Seq(Nat)
           /\ \A k \in 1 .. n : UpTo(q, k) = UpTo(q, k - 1) \o q[k]
<1>1. PICK g \in [0 .. n -> Seq(Nat)] :
          /\ g[0] = <<>> /\ \A i \in 1 .. n : g[i] = g[i - 1] \o q[i]
          /\ \A k \in 0 .. n : UpTo(q, k) = g[k]
    BY Flattens
<1>2. UpTo(q, 0) = <<>>
    BY <1>1
<1>3. ASSUME NEW k \in 1 .. n PROVE UpTo(q, k) = UpTo(q, k - 1) \o q[k]
    <2>1. k \in 0 .. n /\ k - 1 \in 0 .. n
        OBVIOUS
    <2> QED BY <1>1, <2>1
<1> QED BY <1>1, <1>2, <1>3

(* What has been put in front stays where it is. *)
LEMMA FrontStays ==
    ASSUME NEW n \in Nat, NEW q \in [1 .. n -> Seq(Nat)], NEW k \in 0 .. n
    PROVE  /\ Len(UpTo(q, k)) \in Nat /\ Len(UpTo(q, k)) <= Len(UpTo(q, n))
           /\ \A i \in 1 .. Len(UpTo(q, k)) : UpTo(q, n)[i] = UpTo(q, k)[i]
<1> DEFINE Fronts(m) == /\ Len(UpTo(q, k)) <= Len(UpTo(q, m))
                        /\ \A i \in 1 .. Len(UpTo(q, k)) : UpTo(q, m)[i] = UpTo(q, k)[i]
           T == {m \in k .. n : ~Fronts(m)}
<1>1. \A m \in 0 .. n : UpTo(q, m) \in Seq(Nat) /\ Len(UpTo(q, m)) \in Nat
    BY UpToGrows, LenProperties
<1>2. ASSUME T # {} PROVE FALSE
    <2>1. T \in SUBSET Nat
        OBVIOUS
    <2>2. PICK m \in T : \A j \in T : m <= j
        BY <1>2, <2>1, LeastOf
    <2>3. m # k
        BY <1>1, <2>2
    <2>4. m \in 1 .. n /\ m - 1 \in k .. n /\ m - 1 \in 0 .. n /\ m - 1 \notin T
        BY <2>2, <2>3
    <2> DEFINE a == UpTo(q, m - 1)
               b == UpTo(q, m)
    <2>5. b = a \o q[m] /\ a \in Seq(Nat) /\ q[m] \in Seq(Nat)
        BY <1>1, <2>4, UpToGrows
    <2>6. Fronts(m - 1)
        BY <2>4
    <2> HIDE DEF a, b
    <2>7. Len(b) = Len(a) + Len(q[m]) /\ Len(q[m]) \in Nat /\ Len(a) \in Nat
          /\ \A i \in 1 .. Len(a) : b[i] = a[i]
        BY <2>5, ConcatProperties, LenProperties
    <2> DEFINE p == UpTo(q, k)
    <2>8. Len(p) <= Len(a) /\ \A i \in 1 .. Len(p) : a[i] = p[i]
        BY <2>6 DEF a
    <2>9. Len(p) \in Nat
        BY <1>1
    <2> HIDE DEF p
    <2>10. Len(p) <= Len(b) /\ \A i \in 1 .. Len(p) : b[i] = p[i]
        BY <2>7, <2>8, <2>9
    <2>11. Fronts(m)
        BY <2>10 DEF b, p
    <2> QED BY <2>2, <2>11
<1>3. n \in k .. n
    OBVIOUS
<1>4. Fronts(n)
    <2> HIDE DEF Fronts
    <2> QED BY <1>2, <1>3
<1> QED BY <1>1, <1>4

(* e stands in s from i on *)
StandsAt(s, i, e) == i + Len(e) - 1 <= Len(s) /\ \A j \in 1 .. Len(e) : s[i + j - 1] = e[j]

(* Each of the texts stands behind those before it. *)
LEMMA NextStands ==
    ASSUME NEW n \in Nat, NEW q \in [1 .. n -> Seq(Nat)], NEW k \in 1 .. n
    PROVE  /\ Len(UpTo(q, k - 1)) \in Nat /\ Len(UpTo(q, n)) \in Nat /\ Len(q[k]) \in Nat
           /\ Len(UpTo(q, k)) = Len(UpTo(q, k - 1)) + Len(q[k]) /\ Len(UpTo(q, k)) <= Len(UpTo(q, n))
           /\ StandsAt(UpTo(q, n), Len(UpTo(q, k - 1)) + 1, q[k])
<1> DEFINE s == UpTo(q, n)
           a == UpTo(q, k - 1)
           b == UpTo(q, k)
           e == q[k]
<1>1. k \in 0 .. n /\ k - 1 \in 0 .. n /\ n \in 0 .. n
    OBVIOUS
<1>2. e \in Seq(Nat) /\ Len(e) \in Nat
    BY LenProperties
<1>3. a \in Seq(Nat) /\ Len(a) \in Nat /\ b = a \o e /\ Len(s) \in Nat
    BY <1>1, UpToGrows, LenProperties
<1>4. Len(b) <= Len(s) /\ \A i \in 1 .. Len(b) : s[i] = b[i]
    BY <1>1, FrontStays
<1> HIDE DEF a, b, e, s
<1>5. Len(b) = Len(a) + Len(e) /\ \A j \in 1 .. Len(b) : b[j] = IF j <= Len(a) THEN a[j] ELSE e[j - Len(a)]
    BY <1>2, <1>3, ConcatProperties
<1>6. ASSUME NEW j \in 1 .. Len(e) PROVE s[(Len(a) + 1) + j - 1] = e[j]
    <2>1. /\ Len(a) + j \in 1 .. Len(b) /\ (Len(a) + 1) + j - 1 = Len(a) + j
          /\ ~(Len(a) + j <= Len(a)) /\ (Len(a) + j) - Len(a) = j
        BY <1>2, <1>3, <1>5
    <2> QED BY <1>4, <1>5, <2>1
<1>7. StandsAt(s, Len(a) + 1, e)
    <2>1. (Len(a) + 1) + Len(e) - 1 <= Len(s)
        BY <1>2, <1>3, <1>4, <1>5
    <2> QED BY <1>6, <2>1 DEF StandsAt
<1> QED BY <1>2, <1>3, <1>4, <1>5, <1>7 DEF a, b, e, s

-----------------------------------------------------------------------------
(* Reading a format *)

(* Some first character that is not in S ends a run of characters in S. *)
LEMMA SkipEnds ==
    ASSUME IsText(src), NEW S, Terminator \notin S, NEW i \in 1 .. Len(src) + 1
    PROVE  SkipOver(S, i) \in i .. Len(src) + 1
<1> DEFINE T == {j \in i .. Len(src) + 1 : CodeAt(j) \notin S}
<1>1. Len(src) \in Nat
    BY LenProperties DEF IsText
<1>2. Len(src) + 1 \in T
    BY <1>1 DEF CodeAt
<1>3. T \in SUBSET Nat /\ T # {}
    BY <1>1, <1>2
<1>4. PICK j \in T : \A k \in T : j <= k
    BY <1>3, LeastOf
<1>5. \A k \in i .. j - 1 : src[k] \in S
    <2> TAKE k \in i .. j - 1
    <2>1. k \in i .. Len(src) /\ k < j
        BY <1>1, <1>4
    <2>2. k \notin T
        BY <1>4, <2>1, <1>1
    <2> QED BY <2>1, <2>2, <1>1 DEF CodeAt
<1>6. j \in i .. Len(src) + 1 /\ CodeAt(j) \notin S
    BY <1>4
<1> QED BY <1>5, <1>6 DEF SkipOver

(* A run of at most three octal digits ends. *)
LEMMA OctEnds ==
    ASSUME IsText(src), NEW i \in 1 .. Len(src)
    PROVE  OctEnd(src, i) \in i .. i + 3
<1> DEFINE In(j) == j <= Len(src) /\ src[j] \in OctDigits
           Ends(j) == /\ \A k \in i .. j - 1 : In(k)
                      /\ j = i + 3 \/ j > Len(src) \/ src[j] \notin OctDigits
<1>1. Len(src) \in Nat
    BY LenProperties DEF IsText
<1>2. CASE ~In(i)
    <2>1. Ends(i)
        BY <1>1, <1>2
    <2> QED BY <2>1 DEF OctEnd
<1>3. CASE In(i) /\ ~In(i + 1)
    <2>1. Ends(i + 1)
        BY <1>1, <1>3
    <2> QED BY <2>1 DEF OctEnd
<1>4. CASE In(i) /\ In(i + 1) /\ ~In(i + 2)
    <2>1. Ends(i + 2)
        BY <1>1, <1>4
    <2> QED BY <2>1 DEF OctEnd
<1>5. CASE In(i) /\ In(i + 1) /\ In(i + 2)
    <2>1. Ends(i + 3)
        BY <1>1, <1>5
    <2> QED BY <2>1 DEF OctEnd
<1> QED BY <1>2, <1>3, <1>4, <1>5

(* The characters from i on *)
ToCome(i) == IF i <= Len(src) THEN Len(src) - i + 1 ELSE 0

(* An escape is written out with no more codes than it is long, its        *)
(* backslash included; unless it is bad.                                   *)
LEMMA EscapeFits ==
    ASSUME IsText(src), NEW i \in 2 .. Len(src) + 1, FormatEscape(i) # Bad
    PROVE  LET here == FormatEscape(i)
           IN  /\ IsSeq(here.codes) /\ here.next \in Nat \ {0}
               /\ Len(here.codes) + ToCome(here.next) <= ToCome(i - 1)
<1> DEFINE here == FormatEscape(i)
           Fits == /\ IsSeq(here.codes) /\ here.next \in Nat \ {0}
                   /\ Len(here.codes) + ToCome(here.next) <= ToCome(i - 1)
<1>0. Len(src) \in Nat /\ i \in Nat /\ i >= 2 /\ i <= Len(src) + 1
    BY LenProperties DEF IsText
<1>a. \A n \in Nat : n >= i => 1 + ToCome(n) <= ToCome(i - 1)
    BY <1>0 DEF ToCome
<1>1. ASSUME NEW c, NEW n \in Nat, n >= i, FormatEscape(i) = Read(<<c>>, n) PROVE Fits
    <2>1. here.codes = <<c>> /\ here.next = n
        BY <1>1 DEF Read
    <2>2. IsSeq(<<c>>) /\ Len(<<c>>) = 1
        BY Short
    <2>3. 1 + ToCome(n) <= ToCome(i - 1)
        BY <1>1, <1>a
    <2> QED BY <2>1, <2>2, <2>3, <1>0, <1>1
<1>2. CASE i > Len(src)
    <2>1. FormatEscape(i) = Read(<<Terminator>>, i + 1)
        BY <1>0, <1>2 DEF FormatEscape
    <2> QED BY <2>1, <1>0, <1>1
<1>3. CASE i <= Len(src) /\ src[i] \in Spelled
    <2>1. CASE LetterFor(src[i]) = 11
        <3>1. FormatEscape(i) = Read(<<LetterFor(src[i])>>, i)
            BY <1>0, <1>3, <2>1 DEF FormatEscape
        <3> QED BY <3>1, <1>0, <1>1
    <2>2. CASE LetterFor(src[i]) # 11
        <3>1. FormatEscape(i) = Read(<<LetterFor(src[i])>>, i + 1)
            BY <1>0, <1>3, <2>2 DEF FormatEscape
        <3> QED BY <3>1, <1>0, <1>1
    <2> QED BY <2>1, <2>2
<1>4. CASE i <= Len(src) /\ src[i] \notin Spelled /\ src[i] = Backslash
    <2>1. FormatEscape(i) = Read(<<Backslash>>, i)
        BY <1>0, <1>4 DEF FormatEscape
    <2> QED BY <2>1, <1>0, <1>1
<1>5. CASE i <= Len(src) /\ src[i] \notin Spelled /\ src[i] # Backslash /\ src[i] \in OctDigits
    <2>1. OctEnd(src, i) \in i .. i + 3
        BY <1>0, <1>5, OctEnds
    <2>2. OctEnd(src, i) \in Nat /\ OctEnd(src, i) >= i
        BY <2>1, <1>0
    <2>3. FormatEscape(i) = Read(<<OctValue(src, i)>>, OctEnd(src, i))
        BY <1>0, <1>5 DEF FormatEscape
    <2> QED BY <2>2, <2>3, <1>1
<1>6. CASE i <= Len(src) /\ src[i] \notin Spelled /\ src[i] # Backslash /\ src[i] \notin OctDigits /\ src[i] = Ex
    <2>1. FormatEscape(i) = Read(<<ByteAt(src, i + 1)>>, i + 3)
        BY <1>0, <1>6 DEF FormatEscape
    <2> QED BY <2>1, <1>0, <1>1
<1>7. CASE i <= Len(src) /\ src[i] \notin Spelled /\ src[i] # Backslash /\ src[i] \notin OctDigits /\ src[i] # Ex
    <2>1. CASE CodeAt(i + 1) >= 128
        <3>1. here = Read(<<>>, i + 1)
            BY <1>0, <1>7, <2>1 DEF FormatEscape
        <3>2. here.codes = <<>> /\ here.next = i + 1
            BY <3>1 DEF Read
        <3> QED BY <3>2, Short, <1>0 DEF ToCome
    <2>2. CASE ~(CodeAt(i + 1) >= 128)
        <3>1. here = Read(<<Backslash, CodeAt(i + 1)>>, i + 1)
            BY <1>0, <1>7, <2>2 DEF FormatEscape
        <3>2. here.codes = <<Backslash, CodeAt(i + 1)>> /\ here.next = i + 1
            BY <3>1 DEF Read
        <3>3. IsSeq(here.codes) /\ Len(here.codes) = 2
            BY <3>2, Short
        <3>4. 2 + ToCome(i + 1) <= ToCome(i - 1)
            BY <1>0, <1>7 DEF ToCome
        <3> QED BY <3>2, <3>3, <3>4, <1>0
    <2> QED BY <2>1, <2>2
<1>8. Fits
    BY <1>0, <1>2, <1>3, <1>4, <1>5, <1>6, <1>7
<1> QED BY <1>8
-----------------------------------------------------------------------------
(* The numbers in a directive *)

Digit(g, i, n) == IF n = 0 THEN 0 ELSE 10 * g[n - 1] + (src[i + n - 1] - Zero)
Reads(g, i, m) == g \in [0 .. m -> Int] /\ \A n \in 0 .. m : g[n] = Digit(g, i, n)

(* The value of the first n digits exists for every n. *)
LEMMA Readable ==
    ASSUME IsText(src), NEW i \in Nat \ {0}, NEW m \in Nat, i + m <= Len(src) + 1
    PROVE  \E g : Reads(g, i, m)
<1> DEFINE T == {k \in 0 .. m : ~\E g : Reads(g, i, k)}
<1>1. Len(src) \in Nat /\ \A k \in 1 .. Len(src) : src[k] \in Nat
    BY LenProperties, ElementOfSeq DEF IsText
<1>2. SUFFICES ASSUME m \in T PROVE FALSE
    <2>1. m \in 0 .. m
        OBVIOUS
    <2> QED BY <2>1
<1>a. T \in SUBSET Nat
    OBVIOUS
<1>b. T # {}
    BY <1>2, Zenon
<1>3. PICK x \in T : \A y \in T : x <= y
    BY <1>a, <1>b, LeastOf
<1>4. CASE x = 0
    <2>1. Reads([n \in 0 .. 0 |-> 0], i, 0)
        BY DEF Reads, Digit
    <2> QED BY <1>3, <1>4, <2>1
<1>5. CASE x > 0
    <2>1. x - 1 \in 0 .. m /\ x - 1 \notin T
        BY <1>3, <1>5
    <2>2. PICK g : Reads(g, i, x - 1)
        BY <2>1
    <2> DEFINE h == [n \in 0 .. x |-> Digit(g, i, n)]
    <2>3. src[i + x - 1] \in Nat
        BY <1>1, <1>3, <1>5
    <2>4. \A n \in 0 .. x - 1 : h[n] = g[n] /\ g[n] \in Int
        BY <1>3, <2>2 DEF Reads
    <2>a. g[x - 1] \in Int /\ x # 0
        <3>1. x - 1 \in 0 .. x - 1
            BY <2>1, <1>5
        <3> QED BY <3>1, <2>2, <1>5 DEF Reads
    <2>b. Digit(g, i, x) = 10 * g[x - 1] + (src[i + x - 1] - Zero)
        BY <2>a DEF Digit
    <2>5. Digit(g, i, x) \in Int
        BY <2>3, <2>a, <2>b, SMTT(30) DEF Zero
    <2>6. h \in [0 .. x -> Int]
        <3> SUFFICES ASSUME NEW n \in 0 .. x PROVE Digit(g, i, n) \in Int
            OBVIOUS
        <3>1. n = x \/ n \in 0 .. x - 1
            BY <1>3
        <3> QED BY <3>1, <2>4, <2>5, <1>3
    <2>7. \A n \in 0 .. x : h[n] = Digit(h, i, n)
        <3> SUFFICES ASSUME NEW n \in 0 .. x PROVE Digit(g, i, n) = Digit(h, i, n)
            OBVIOUS
        <3>1. CASE n = 0
            BY <3>1 DEF Digit
        <3>2. CASE n # 0
            <4>1. n - 1 \in 0 .. x - 1
                BY <3>2, <1>3
            <4> HIDE DEF h
            <4>2. h[n - 1] = g[n - 1]
                BY <4>1, <2>4
            <4> QED BY <4>2, <3>2 DEF Digit
        <3> QED BY <3>1, <3>2
    <2>8. Reads(h, i, x)
        BY <2>6, <2>7 DEF Reads
    <2> QED BY <2>8, <1>3
<1> QED BY <1>3, <1>4, <1>5

(* A run of digits has a value. *)
LEMMA ValueIsInt ==
    ASSUME IsText(src), NEW i \in Nat \ {0}, NEW j \in Nat, i <= j, j <= Len(src) + 1
    PROVE  ValueOf(i, j) \in Int
<1> DEFINE m == j - i
           f == CHOOSE g : g = [n \in 0 .. m |-> IF n = 0 THEN 0 ELSE 10 * g[n - 1] + (src[i + n - 1] - Zero)]
<1>1. m \in Nat /\ i + m <= Len(src) + 1 /\ Len(src) \in Nat
    BY LenProperties DEF IsText
<1>2. PICK g : Reads(g, i, m)
    BY <1>1, Readable
<1>3. g = [n \in 0 .. m |-> IF n = 0 THEN 0 ELSE 10 * g[n - 1] + (src[i + n - 1] - Zero)]
    BY <1>2 DEF Reads, Digit
<1>4. f = [n \in 0 .. m |-> IF n = 0 THEN 0 ELSE 10 * f[n - 1] + (src[i + n - 1] - Zero)]
    BY <1>3
<1>5. ValueOf(i, j) = f[m]
    BY DEF ValueOf
<1> HIDE DEF f
<1>6. \A n \in 0 .. m : f[n] = Digit(f, i, n)
    BY <1>4 DEF Digit
<1> DEFINE T == {n \in 0 .. m : f[n] \notin Int}
<1>7. T = {}
    <2> SUFFICES ASSUME T # {} PROVE FALSE
        OBVIOUS
    <2>a. T \in SUBSET Nat
        BY <1>1
    <2>1. PICK x \in T : \A y \in T : x <= y
        BY <2>a, LeastOf
    <2>2. x # 0
        BY <2>1, <1>6, <1>1 DEF Digit
    <2>3. x - 1 \in 0 .. m /\ x - 1 \notin T
        BY <2>1, <2>2, <1>1
    <2>4. src[i + x - 1] \in Nat
        BY <2>1, <2>2, <1>1, ElementOfSeq DEF IsText
    <2>5. f[x] = 10 * f[x - 1] + (src[i + x - 1] - Zero)
        BY <2>1, <2>2, <1>6 DEF Digit
    <2> QED BY <2>1, <2>3, <2>4, <2>5, SMTT(30) DEF Zero
<1> QED BY <1>1, <1>5, <1>7

(* The parts of a directive that is accepted lie in the format, one after  *)
(* the other, and its numbers are numbers.                                 *)
LEMMA FieldLies ==
    ASSUME IsText(src), at \in Nat \ {0}, at <= Len(src), Type \in Types
    PROVE  /\ FracEnd \in Nat /\ at < FracEnd /\ FracEnd <= Len(src)
           /\ LimitAll \in Int /\ LimitFloat \in Int
<1>1. Len(src) \in Nat
    BY LenProperties DEF IsText
<1>2. FlagsEnd \in at + 1 .. Len(src) + 1
    <2>1. Terminator \notin {Zero, Dash} /\ at + 1 \in 1 .. Len(src) + 1
        BY <1>1 DEF Terminator, Zero, Dash
    <2> QED BY <2>1, SkipEnds DEF FlagsEnd
<1>d. Terminator \notin DecDigits
    BY DEF Terminator, DecDigits
<1>3. WidthEnd \in FlagsEnd .. Len(src) + 1
    <2>1. FlagsEnd \in 1 .. Len(src) + 1
        BY <1>1, <1>2
    <2> QED BY <2>1, <1>d, SkipEnds DEF WidthEnd
<1>4. ASSUME CodeAt(WidthEnd) = Dot PROVE FracEnd \in WidthEnd .. Len(src) + 1
    <2>1. WidthEnd <= Len(src)
        BY <1>1, <1>2, <1>3, <1>4 DEF CodeAt, Terminator, Dot
    <2>2. WidthEnd + 1 \in 1 .. Len(src) + 1
        BY <1>1, <1>2, <1>3, <2>1
    <2>3. FracEnd \in WidthEnd + 1 .. Len(src) + 1
        BY <1>4, <2>2, <1>d, SkipEnds DEF FracEnd
    <2> QED BY <1>1, <1>2, <1>3, <2>3
<1>5. FracEnd \in WidthEnd .. Len(src) + 1
    <2>1. CASE CodeAt(WidthEnd) # Dot
        BY <1>1, <1>2, <1>3, <2>1 DEF FracEnd
    <2> QED BY <1>4, <2>1
<1>6. FracEnd <= Len(src)
    BY <1>1, <1>2, <1>3, <1>5 DEF Type, Types, TypeD, TypeF, FloatTypes, TypeS, TypeR, TypeP, CodeAt, Terminator
<1>7. LimitAll \in Int
    BY <1>1, <1>2, <1>3, ValueIsInt DEF LimitAll
<1>8. LimitFloat \in Int
    <2>1. CASE FracEnd = WidthEnd
        BY <2>1 DEF LimitFloat
    <2>2. CASE FracEnd # WidthEnd
        <3>1. WidthEnd + 1 \in Nat \ {0} /\ WidthEnd + 1 <= FracEnd /\ FracEnd \in Nat
            BY <1>1, <1>2, <1>3, <1>5, <2>2
        <3> QED BY <3>1, <1>1, <1>6, <2>2, ValueIsInt DEF LimitFloat
    <2> QED BY <2>1, <2>2
<1> QED BY <1>1, <1>2, <1>3, <1>5, <1>6, <1>7, <1>8

(* What is shown of an argument is a sequence. *)
LEMMA ShownIsSeq ==
    ASSUME IsText(src), at \in Nat \ {0}, at <= Len(src), Type \in Types,
           NEW arg, IsText(arg.text), IsText(ReprOf(arg)), NEW t \in Shows(arg)
    PROVE  IsSeq(t)
<1>1. IsSeq(arg.text) /\ IsSeq(ReprOf(arg))
    BY SeqIsSeq DEF IsText
<1>2. ASSUME NEW i \in DOMAIN arg.text, i + LimitFloat <= Len(arg.text)
      PROVE  IsSeq(SubSeq(arg.text, 1, i + LimitFloat))
    <2>1. Len(arg.text) \in Nat /\ DOMAIN arg.text = 1 .. Len(arg.text) /\ LimitFloat \in Int
        BY LenProperties, FieldLies DEF IsText
    <2>2. \A n \in 1 .. i + LimitFloat : arg.text[n] \in Nat
        BY <1>2, <2>1, ElementOfSeq, SMTT(30) DEF IsText
    <2>3. SubSeq(arg.text, 1, i + LimitFloat) \in Seq(Nat)
        BY <2>1, <2>2, SubSeqProperties
    <2> QED BY <2>3, SeqIsSeq
<1>3. \/ t \in {arg.text, ReprOf(arg)}
      \/ t \in Addresses
      \/ \E i \in DOMAIN arg.text :
            t = SubSeq(arg.text, 1, i + LimitFloat) /\ i + LimitFloat <= Len(arg.text)
    BY DEF Shows, ShowsFloat
<1>4. t \in Addresses => IsSeq(t)
    BY SeqIsSeq, StringAssumption DEF IsText
<1> QED BY <1>1, <1>2, <1>3, <1>4

(* Padding is as long as it is meant to be. *)
LEMMA PaddingIsSeq ==
    ASSUME NEW n \in Nat, NEW c
    PROVE  IsSeq(Padding(n, c)) /\ Len(Padding(n, c)) = n
<1>1. Padding(n, c) \in [1 .. n -> {c}]
    BY DEF Padding
<1>2. Padding(n, c) \in Seq({c})
    BY <1>1, SeqDef
<1>3. DOMAIN Padding(n, c) = 1 .. n /\ DOMAIN Padding(n, c) = 1 .. Len(Padding(n, c)) /\ Len(Padding(n, c)) \in Nat
    BY <1>2, LenProperties DEF Padding
<1> QED BY <1>2, <1>3, SeqIsSeq

-----------------------------------------------------------------------------
(* How a format is written *)

(* Two digits at most, the first of which is not zero *)
LEMMA DecimalIs ==
    ASSUME NEW n \in 1 .. 99
    PROVE  /\ Decimal(n) \in Seq(Nat) /\ Len(Decimal(n)) \in {1, 2}
           /\ \A j \in 1 .. Len(Decimal(n)) : Decimal(n)[j] \in DecDigits
           /\ Decimal(n)[1] \notin {Zero, Dash}
           /\ Len(Decimal(n)) = 1 => Decimal(n)[1] - 48 = n
           /\ Len(Decimal(n)) = 2 => 10 * (Decimal(n)[1] - 48) + (Decimal(n)[2] - 48) = n
<1> DEFINE d == Decimal(n)
<1>1. CASE n >= 10
    <2> DEFINE a == n \div 10
               b == n % 10
    <2>1. a \in 1 .. 9 /\ b \in 0 .. 9 /\ n = 10 * a + b
        BY <1>1
    <2>2. d = <<48 + a, 48 + b>>
        BY <1>1 DEF Decimal
    <2> HIDE DEF a, b
    <2>3. d \in Seq(Nat) /\ Len(d) = 2 /\ d[1] = 48 + a /\ d[2] = 48 + b
        <3>1. 48 + a \in Nat /\ 48 + b \in Nat
            BY <2>1
        <3> QED BY <2>2, <3>1
    <2> HIDE DEF d
    <2>4. 48 + a \in DecDigits /\ 48 + b \in DecDigits /\ 48 + a \notin {Zero, Dash}
        BY <2>1 DEF DecDigits, Zero, Dash
    <2>5. 10 * ((48 + a) - 48) + ((48 + b) - 48) = n
        BY <2>1
    <2>6. \A j \in 1 .. 2 : d[j] \in DecDigits
        BY <2>3, <2>4
    <2> QED BY <2>3, <2>4, <2>5, <2>6 DEF d
<1>2. CASE n < 10
    <2>1. d = <<48 + n>>
        BY <1>2 DEF Decimal
    <2>2. d \in Seq(Nat) /\ Len(d) = 1 /\ d[1] = 48 + n
        BY <2>1
    <2> HIDE DEF d
    <2>3. 48 + n \in DecDigits /\ 48 + n \notin {Zero, Dash} /\ (48 + n) - 48 = n
        BY <1>2 DEF DecDigits, Zero, Dash
    <2>4. \A j \in 1 .. 1 : d[j] \in DecDigits
        BY <2>2, <2>3
    <2> QED BY <2>2, <2>3, <2>4 DEF d
<1> QED BY <1>1, <1>2

(* A number in front of something else: nothing where it is zero *)
WidthOf(p) == IF p.width = 0 THEN <<>> ELSE Decimal(p.width)

FracOf(p) == IF p.frac = 0 THEN <<>> ELSE <<Dot>> \o Decimal(p.frac)

(* What a piece is written as is a text, and not the empty one. *)
LEMMA SourceIsText ==
    ASSUME NEW p, IsPiece(p)
    PROVE  /\ Source(p) \in Seq(Nat) /\ Len(Source(p)) \in Nat \ {0}
           /\ p.kind = "field" => WidthOf(p) \in Seq(Nat) /\ FracOf(p) \in Seq(Nat) /\ p.flags \in Seq(Nat)
<1>1. CASE p.kind = "char" /\ p.code \in Nat
    <2>1. Source(p) = <<p.code>>
        BY <1>1 DEF Source
    <2> QED BY <1>1, <2>1
<1>2. CASE p.kind = "field"
    <2>1. p.flags \in Seq({Zero, Dash}) /\ p.width \in 0 .. 99 /\ p.frac \in 0 .. 99 /\ p.type \in Nat
        BY <1>2 DEF IsPiece
    <2>2. p.flags \in Seq(Nat)
        <3>1. {Zero, Dash} \subseteq Nat
            BY DEF Zero, Dash
        <3> QED BY <2>1, <3>1, SeqDef, LenProperties
    <2>3. WidthOf(p) \in Seq(Nat)
        <3>1. CASE p.width = 0
            BY <3>1 DEF WidthOf
        <3>2. CASE p.width # 0
            <4>1. p.width \in 1 .. 99
                BY <2>1, <3>2
            <4> QED BY <3>2, <4>1, DecimalIs DEF WidthOf
        <3> QED BY <3>1, <3>2
    <2>4. FracOf(p) \in Seq(Nat)
        <3>1. CASE p.frac = 0
            BY <3>1 DEF FracOf
        <3>2. CASE p.frac # 0
            <4>1. p.frac \in 1 .. 99
                BY <2>1, <3>2
            <4>2. Decimal(p.frac) \in Seq(Nat)
                BY <4>1, DecimalIs
            <4>3. <<Dot>> \in Seq(Nat)
                BY DEF Dot
            <4> QED BY <3>2, <4>2, <4>3, JoinedText DEF FracOf
        <3> QED BY <3>1, <3>2
    <2> DEFINE a == <<Percent>>
               b == a \o p.flags
               c == b \o WidthOf(p)
               d == c \o FracOf(p)
               e == d \o <<p.type>>
    <2>5. Source(p) = e
        BY <1>2 DEF Source, WidthOf, FracOf
    <2>6. a \in Seq(Nat) /\ Len(a) = 1 /\ <<p.type>> \in Seq(Nat) /\ Len(<<p.type>>) = 1
        BY <2>1 DEF Percent
    <2> HIDE DEF a
    <2>7. b \in Seq(Nat) /\ Len(b) = 1 + Len(p.flags)
        BY <2>2, <2>6, JoinedText
    <2> HIDE DEF b
    <2>8. c \in Seq(Nat) /\ Len(c) = Len(b) + Len(WidthOf(p))
        BY <2>3, <2>7, JoinedText
    <2> HIDE DEF c
    <2>9. d \in Seq(Nat) /\ Len(d) = Len(c) + Len(FracOf(p))
        BY <2>4, <2>8, JoinedText
    <2> HIDE DEF d
    <2>10. e \in Seq(Nat) /\ Len(e) = Len(d) + 1
        BY <2>6, <2>9, JoinedText
    <2> HIDE DEF e
    <2>11. Len(d) \in Nat
        BY <2>9, LenProperties
    <2> QED BY <1>2, <2>2, <2>3, <2>4, <2>5, <2>10, <2>11
<1> QED BY <1>1, <1>2 DEF IsPiece

(* The pieces of a format, written *)
Sources(ps) == [i \in 1 .. Len(ps) |-> Source(ps[i])]

(* A format is a text *)
LEMMA SourcesAre ==
    ASSUME NEW ps \in Formats
    PROVE  /\ Len(ps) \in Nat /\ DOMAIN ps = 1 .. Len(ps) /\ \A i \in 1 .. Len(ps) : IsPiece(ps[i])
           /\ Sources(ps) \in [1 .. Len(ps) -> Seq(Nat)]
           /\ \A i \in 1 .. Len(ps) : Sources(ps)[i] = Source(ps[i]) /\ Len(Source(ps[i])) \in Nat \ {0}
           /\ FlattenSeq([i \in DOMAIN ps |-> Source(ps[i])]) = UpTo(Sources(ps), Len(ps))
           /\ UpTo(Sources(ps), Len(ps)) \in Seq(Nat)
<1>1. Len(ps) \in Nat /\ DOMAIN ps = 1 .. Len(ps) /\ \A i \in 1 .. Len(ps) : IsPiece(ps[i])
    BY StringAssumption
<1>2. \A i \in 1 .. Len(ps) : Source(ps[i]) \in Seq(Nat) /\ Len(Source(ps[i])) \in Nat \ {0}
    BY <1>1, SourceIsText
<1>3. Sources(ps) \in [1 .. Len(ps) -> Seq(Nat)] /\ \A i \in 1 .. Len(ps) : Sources(ps)[i] = Source(ps[i])
    BY <1>2 DEF Sources
<1>4. [i \in DOMAIN ps |-> Source(ps[i])] = [i \in 1 .. Len(ps) |-> Sources(ps)[i]]
    BY <1>1, <1>3
<1>5. UpTo(Sources(ps), Len(ps)) \in Seq(Nat)
    <2>1. Len(ps) \in 0 .. Len(ps)
        BY <1>1
    <2> QED BY <1>1, <1>3, <2>1, UpToGrows
<1> QED BY <1>1, <1>2, <1>3, <1>4, <1>5 DEF UpTo

-----------------------------------------------------------------------------
(* The invariant *)

TextsTyped ==
    /\ IsText(src) /\ at \in Nat \ {0} /\ IsSeq(out) /\ cap \in Nat /\ used \in Nat
    /\ Len(args) \in Nat
    /\ \A i \in 1 .. Len(args) : IsText(args[i].text) /\ IsText(ReprOf(args[i]))

(* What has been written fits, and so does a format with what is to come. *)
Reckoned ==
    /\ task \in {"repr", "format"}
    /\ task = "repr" /\ status = "busy" => Len(out) <= cap
    /\ task = "repr" /\ status = "done" => Len(out) <= cap + 1
    /\ task = "format" /\ status = "busy" => Len(out) + ToCome(at) <= cap
    /\ task = "format" /\ status = "done" => Len(out) <= cap

StringInv == TextsTyped /\ Reckoned

(* The buffers are large enough to begin with. *)
LEMMA BeginsReckoned == StringInit => StringInv
<1>1. ASSUME NEW s \in Texts, ReprInit(s) PROVE StringInv
    <2>1. IsText(src) /\ Len(src) \in Nat
        BY <1>1, StringAssumption, LenProperties DEF ReprInit, IsText
    <2>2. IsSeq(out) /\ Len(out) = 1
        BY <1>1, Short DEF ReprInit
    <2>3. Len(args) = 0
        BY <1>1 DEF ReprInit
    <2> QED BY <1>1, <2>1, <2>2, <2>3 DEF ReprInit, StringInv, TextsTyped, Reckoned
<1>2. ASSUME NEW ps \in Formats, NEW as \in Argses, FormatInit(ps, as) PROVE StringInv
    <2>1. IsText(src) /\ Len(src) \in Nat
        <3>1. src \in Seq(Nat)
            BY <1>2, SourcesAre DEF FormatInit
        <3> QED BY <3>1, LenProperties DEF IsText
    <2>2. IsSeq(out) /\ Len(out) = 0
        BY <1>2, Short DEF FormatInit
    <2>3. Len(args) \in Nat /\ \A i \in 1 .. Len(args) : IsText(args[i].text) /\ IsText(ReprOf(args[i]))
        BY <1>2, StringAssumption DEF FormatInit
    <2>4. ToCome(at) <= cap
        <3>1. at = 1 /\ cap = Len(src)
            BY <1>2 DEF FormatInit
        <3> QED BY <2>1, <3>1 DEF ToCome
    <2>5. TextsTyped
        <3>1. at = 1 /\ cap = Len(src) /\ used = 0
            BY <1>2 DEF FormatInit
        <3> QED BY <2>1, <2>2, <2>3, <3>1 DEF TextsTyped
    <2>6. ToCome(at) \in Nat
        BY <2>1, <2>5 DEF ToCome, TextsTyped
    <2>7. Reckoned
        BY <1>2, <2>2, <2>4, <2>6 DEF FormatInit, Reckoned
    <2> QED BY <2>5, <2>7 DEF StringInv
<1> QED BY <1>1, <1>2 DEF StringInit

(* Each step writes no more than was reckoned. *)
LEMMA StaysReckoned == StringInv /\ [StringNext]_svars => StringInv'
<1> SUFFICES ASSUME StringInv, [StringNext]_svars PROVE StringInv'
    OBVIOUS
<1>0. /\ IsText(src) /\ Len(src) \in Nat /\ at \in Nat \ {0} /\ IsSeq(out) /\ Len(out) \in Nat
      /\ cap \in Nat /\ used \in Nat /\ Len(args) \in Nat /\ ToCome(at) \in Nat
      /\ \A i \in 1 .. Len(args) : IsText(args[i].text) /\ IsText(ReprOf(args[i]))
    BY LenProperties DEF StringInv, TextsTyped, IsText, IsSeq, ToCome
<1>1. CASE ReprChar
    <2>1. IsSeq(Escaped(src[at])) /\ Len(Escaped(src[at])) <= 4 /\ Len(Escaped(src[at])) \in Nat
        BY EscapedFits
    <2>2. IsSeq(out') /\ Len(out') = Len(out) + Len(Escaped(src[at]))
        BY <1>0, <1>1, <2>1, Joined DEF ReprChar
    <2>3. cap' \in Nat /\ Len(out) + 4 <= cap'
        BY <1>0, <1>1 DEF ReprChar, Grows, StringInv, Reckoned
    <2>4. TextsTyped'
        BY <1>0, <1>1, <2>2, <2>3 DEF ReprChar, TextsTyped
    <2>5. Reckoned'
        BY <1>0, <1>1, <2>1, <2>2, <2>3 DEF ReprChar, Reckoned
    <2> QED BY <2>4, <2>5 DEF StringInv
<1>2. CASE ReprEnd
    <2>1. IsSeq(out') /\ Len(out') = Len(out) + 1
        <3> DEFINE S == Range(out) \cup {Quote}
        <3>1. out \in Seq(S)
            BY <1>0, SeqDef, LenProperties DEF IsSeq
        <3>2. out' \in Seq(S) /\ Len(out') = Len(out) + 1
            BY <1>2, <3>1, AppendProperties DEF ReprEnd
        <3> QED BY <3>2, SeqIsSeq
    <2>2. TextsTyped'
        BY <1>0, <1>2, <2>1 DEF ReprEnd, TextsTyped
    <2>3. Reckoned'
        BY <1>0, <1>2, <2>1 DEF ReprEnd, Reckoned, StringInv
    <2> QED BY <2>2, <2>3 DEF StringInv
<1>3. CASE FormatChar
    <2> DEFINE here == IF src[at] = Backslash THEN FormatEscape(at + 1) ELSE Read(<<src[at]>>, at + 1)
    <2>1. CASE here = Bad
        <3>1. status' = "undefined" /\ UNCHANGED <<at, out, task, src, cap, pieces, args, used>>
            BY <1>3, <2>1 DEF FormatChar
        <3> QED BY <1>0, <3>1 DEF StringInv, TextsTyped, Reckoned
    <2>2. CASE here # Bad
        <3>1. /\ out' = out \o here.codes /\ at' = here.next
              /\ UNCHANGED <<task, src, cap, pieces, args, used, status>>
              /\ task = "format" /\ status = "busy" /\ at <= Len(src)
            BY <1>3, <2>2 DEF FormatChar, InFormat
        <3>2. IsSeq(here.codes) /\ here.next \in Nat \ {0} /\ Len(here.codes) + ToCome(here.next) <= ToCome(at)
            <4>1. CASE src[at] = Backslash
                <5>1. at + 1 \in 2 .. Len(src) + 1 /\ at + 1 - 1 = at
                    BY <1>0, <3>1
                <5>2. FormatEscape(at + 1) # Bad
                    BY <2>2, <4>1
                <5> QED BY <5>1, <5>2, <1>0, <4>1, EscapeFits
            <4>2. CASE src[at] # Backslash
                <5>1. here.codes = <<src[at]>> /\ here.next = at + 1
                    BY <4>2 DEF Read
                <5>2. 1 + ToCome(at + 1) <= ToCome(at)
                    BY <1>0, <3>1 DEF ToCome
                <5>3. IsSeq(<<src[at]>>) /\ Len(<<src[at]>>) = 1
                    BY Short
                <5> HIDE DEF here
                <5> QED BY <5>1, <5>2, <5>3, <1>0
            <4> QED BY <4>1, <4>2
        <3> HIDE DEF here
        <3>3. IsSeq(out') /\ Len(out') = Len(out) + Len(here.codes) /\ Len(here.codes) \in Nat
            BY <1>0, <3>1, <3>2, Joined
        <3>4. ToCome(at)' = ToCome(here.next) /\ ToCome(here.next) \in Nat
            BY <1>0, <3>1, <3>2 DEF ToCome
        <3>5. TextsTyped'
            BY <1>0, <3>1, <3>2, <3>3 DEF TextsTyped
        <3>6. Reckoned'
            BY <1>0, <3>1, <3>2, <3>3, <3>4 DEF Reckoned, StringInv
        <3> QED BY <3>5, <3>6 DEF StringInv
    <2> QED BY <2>1, <2>2
<1>4. CASE Directive
    <2> DEFINE arg == args[used + 1]
    <2>1. /\ task = "format" /\ status = "busy" /\ at <= Len(src) /\ Type \in Types
          /\ used + 1 \in 1 .. Len(args) /\ used' = used + 1
          /\ UNCHANGED <<task, src, pieces, args>>
        BY <1>0, <1>4 DEF Directive, InFormat
    <2>2. CASE status' = "undefined" /\ UNCHANGED <<at, out, cap>>
        BY <1>0, <2>1, <2>2 DEF StringInv, TextsTyped, Reckoned
    <2>3. CASE \E text \in Shows(arg) :
                 LET rlen == Longer(Len(text), LimitAll)
                     padding == Padding(rlen - Len(text), IF LeftPad /\ PadWithZero THEN Zero ELSE Space)
                 IN  /\ cap' = Longer(cap, RoomFor(rlen))
                     /\ out' = out \o (IF LeftPad THEN padding \o text ELSE text \o padding)
                     /\ at' = FracEnd + 1
                     /\ UNCHANGED status
        <3>0. PICK text \in Shows(arg) :
                 LET rlen == Longer(Len(text), LimitAll)
                     padding == Padding(rlen - Len(text), IF LeftPad /\ PadWithZero THEN Zero ELSE Space)
                 IN  /\ cap' = Longer(cap, RoomFor(rlen))
                     /\ out' = out \o (IF LeftPad THEN padding \o text ELSE text \o padding)
                     /\ at' = FracEnd + 1
                     /\ UNCHANGED status
            BY <2>3
        <3> DEFINE
               rlen == Longer(Len(text), LimitAll)
               padding == Padding(rlen - Len(text), IF LeftPad /\ PadWithZero THEN Zero ELSE Space)
        <3>1. /\ cap' = Longer(cap, RoomFor(rlen))
              /\ out' = out \o (IF LeftPad THEN padding \o text ELSE text \o padding)
              /\ at' = FracEnd + 1 /\ UNCHANGED status
            BY <3>0
        <3>2. /\ FracEnd \in Nat /\ at < FracEnd /\ FracEnd <= Len(src) /\ LimitAll \in Int
            BY <1>0, <2>1, FieldLies
        <3>3. IsSeq(text) /\ Len(text) \in Nat
            <4>1. IsText(arg.text) /\ IsText(ReprOf(arg))
                BY <1>0, <2>1
            <4>3. IsSeq(text)
                BY <4>1, <1>0, <2>1, ShownIsSeq
            <4> QED BY <4>3, LenProperties DEF IsSeq
        <3>4. rlen \in Nat /\ rlen - Len(text) \in Nat
            BY <3>2, <3>3 DEF Longer
        <3>5. IsSeq(padding) /\ Len(padding) = rlen - Len(text)
            BY <3>4, PaddingIsSeq
        <3> HIDE DEF rlen, padding
        <3>6. IsSeq(out') /\ Len(out') = Len(out) + rlen
            <4>1. /\ IsSeq(padding \o text) /\ Len(padding \o text) = rlen
                  /\ IsSeq(text \o padding) /\ Len(text \o padding) = rlen
                BY <3>3, <3>4, <3>5, Joined
            <4>2. CASE LeftPad
                BY <3>1, <4>1, <4>2, <1>0, Joined
            <4>3. CASE ~LeftPad
                BY <3>1, <4>1, <4>3, <1>0, Joined
            <4> QED BY <4>2, <4>3
        <3>7. cap' \in Nat /\ cap' >= Len(out) + (Len(src) - FracEnd) + rlen
            BY <1>0, <3>1, <3>2, <3>4 DEF Longer, RoomFor
        <3>8. ToCome(at)' = Len(src) - FracEnd
            BY <1>0, <2>1, <3>1, <3>2 DEF ToCome
        <3>9. TextsTyped'
            BY <1>0, <2>1, <3>1, <3>2, <3>6, <3>7 DEF TextsTyped
        <3>10. Reckoned'
            BY <1>0, <2>1, <3>1, <3>2, <3>4, <3>6, <3>7, <3>8 DEF Reckoned
        <3> QED BY <3>9, <3>10 DEF StringInv
    <2>4. \/ status' = "undefined" /\ UNCHANGED <<at, out, cap>>
          \/ \E text \in Shows(arg) :
                LET rlen == Longer(Len(text), LimitAll)
                    padding == Padding(rlen - Len(text), IF LeftPad /\ PadWithZero THEN Zero ELSE Space)
                IN  /\ cap' = Longer(cap, RoomFor(rlen))
                    /\ out' = out \o (IF LeftPad THEN padding \o text ELSE text \o padding)
                    /\ at' = FracEnd + 1
                    /\ UNCHANGED status
        BY <1>4 DEF Directive
    <2> QED BY <2>2, <2>3, <2>4
<1>5. CASE Unset
    BY <1>0, <1>5 DEF Unset, StringInv, TextsTyped, Reckoned
<1>6. CASE Refused
    BY <1>0, <1>6 DEF Refused, StringInv, TextsTyped, Reckoned
<1>7. CASE FormatEnd
    <2>1. ToCome(at) = 0
        BY <1>0, <1>7 DEF FormatEnd, ToCome
    <2> QED BY <1>0, <1>7, <2>1 DEF FormatEnd, StringInv, TextsTyped, Reckoned
<1>8. CASE UNCHANGED svars
    <2>1. TextsTyped'
        BY <1>0, <1>8 DEF svars, TextsTyped
    <2>2. ToCome(at)' = ToCome(at)
        BY <1>8 DEF svars, ToCome
    <2>3. Reckoned'
        BY <1>8, <2>2 DEF svars, Reckoned, StringInv
    <2> QED BY <2>1, <2>3 DEF StringInv
<1> QED BY <1>1, <1>2, <1>3, <1>4, <1>5, <1>6, <1>7, <1>8 DEF StringNext

(* The invariant holds of every text, format and list of arguments         *)
(* (pylt_obj_str_to_repr, pylt_obj_str_mod).                               *)
THEOREM Invariance == StringSpec => []StringInv
BY BeginsReckoned, StaysReckoned, PTL DEF StringSpec

(* Nothing is written beyond the buffer, but for the closing quote of repr *)
(* that may lie one beyond (string.c:440 and 486).                         *)
THEOREM WritesInside == StringSpec => []WritersFit
<1>1. StringInv => WritersFit
    <2> SUFFICES ASSUME StringInv PROVE WritersFit
        OBVIOUS
    <2>1. Len(src) \in Nat /\ at \in Nat /\ Len(out) \in Nat /\ cap \in Nat
        BY LenProperties DEF StringInv, TextsTyped, IsText, IsSeq
    <2>2. ToCome(at) \in Nat
        BY <2>1 DEF ToCome
    <2> QED BY <2>1, <2>2 DEF StringInv, Reckoned, WritersFit
<1> QED BY <1>1, Invariance, PTL

-----------------------------------------------------------------------------
(* Searches *)

(* The least of a set, moved by some number *)
LEMMA LeastMoved ==
    ASSUME NEW w \in Int, NEW S \in SUBSET Nat, S # {}, NEW T, \A i \in Int : i \in T <=> i - w \in S, T \subseteq Int
    PROVE  T # {} /\ Least(T) = w + Least(S)
<1> DEFINE a == Least(S)
           b == Least(T)
<1>1. PICK i \in S : \A j \in S : i <= j
    BY LeastOf
<1>2. a \in S /\ \A j \in S : a <= j
    BY <1>1 DEF Least
<1> HIDE DEF a
<1>3. a \in Int /\ S \subseteq Int
    BY <1>2
<1>4. w + a \in T /\ \A j \in T : w + a <= j
    <2>1. w + a \in Int /\ (w + a) - w = a
        BY <1>3
    <2>2. w + a \in T
        BY <1>2, <2>1
    <2>3. ASSUME NEW j \in T PROVE w + a <= j
        <3>1. j \in Int /\ j - w \in S
            OBVIOUS
        <3>2. a <= j - w
            BY <1>2, <3>1
        <3> QED BY <1>3, <3>1, <3>2
    <2> QED BY <2>2, <2>3
<1>5. b \in T /\ \A j \in T : b <= j
    <2> DEFINE m == w + a
    <2>1. m \in T /\ \A j \in T : m <= j
        BY <1>4
    <2> HIDE DEF m
    <2> QED BY <2>1 DEF Least
<1> HIDE DEF b
<1>6. w + a \in Int /\ b \in Int
    BY <1>3, <1>5
<1>7. w + a <= b /\ b <= w + a
    BY <1>4, <1>5
<1>8. b = w + a
    BY <1>6, <1>7
<1> QED BY <1>5, <1>8 DEF a, b

(* sub stands i places after w, in the part of s up to v *)
PartIs(s, w, v, sub, i) ==
    LET part == SubSeq(s, w + 1, v)
    IN  i \in 0 .. Len(part) /\ i + Len(sub) <= Len(part) /\ SubSeq(part, i + 1, i + Len(sub)) = sub

CodesAre(s, w, v, sub, i) ==
    w + i + Len(sub) <= v /\ \A k \in 0 .. Len(sub) - 1 : Code(s, w + i + k) = Code(sub, k)

(* A part of a part is that text if the codes are those of the text. *)
LEMMA PartAt ==
    ASSUME NEW s, IsText(s), NEW sub, IsText(sub), sub # <<>>,
           NEW w \in 0 .. Len(s), NEW v \in 0 .. Len(s), NEW i \in Nat
    PROVE  PartIs(s, w, v, sub, i) <=> CodesAre(s, w, v, sub, i)
<1> DEFINE part == SubSeq(s, w + 1, v)
           n == Len(s)
           m == Len(sub)
           Lies == w + i + m <= v
<1>1. n \in Nat /\ m \in Nat /\ m >= 1 /\ \A k \in 1 .. n : s[k] \in Nat
    BY LenProperties, EmptySeq, ElementOfSeq DEF IsText
<1>2. \A k \in 1 .. m : sub[k] \in Nat
    BY ElementOfSeq DEF IsText
<1>3. /\ part \in Seq(Nat) /\ Len(part) = (IF w + 1 <= v THEN v - w ELSE 0)
      /\ \A k \in 1 .. Len(part) : part[k] = s[w + k]
    <2>1. w + 1 \in Int /\ v \in Int /\ \A k \in w + 1 .. v : s[k] \in Nat
        BY <1>1
    <2>2. part \in Seq(Nat) /\ Len(part) = (IF w + 1 <= v THEN v - (w + 1) + 1 ELSE 0)
          /\ \A k \in 1 .. v - (w + 1) + 1 : part[k] = s[(w + 1) + k - 1]
        BY <2>1, SubSeqProperties
    <2> HIDE DEF part
    <2>3. Len(part) = (IF w + 1 <= v THEN v - w ELSE 0)
        BY <1>1, <2>2
    <2>4. ASSUME NEW k \in 1 .. Len(part) PROVE part[k] = s[w + k]
        <3>1. k \in 1 .. v - (w + 1) + 1 /\ (w + 1) + k - 1 = w + k
            BY <1>1, <2>3
        <3> QED BY <2>2, <3>1
    <2> QED BY <2>2, <2>3, <2>4
<1> HIDE DEF part
<1>4. (i \in 0 .. Len(part) /\ i + m <= Len(part)) <=> Lies
    BY <1>1, <1>3
<1>5. ASSUME Lies PROVE SubSeq(part, i + 1, i + m) = sub <=> \A k \in 0 .. m - 1 : Code(s, w + i + k) = Code(sub, k)
    <2> DEFINE q == SubSeq(part, i + 1, i + m)
    <2>1. Len(part) \in Nat /\ i + m <= Len(part) /\ Len(part) = v - w
        BY <1>1, <1>3, <1>5
    <2>2. \A k \in i + 1 .. i + m : part[k] \in Nat
        BY <1>1, <1>3, <2>1, ElementOfSeq
    <2>3. q \in Seq(Nat) /\ Len(q) = m /\ \A k \in 1 .. m : q[k] = part[i + k]
        <3>1. i + 1 \in Int /\ i + m \in Int /\ i + 1 <= i + m /\ (i + m) - (i + 1) + 1 = m
            BY <1>1
        <3>2. q \in Seq(Nat) /\ Len(q) = m /\ \A k \in 1 .. m : q[k] = part[(i + 1) + k - 1]
            BY <2>2, <3>1, SubSeqProperties
        <3>3. \A k \in 1 .. m : (i + 1) + k - 1 = i + k
            BY <1>1
        <3> HIDE DEF q
        <3> QED BY <3>2, <3>3
    <2> HIDE DEF q
    <2>4. ASSUME NEW k \in 1 .. m PROVE q[k] = Code(s, w + i + (k - 1)) /\ sub[k] = Code(sub, k - 1)
        <3>1. i + k \in 1 .. Len(part) /\ w + (i + k) = (w + i + (k - 1)) + 1 /\ w + i + (k - 1) < n
            BY <1>1, <1>5, <2>1
        <3>2. q[k] = s[(w + i + (k - 1)) + 1]
            BY <1>3, <2>3, <3>1
        <3>3. k - 1 < m /\ (k - 1) + 1 = k
            BY <1>1
        <3> QED BY <3>1, <3>2, <3>3 DEF Code
    <2>5. ASSUME q = sub, NEW k \in 0 .. m - 1 PROVE Code(s, w + i + k) = Code(sub, k)
        <3>1. k + 1 \in 1 .. m /\ (k + 1) - 1 = k
            BY <1>1
        <3> QED BY <2>4, <2>5, <3>1
    <2>6. ASSUME \A k \in 0 .. m - 1 : Code(s, w + i + k) = Code(sub, k) PROVE q = sub
        <3>1. ASSUME NEW k \in 1 .. m PROVE q[k] = sub[k]
            <4>1. k - 1 \in 0 .. m - 1
                BY <1>1
            <4> QED BY <2>4, <2>6, <4>1
        <3>2. sub \in Seq(Nat)
            BY DEF IsText
        <3> QED BY <2>3, <3>1, <3>2, SeqEqual
    <2> QED BY <2>5, <2>6 DEF q
<1> QED BY <1>4, <1>5 DEF part, PartIs, CodesAre

(* What SearchRight compares *)
Finds(s, sub, start, end, part, hits, found) ==
    /\ part = SubSeq(s, Within(start, Len(s)) + 1, Within(end, Len(s)))
    /\ hits = {i \in 0 .. Len(part) : i + Len(sub) <= Len(part) /\ SubSeq(part, i + 1, i + Len(sub)) = sub}
    /\ found = Index(s, sub, start, end)

(* One search finds the first place of what is searched for. *)
LEMMA OneSearch ==
    ASSUME NEW s, IsText(s), NEW sub \in Subs, NEW start \in Indices, NEW end \in Indices, sub # <<>>,
           NEW part, NEW hits, NEW found, Finds(s, sub, start, end, part, hits, found)
    PROVE  /\ IF hits = {} THEN found < 0 ELSE found = Within(start, Len(s)) + Least(hits)
           /\ StartsWith(s, sub, start, end) <=> 0 \in hits
<1> DEFINE n == Len(s)
           m == Len(sub)
           w == Within(start, n)
           v == Within(end, n)
<1>1. n \in Nat
    BY LenProperties DEF IsText
<1>2. /\ part = SubSeq(s, w + 1, v) /\ found = Index(s, sub, start, end)
      /\ hits = {i \in 0 .. Len(part) : i + m <= Len(part) /\ SubSeq(part, i + 1, i + m) = sub}
    BY DEF Finds
<1> DEFINE Hit(i) == w + i + m <= v /\ \A k \in 0 .. m - 1 : Code(s, w + i + k) = Code(sub, k)
           from == Longer(0, FromEnd(start, n))
           to == IF FromEnd(end, n) > n THEN n ELSE FromEnd(end, n)
           places == {i \in from .. to - 1 : MatchesAt(s, sub, i, to)}
<1>3. IsText(sub) /\ start \in Int /\ end \in Int /\ m \in Nat /\ m >= 1
    <2>1. IsText(sub) /\ start \in Int /\ end \in Int
        BY StringAssumption
    <2> QED BY <2>1, LenProperties, EmptySeq DEF IsText
<1>4. w \in 0 .. n /\ v \in 0 .. n
    BY <1>1, <1>3 DEF Within, FromEnd
<1>5. ASSUME NEW i \in Nat PROVE i \in hits <=> Hit(i)
    <2>1. (i \in 0 .. Len(part) /\ i + m <= Len(part) /\ SubSeq(part, i + 1, i + m) = sub) <=> Hit(i)
        <3>1. IsText(s) /\ IsText(sub) /\ sub # <<>> /\ w \in 0 .. Len(s) /\ v \in 0 .. Len(s) /\ i \in Nat
            BY <1>3, <1>4
        <3>2. PartIs(s, w, v, sub, i) <=> CodesAre(s, w, v, sub, i)
            BY ONLY <3>1, PartAt, Zenon
        <3> QED BY <3>2, <1>2 DEF PartIs, CodesAre
    <2> QED BY <2>1, <1>2
<1>6. hits \in SUBSET Nat
    BY <1>2
<1>7. /\ from \in Int /\ to \in Int
      /\ from >= n => w = n
      /\ from < n => from = w
      /\ to > from => to = v
      /\ from < n /\ to <= from => v <= w
    BY <1>1, <1>3 DEF Longer, Within, FromEnd
<1>8. found = IF from >= n \/ to <= from THEN -2 ELSE IF places = {} THEN -1 ELSE Least(places)
    BY <1>2 DEF Index
<1> HIDE DEF from, to, n, w, v, m
<1>9. ASSUME from >= n \/ to <= from PROVE hits = {}
    <2>1. v <= w
        BY <1>1, <1>4, <1>7, <1>9
    <2>2. ASSUME NEW i \in hits PROVE FALSE
        <3>1. i \in Nat /\ Hit(i)
            BY <1>5, <1>6
        <3> QED BY <1>3, <1>4, <2>1, <3>1
    <2> QED BY <2>2
<1>10. ASSUME ~(from >= n \/ to <= from) PROVE places \subseteq Int /\ \A i \in Int : i \in places <=> i - w \in hits
    <2>1. from = w /\ to = v /\ w < n
        BY ONLY <1>1, <1>4, <1>7, <1>10
    <2>2. ASSUME NEW i \in Int, i \in places PROVE i - w \in hits
        <3>1. i \in w .. v - 1 /\ MatchesAt(s, sub, i, v)
            BY <2>1, <2>2
        <3>2. i - w \in Nat /\ w + (i - w) = i /\ i + m <= v
            BY <1>3, <1>4, <3>1 DEF MatchesAt, m
        <3>3. ASSUME NEW k \in 0 .. m - 1 PROVE Code(s, i + k) = Code(sub, k)
            <4>1. CASE k = 0
                <5>1. i + 0 = i
                    OBVIOUS
                <5> QED BY <3>1, <4>1, <5>1 DEF MatchesAt, m
            <4>2. CASE k # 0
                <5>1. k \in 1 .. Len(sub) - 1
                    BY <1>3, <4>2 DEF m
                <5> QED BY <3>1, <5>1 DEF MatchesAt, m
            <4> QED BY <4>1, <4>2
        <3>4. Hit(i - w)
            BY <3>2, <3>3
        <3> HIDE DEF Hit
        <3> QED BY <1>5, <3>2, <3>4
    <2>3. ASSUME NEW i \in Int, i - w \in hits PROVE i \in places
        <3>1. i - w \in Nat /\ w + (i - w) = i
            BY <1>4, <1>6, <2>3
        <3>2. Hit(i - w)
            BY <1>5, <2>3, <3>1
        <3>3. i + m <= v /\ \A k \in 0 .. m - 1 : Code(s, i + k) = Code(sub, k)
            BY <3>1, <3>2
        <3>4. i \in w .. v - 1
            <4>1. i \in Int /\ i - w \in Nat /\ m \in Nat /\ m >= 1 /\ i + m <= v /\ w \in Int /\ v \in Int
                BY <1>3, <1>4, <3>1, <3>3
            <4> QED BY ONLY <4>1
        <3>5. MatchesAt(s, sub, i, v)
            <4>1. Code(s, i) = Code(sub, 0)
                <5>1. 0 \in 0 .. m - 1 /\ i + 0 = i
                    BY <1>3
                <5> QED BY <3>3, <5>1
            <4>2. \A k \in 1 .. m - 1 : Code(s, i + k) = Code(sub, k)
                BY <1>3, <3>3
            <4> QED BY <1>3, <3>3, <4>1, <4>2 DEF MatchesAt, m
        <3> QED BY <2>1, <3>4, <3>5
    <2>4. places \subseteq Int
        BY <1>7
    <2> HIDE DEF places
    <2> QED BY <2>2, <2>3, <2>4
<1>11. IF hits = {} THEN found < 0 ELSE found = w + Least(hits)
    <2>1. CASE from >= n \/ to <= from
        <3>1. hits = {} /\ found = -2
            BY <1>8, <1>9, <2>1
        <3> QED BY ONLY <3>1
    <2>2. CASE ~(from >= n \/ to <= from) /\ hits = {}
        <3>0. \A i \in Int : i \in places <=> i - w \in hits
            BY <1>10, <2>2
        <3>1. places = {}
            <4> HIDE DEF places
            <4>1. places \subseteq Int
                BY <1>10, <2>2
            <4> QED BY ONLY <3>0, <2>2, <4>1
        <3>2. found = -1
            BY <1>8, <2>2, <3>1
        <3> QED BY ONLY <2>2, <3>2
    <2>3. CASE ~(from >= n \/ to <= from) /\ hits # {}
        <3> HIDE DEF places
        <3>0. w \in Int /\ hits \in SUBSET Nat /\ hits # {} /\ places \subseteq Int
              /\ \A i \in Int : i \in places <=> i - w \in hits
            <4>1. w \in Int
                BY <1>4
            <4> QED BY ONLY <4>1, <1>6, <1>10, <2>3
        <3>1. places # {} /\ Least(places) = w + Least(hits)
            BY ONLY <3>0, LeastMoved, Zenon
        <3>2. found = Least(places)
            BY <1>8, <2>3, <3>1
        <3> QED BY ONLY <2>3, <3>1, <3>2
    <2> QED BY ONLY <2>1, <2>2, <2>3
<1>12. StartsWith(s, sub, start, end) <=> 0 \in hits
    <2>1. 0 \in hits <=> Hit(0)
        BY <1>5
    <2>2. StartsWith(s, sub, start, end) <=> v - w >= m /\ \A i \in 1 .. m : Code(s, w + i - 1) = sub[i]
        BY DEF StartsWith, n, w, v, m
    <2>3. ASSUME NEW i \in 1 .. m PROVE Code(sub, i - 1) = sub[i] /\ i - 1 \in 0 .. m - 1 /\ w + i - 1 = w + 0 + (i - 1)
        BY <1>3, <1>4 DEF Code, m
    <2>4. ASSUME NEW k \in 0 .. m - 1 PROVE k + 1 \in 1 .. m /\ (k + 1) - 1 = k /\ w + (k + 1) - 1 = w + 0 + k
        BY <1>3, <1>4
    <2>5. (\A i \in 1 .. m : Code(s, w + i - 1) = sub[i]) <=> \A k \in 0 .. m - 1 : Code(s, w + 0 + k) = Code(sub, k)
        <3>1. ASSUME \A i \in 1 .. m : Code(s, w + i - 1) = sub[i], NEW k \in 0 .. m - 1
              PROVE  Code(s, w + 0 + k) = Code(sub, k)
            <4>1. Code(s, w + (k + 1) - 1) = sub[k + 1] /\ Code(sub, (k + 1) - 1) = sub[k + 1]
                BY <2>3, <2>4, <3>1
            <4> QED BY <2>4, <4>1
        <3>2. ASSUME \A k \in 0 .. m - 1 : Code(s, w + 0 + k) = Code(sub, k), NEW i \in 1 .. m
              PROVE  Code(s, w + i - 1) = sub[i]
            <4>1. Code(s, w + 0 + (i - 1)) = Code(sub, i - 1)
                BY <2>3, <3>2
            <4> QED BY <2>3, <4>1
        <3> QED BY <3>1, <3>2
    <2>6. v - w >= m <=> w + 0 + m <= v
        BY <1>3, <1>4
    <2> QED BY <2>1, <2>2, <2>5, <2>6
<1> QED BY <1>11, <1>12 DEF w, n

(* A search finds the first place of what is searched for (string.c:209). *)
LEMMA SearchIsRight ==
    ASSUME NEW s, IsText(s)
    PROVE  SearchRight(s)
<1>1. SUFFICES ASSUME NEW sub \in Subs, NEW start \in Indices, NEW end \in Indices
      PROVE  LET part == Part(s, start, end)
                 hits == {i \in 0 .. Len(part) : i + Len(sub) <= Len(part) /\ SubSeq(part, i + 1, i + Len(sub)) = sub}
                 found == Index(s, sub, start, end)
             IN  /\ sub # <<>> => IF hits = {} THEN found < 0 ELSE found = Within(start, Len(s)) + Least(hits)
                 /\ sub # <<>> => StartsWith(s, sub, start, end) = (0 \in hits)
    BY DEF SearchRight
<1> DEFINE part == Part(s, start, end)
           hits == {i \in 0 .. Len(part) : i + Len(sub) <= Len(part) /\ SubSeq(part, i + 1, i + Len(sub)) = sub}
           found == Index(s, sub, start, end)
<1>2. ASSUME sub # <<>>
      PROVE  /\ IF hits = {} THEN found < 0 ELSE found = Within(start, Len(s)) + Least(hits)
             /\ StartsWith(s, sub, start, end) <=> 0 \in hits
    <2>1. Finds(s, sub, start, end, part, hits, found)
        BY DEF Finds, Part
    <2> HIDE DEF part, hits, found
    <2> QED BY ONLY <1>2, <2>1, OneSearch, IsText(s), sub \in Subs, start \in Indices, end \in Indices, Zenon
<1>3. StartsWith(s, sub, start, end) \in BOOLEAN
    BY DEF StartsWith
<1> HIDE DEF hits, found
<1>4. /\ sub # <<>> => IF hits = {} THEN found < 0 ELSE found = Within(start, Len(s)) + Least(hits)
      /\ sub # <<>> => StartsWith(s, sub, start, end) = (0 \in hits)
    BY ONLY <1>2, <1>3
<1> QED BY <1>4 DEF hits, found

-----------------------------------------------------------------------------
(* What repr writes reads back *)

(* Where a text reads as an escape of one code *)
Here(s, i) == IF s[i] = Backslash THEN EscapeAt(s, i + 1) ELSE Read(<<s[i]>>, i + 1)

(* e reads as c alone, wherever it stands *)
ReadsAs(e, c) ==
    /\ e \in Seq(Nat) /\ Len(e) \in Nat \ {0}
    /\ \A s \in Seq(Nat), i \in Nat \ {0} : StandsAt(s, i, e) => Here(s, i) = Read(<<c>>, i + Len(e))

(* The letters of the escapes are none of the other characters that are    *)
(* escaped, and stand for one character each.                              *)
LEMMA LettersAre ==
    /\ 92 \notin Spelled /\ 39 \notin Spelled /\ 120 \notin Spelled
    /\ \A c \in DOMAIN Letters : Letters[c] \in Spelled /\ Letters[c] \in Nat /\ Letters[c] \in 97 .. 118 /\ LetterFor(Letters[c]) = c
<1>1. \A c \in DOMAIN Letters : c \in {7, 8, 9, 10, 11, 12, 13}
    BY DEF Letters
<1>2. /\ Letters[7] = 97 /\ Letters[8] = 98 /\ Letters[9] = 116 /\ Letters[10] = 110
      /\ Letters[11] = 118 /\ Letters[12] = 102 /\ Letters[13] = 114
    BY DEF Letters
<1>3. Spelled = {97, 98, 116, 110, 118, 102, 114}
    <2>1. Range(Letters) = {Letters[c] : c \in {7, 8, 9, 10, 11, 12, 13}}
        BY DEF Letters, Range
    <2> QED BY <2>1, <1>2 DEF Spelled
<1>4. ASSUME NEW c \in DOMAIN Letters PROVE LetterFor(Letters[c]) = c
    <2>1. LetterFor(Letters[c]) \in DOMAIN Letters /\ Letters[LetterFor(Letters[c])] = Letters[c]
        BY DEF LetterFor
    <2> QED BY <2>1, <1>1, <1>2
<1>5. \A c \in DOMAIN Letters : Letters[c] \in {97, 98, 116, 110, 118, 102, 114}
    BY <1>1, <1>2
<1> QED BY <1>3, <1>4, <1>5

(* A digit of repr is read as what it stands for. *)
LEMMA HexIs ==
    ASSUME NEW d \in 0 .. 15
    PROVE  Hex(d) \in Nat /\ Hex(d) \in HexDigits /\ HexValue(Hex(d)) = d
<1>1. CASE d >= 10
    <2>1. Hex(d) = d + 87 /\ d + 87 \in 97 .. 102 /\ d + 87 \notin DecDigits /\ d + 87 \notin 65 .. 70
        BY <1>1 DEF Hex, DecDigits
    <2>2. HexValue(d + 87) = (d + 87) - 97 + 10
        BY <2>1 DEF HexValue
    <2> QED BY <2>1, <2>2 DEF HexDigits
<1>2. CASE d < 10
    <2>1. Hex(d) = d + 48 /\ d + 48 \in DecDigits
        BY <1>2 DEF Hex, DecDigits
    <2>2. HexValue(d + 48) = (d + 48) - 48
        BY <2>1 DEF HexValue
    <2> QED BY <2>1, <2>2 DEF HexDigits
<1> QED BY <1>1, <1>2

(* An escape that repr writes reads as the character it stands for. *)
LEMMA EscapeReads ==
    ASSUME NEW c \in Nat
    PROVE  ReadsAs(Escaped(c), c)
<1> DEFINE e == Escaped(c)
           ReadsOn(s, i) == Here(s, i) = Read(<<c>>, i + Len(e))
<1>1. CASE c \in DOMAIN Letters
    <2>0. Letters[c] \in Spelled /\ Letters[c] \in Nat /\ LetterFor(Letters[c]) = c
        BY <1>1, LettersAre
    <2>1. e = <<92, Letters[c]>>
        BY <1>1 DEF Escaped, Backslash
    <2>2. e \in Seq(Nat) /\ Len(e) = 2 /\ e[1] = 92 /\ e[2] = Letters[c]
        BY <2>0, <2>1
    <2> HIDE DEF e
    <2>3. ASSUME NEW s \in Seq(Nat), NEW i \in Nat \ {0}, StandsAt(s, i, e) PROVE ReadsOn(s, i)
        <3>1. i + 1 <= Len(s) /\ s[i] = 92 /\ s[i + 1] = Letters[c] /\ Len(s) \in Nat
            <4>1. i + 2 - 1 <= Len(s) /\ s[i + 1 - 1] = e[1] /\ s[i + 2 - 1] = e[2]
                BY <2>2, <2>3 DEF StandsAt
            <4>2. i + 2 - 1 = i + 1 /\ i + 1 - 1 = i
                OBVIOUS
            <4> QED BY <4>1, <4>2, <2>2, LenProperties
        <3>2. EscapeAt(s, i + 1) = Read(<<c>>, (i + 1) + 1)
            <4>1. ~(i + 1 > Len(s))
                BY <3>1
            <4>2. Letters[c] \in 97 .. 118
                BY <1>1, LettersAre
            <4>b. \A x \in 97 .. 118 : x \notin {39, 34, 92} /\ x \notin 48 .. 55 /\ x # 120 /\ ~(x >= 128)
                OBVIOUS
            <4>c. s[i + 1] \in 97 .. 118 /\ s[i + 1] \in Spelled
                BY <3>1, <4>2, <2>0, Zenon
            <4>d. s[i + 1] \notin {39, 34, 92} /\ s[i + 1] \notin 48 .. 55 /\ s[i + 1] # 120 /\ ~(s[i + 1] >= 128)
                BY <4>c, <4>b, Zenon
            <4>3. s[i + 1] \in Spelled /\ s[i + 1] \notin {Quote, 34, Backslash} /\ s[i + 1] \notin OctDigits /\ s[i + 1] # Ex /\ ~(s[i + 1] >= 128)
                BY ONLY <4>c, <4>d, Zenon DEF Quote, Backslash, OctDigits, Ex
            <4>4. EscapeAt(s, i + 1) = Read(<<LetterFor(s[i + 1])>>, (i + 1) + 1)
                BY <4>1, <4>3 DEF EscapeAt
            <4> QED BY <4>4, <3>1, <2>0
        <3>3. (i + 1) + 1 = i + Len(e)
            BY <2>2
        <3> QED BY <3>1, <3>2, <3>3 DEF Here, Backslash
    <2>a. Len(e) \in Nat \ {0} /\ e \in Seq(Nat)
        BY <2>2
    <2>4. ReadsAs(e, c)
        BY <2>a, <2>3, Zenon DEF ReadsAs
    <2> QED BY <2>4 DEF e
<1>2. CASE c \notin DOMAIN Letters /\ c \in {Quote, Backslash}
    <2>1. e = <<92, c>> /\ c \notin Spelled
        BY <1>2, LettersAre DEF Escaped, Backslash, Quote
    <2>2. e \in Seq(Nat) /\ Len(e) = 2 /\ e[1] = 92 /\ e[2] = c
        BY <2>1
    <2> HIDE DEF e
    <2>3. ASSUME NEW s \in Seq(Nat), NEW i \in Nat \ {0}, StandsAt(s, i, e) PROVE ReadsOn(s, i)
        <3>1. i + 1 <= Len(s) /\ s[i] = 92 /\ s[i + 1] = c /\ Len(s) \in Nat
            <4>1. i + 2 - 1 <= Len(s) /\ s[i + 1 - 1] = e[1] /\ s[i + 2 - 1] = e[2]
                BY <2>2, <2>3 DEF StandsAt
            <4>2. i + 2 - 1 = i + 1 /\ i + 1 - 1 = i
                OBVIOUS
            <4> QED BY <4>1, <4>2, <2>2, LenProperties
        <3>2. EscapeAt(s, i + 1) = Read(<<c>>, (i + 1) + 1)
            <4>1. ~(i + 1 > Len(s)) /\ s[i + 1] \in {Quote, 34, Backslash} /\ s[i + 1] \notin OctDigits /\ s[i + 1] # Ex /\ ~(s[i + 1] >= 128)
                BY <3>1, <1>2 DEF Quote, Backslash, OctDigits, Ex
            <4> QED BY <3>1, <4>1, <2>1 DEF EscapeAt
        <3>3. (i + 1) + 1 = i + Len(e)
            BY <2>2
        <3> QED BY <3>1, <3>2, <3>3 DEF Here, Backslash
    <2>a. Len(e) \in Nat \ {0} /\ e \in Seq(Nat)
        BY <2>2
    <2>4. ReadsAs(e, c)
        BY <2>a, <2>3, Zenon DEF ReadsAs
    <2> QED BY <2>4 DEF e
<1>3. CASE c \notin DOMAIN Letters /\ c \notin {Quote, Backslash} /\ c \in Unprintable
    <2> DEFINE a == c \div 16
               b == c % 16
    <2>0. a \in 0 .. 15 /\ b \in 0 .. 15 /\ 16 * a + b = c
        <3>1. c \in 0 .. 160
            BY <1>3 DEF Unprintable
        <3> QED BY <3>1
    <2> HIDE DEF a, b
    <2>1. e = <<92, 120, Hex(a), Hex(b)>>
        BY <1>3 DEF Escaped, Backslash, Ex, a, b
    <2>h. Hex(a) \in HexDigits /\ Hex(b) \in HexDigits /\ HexValue(Hex(a)) = a /\ HexValue(Hex(b)) = b /\ Hex(a) \in Nat /\ Hex(b) \in Nat
        BY <2>0, HexIs
    <2>2. e \in Seq(Nat) /\ Len(e) = 4 /\ e[1] = 92 /\ e[2] = 120 /\ e[3] = Hex(a) /\ e[4] = Hex(b)
        BY <2>1, <2>h
    <2> HIDE DEF e
    <2>3. ASSUME NEW s \in Seq(Nat), NEW i \in Nat \ {0}, StandsAt(s, i, e) PROVE ReadsOn(s, i)
        <3>1. i + 3 <= Len(s) /\ s[i] = 92 /\ s[i + 1] = 120 /\ s[i + 2] = Hex(a) /\ s[i + 3] = Hex(b) /\ Len(s) \in Nat
            <4>1. i + 4 - 1 <= Len(s) /\ s[i + 1 - 1] = e[1] /\ s[i + 2 - 1] = e[2] /\ s[i + 3 - 1] = e[3] /\ s[i + 4 - 1] = e[4]
                BY <2>2, <2>3 DEF StandsAt
            <4>2. i + 2 - 1 = i + 1 /\ i + 1 - 1 = i /\ i + 3 - 1 = i + 2 /\ i + 4 - 1 = i + 3
                OBVIOUS
            <4> QED BY <4>1, <4>2, <2>2, LenProperties
        <3>2. EscapeAt(s, i + 1) = Read(<<c>>, (i + 1) + 3)
            <4>1. ~(i + 1 > Len(s)) /\ s[i + 1] \notin {Quote, 34, Backslash} /\ s[i + 1] \notin OctDigits /\ s[i + 1] = Ex /\ ~(s[i + 1] >= 128)
                BY <3>1 DEF Quote, Backslash, OctDigits, Ex
            <4>2. s[i + 1] \notin Spelled
                BY <3>1, LettersAre
            <4>3. TwoHex(s, (i + 1) + 1) /\ ByteAt(s, (i + 1) + 1) = c
                <5>1. (i + 1) + 1 = i + 2 /\ (i + 2) + 1 = i + 3
                    OBVIOUS
                <5>2. TwoHex(s, i + 2) /\ ByteAt(s, i + 2) = 16 * a + b
                    BY <3>1, <5>1, <2>h DEF TwoHex, ByteAt
                <5> QED BY <5>1, <5>2, <2>0
            <4> QED BY <4>1, <4>2, <4>3 DEF EscapeAt
        <3>3. (i + 1) + 3 = i + Len(e)
            BY <2>2
        <3> QED BY <3>1, <3>2, <3>3 DEF Here, Backslash
    <2>a. Len(e) \in Nat \ {0} /\ e \in Seq(Nat)
        BY <2>2
    <2>4. ReadsAs(e, c)
        BY <2>a, <2>3, Zenon DEF ReadsAs
    <2> QED BY <2>4 DEF e
<1>4. CASE c \notin DOMAIN Letters /\ c \notin {Quote, Backslash} /\ c \notin Unprintable
    <2>1. e = <<c>> /\ c # Backslash
        BY <1>4 DEF Escaped
    <2>2. e \in Seq(Nat) /\ Len(e) = 1 /\ e[1] = c
        BY <2>1
    <2> HIDE DEF e
    <2>3. ASSUME NEW s \in Seq(Nat), NEW i \in Nat \ {0}, StandsAt(s, i, e) PROVE ReadsOn(s, i)
        <3>1. s[i] = c
            <4>1. s[i + 1 - 1] = e[1] /\ i + 1 - 1 = i
                BY <2>2, <2>3 DEF StandsAt
            <4> QED BY <4>1, <2>2
        <3> QED BY <3>1, <2>1, <2>2 DEF Here
    <2>a. Len(e) \in Nat \ {0} /\ e \in Seq(Nat)
        BY <2>2
    <2>4. ReadsAs(e, c)
        BY <2>a, <2>3, Zenon DEF ReadsAs
    <2> QED BY <2>4 DEF e
<1> QED BY <1>1, <1>2, <1>3, <1>4

(* A run of octal digits ends, behind its first digit and within its text. *)
LEMMA OctStops ==
    ASSUME NEW s \in Seq(Nat), NEW i \in 1 .. Len(s), s[i] \in OctDigits
    PROVE  OctEnd(s, i) \in i + 1 .. Len(s) + 1
<1> DEFINE In(j) == j <= Len(s) /\ s[j] \in OctDigits
           Ends(j) == /\ \A k \in i .. j - 1 : In(k)
                      /\ j = i + 3 \/ j > Len(s) \/ s[j] \notin OctDigits
           e == OctEnd(s, i)
<1>1. Len(s) \in Nat /\ In(i)
    BY LenProperties
<1>2. \E j \in i .. i + 3 : Ends(j)
    <2>1. CASE ~In(i + 1)
        <3>1. Ends(i + 1)
            BY <1>1, <2>1
        <3> QED BY <3>1
    <2>2. CASE In(i + 1) /\ ~In(i + 2)
        <3>1. Ends(i + 2)
            BY <1>1, <2>2
        <3> QED BY <3>1
    <2>3. CASE In(i + 1) /\ In(i + 2)
        <3>1. Ends(i + 3)
            BY <1>1, <2>3
        <3> QED BY <3>1
    <2> QED BY <2>1, <2>2, <2>3
<1>3. e \in i .. i + 3 /\ Ends(e)
    BY <1>2 DEF OctEnd
<1> HIDE DEF e
<1>4. e # i
    BY <1>1, <1>3
<1>5. In(e - 1)
    <2>1. e - 1 \in i .. e - 1
        BY <1>3, <1>4
    <2> QED BY <1>3, <2>1
<1>6. e \in i + 1 .. Len(s) + 1
    BY <1>1, <1>3, <1>4, <1>5
<1> QED BY <1>6 DEF e

(* An escape ends within its text, or is bad. *)
LEMMA NextLies ==
    ASSUME NEW s \in Seq(Nat), NEW i \in 1 .. Len(s)
    PROVE  Here(s, i).next \in {0} \cup i + 1 .. Len(s) + 1
<1> DEFINE j == i + 1
           In(x) == x \in {0} \cup i + 1 .. Len(s) + 1
<1>1. Len(s) \in Nat /\ \A k \in 1 .. Len(s) : s[k] \in Nat
    BY LenProperties, ElementOfSeq
<1>2. \A codes, next : Read(codes, next).next = next
    BY DEF Read
<1>3. Bad.next = 0
    BY DEF Bad, Read
<1>4. CASE s[i] # Backslash
    <2>1. Here(s, i) = Read(<<s[i]>>, i + 1)
        BY <1>4 DEF Here
    <2> QED BY <1>1, <1>2, <2>1
<1>5. CASE s[i] = Backslash
    <2>1. Here(s, i) = EscapeAt(s, j)
        BY <1>5 DEF Here
    <2>2. CASE j > Len(s)
        <3>1. EscapeAt(s, j) = Bad
            BY <2>2 DEF EscapeAt
        <3> QED BY <1>3, <2>1, <3>1
    <2>3. CASE ~(j > Len(s))
        <3> DEFINE c == s[j]
        <3>1. j \in 1 .. Len(s) /\ In(j + 1)
            BY <1>1, <2>3
        <3>2. c \in OctDigits => In(OctEnd(s, j))
            <4>1. ASSUME c \in OctDigits PROVE In(OctEnd(s, j))
                <5>1. OctEnd(s, j) \in j + 1 .. Len(s) + 1
                    BY <3>1, <4>1, OctStops
                <5> QED BY <1>1, <3>1, <5>1
            <4> QED BY <4>1
        <3>3. TwoHex(s, j + 1) => In(j + 3)
            BY <1>1, <3>1 DEF TwoHex
        <3> DEFINE r == EscapeAt(s, j)
        <3>4. \/ r = Bad
              \/ \E codes : r = Read(codes, j + 1)
              \/ c \in OctDigits /\ \E codes : r = Read(codes, OctEnd(s, j))
              \/ TwoHex(s, j + 1) /\ \E codes : r = Read(codes, j + 3)
            <4>1. r = CASE c \in Spelled -> Read(<<LetterFor(c)>>, j + 1)
                        [] c \in {Quote, 34, Backslash} -> Read(<<c>>, j + 1)
                        [] c \in OctDigits -> Read(<<OctValue(s, j)>>, OctEnd(s, j))
                        [] c = Ex -> IF TwoHex(s, j + 1) THEN Read(<<ByteAt(s, j + 1)>>, j + 3) ELSE Bad
                        [] c >= 128 -> Bad
                        [] OTHER -> Read(<<Backslash, c>>, j + 1)
                BY <2>3 DEF EscapeAt
            <4> HIDE DEF r, c, j
            <4> QED BY <4>1
        <3> HIDE DEF r, In, c
        <3>5. In(r.next)
            BY <1>2, <1>3, <3>1, <3>2, <3>3, <3>4 DEF In
        <3> QED BY <2>1, <3>5 DEF In, r
    <2> QED BY <2>2, <2>3
<1> QED BY <1>4, <1>5

(* What Unescape makes of s from i on, if f is what it makes further on *)
RestOf(s, f, i) ==
    IF i = 0 THEN [ok |-> FALSE, text |-> <<>>]
    ELSE IF i > Len(s) THEN [ok |-> TRUE, text |-> <<>>]
    ELSE [ok |-> f[Here(s, i).next].ok, text |-> Here(s, i).codes \o f[Here(s, i).next].text]

(* Reading goes forwards only, so that what is read exists: it is made from *)
(* the end of the text on.                                                 *)
LEMMA RestExists ==
    ASSUME NEW s \in Seq(Nat)
    PROVE  \E f : f = [i \in 0 .. Len(s) + 1 |-> RestOf(s, f, i)]
<1> DEFINE n == Len(s)
           D(k) == {0} \cup n + 1 - k .. n + 1
           Defined(f, k) == f = [i \in D(k) |-> RestOf(s, f, i)]
           T == {k \in 0 .. n : ~\E f : Defined(f, k)}
<1>1. n \in Nat
    BY LenProperties
<1>2. 0 \notin T
    <2> DEFINE g == [i \in D(0) |-> RestOf(s, s, i)]
    <2>1. ASSUME NEW i \in D(0) PROVE RestOf(s, s, i) = RestOf(s, g, i)
        <3>1. i = 0 \/ i > Len(s)
            BY <1>1
        <3> QED BY <3>1 DEF RestOf
    <2>2. g = [i \in D(0) |-> RestOf(s, g, i)]
        <3> HIDE DEF D
        <3>1. [i \in D(0) |-> RestOf(s, s, i)] = [i \in D(0) |-> RestOf(s, g, i)]
            <4> DEFINE a(i) == RestOf(s, s, i)
                       b(i) == RestOf(s, g, i)
            <4>1. \A i \in D(0) : a(i) = b(i)
                BY <2>1
            <4> HIDE DEF a, b
            <4>2. [i \in D(0) |-> a(i)] = [i \in D(0) |-> b(i)]
                BY <4>1
            <4> QED BY <4>2 DEF a, b
        <3> QED BY <3>1
    <2>3. Defined(g, 0)
        BY <2>2
    <2> HIDE DEF Defined, g
    <2> QED BY <2>3
<1>3. ASSUME NEW k \in 1 .. n, k - 1 \notin T PROVE k \notin T
    <2> DEFINE m == n + 1 - k
    <2>1. PICK f : Defined(f, k - 1)
        <3> HIDE DEF Defined
        <3>1. k - 1 \in 0 .. n
            BY <1>1
        <3> QED BY <1>3, <3>1
    <2> DEFINE h == [i \in D(k) |-> IF i = m THEN RestOf(s, f, m) ELSE f[i]]
    <2>2. m \in 1 .. n
        BY <1>1
    <2>3. D(k) = D(k - 1) \cup {m} /\ m \notin D(k - 1)
        BY <1>1, <2>2
    <2>4. \A x \in D(k - 1) : h[x] = f[x]
        BY <2>3
    <2>5. h[m] = RestOf(s, f, m)
        BY <2>3
    <2>6. \A x \in D(k - 1) : f[x] = RestOf(s, f, x)
        <3> HIDE DEF D
        <3>1. \A g : Defined(g, k - 1) => \A x \in D(k - 1) : g[x] = RestOf(s, g, x)
            <4> TAKE g
            <4> DEFINE a(i) == RestOf(s, g, i)
            <4>1. g = [i \in D(k - 1) |-> a(i)] => \A x \in D(k - 1) : g[x] = a(x)
                <5> HIDE DEF a
                <5> QED OBVIOUS
            <4> QED BY <4>1
        <3> QED BY <2>1, <3>1
    <2>7. ASSUME NEW x \in D(k) PROVE h[x] = RestOf(s, h, x)
        <3>1. x \in 1 .. n => Here(s, x).next \in D(k - 1)
            <4>1. ASSUME x \in 1 .. n PROVE Here(s, x).next \in D(k - 1)
                <5>1. Here(s, x).next \in {0} \cup x + 1 .. n + 1
                    BY <4>1, NextLies
                <5>2. x >= m
                    BY <1>1, <4>1
                <5> QED BY <1>1, <2>2, <4>1, <5>1, <5>2
            <4> QED BY <4>1
        <3>2. x \in 1 .. n => h[Here(s, x).next] = f[Here(s, x).next]
            BY <2>4, <3>1
        <3>3. x = 0 \/ x > n \/ x \in 1 .. n
            BY <1>1, <2>2
        <3> HIDE DEF h, D
        <3>4. RestOf(s, h, x) = RestOf(s, f, x)
            BY <3>2, <3>3 DEF RestOf
        <3>5. h[x] = RestOf(s, f, x)
            BY <2>3, <2>4, <2>5, <2>6
        <3> QED BY <3>4, <3>5
    <2>8. Defined(h, k)
        <3> HIDE DEF D
        <3> DEFINE H == h
                   a(i) == RestOf(s, H, i)
        <3>1. H = [i \in D(k) |-> H[i]]
            OBVIOUS
        <3>2. \A x \in D(k) : H[x] = a(x)
            BY <2>7
        <3>3. H = [i \in D(k) |-> a(i)]
            <4> HIDE DEF H, a
            <4> QED BY <3>1, <3>2
        <3> QED BY <3>3 DEF H, a
    <2> HIDE DEF Defined, h
    <2> QED BY <2>8
<1>4. T = {}
    <2> SUFFICES ASSUME T # {} PROVE FALSE
        OBVIOUS
    <2>1. T \in SUBSET Nat /\ T \subseteq 0 .. n
        OBVIOUS
    <2> HIDE DEF T
    <2>2. PICK k \in T : \A x \in T : k <= x
        BY <2>1, LeastOf
    <2>3. k \in 1 .. n /\ k - 1 \notin T
        BY <2>1, <2>2, <1>1, <1>2
    <2> QED BY <2>2, <2>3, <1>3
<1>5. \E f : Defined(f, n)
    <2> HIDE DEF Defined
    <2> QED BY <1>1, <1>4
<1>6. D(n) = 0 .. Len(s) + 1
    BY <1>1
<1> HIDE DEF D
<1> QED BY <1>5, <1>6, Zenon

(* Unescape is such a function, from the first place on. *)
LEMMA UnescapeIs ==
    ASSUME NEW s \in Seq(Nat)
    PROVE  \E f : Unescape(s) = f[1] /\ \A i \in 0 .. Len(s) + 1 : f[i] = RestOf(s, f, i)
<1> DEFINE P(g) == g = [i \in 0 .. Len(s) + 1 |-> RestOf(s, g, i)]
           f == CHOOSE g : P(g)
<1>1. P(f)
    <2>1. \E g : P(g)
        BY RestExists
    <2> HIDE DEF P
    <2> QED BY <2>1
<1>2. Unescape(s) = f[1]
    <2>1. f = CHOOSE g : g = [i \in 0 .. Len(s) + 1 |->
            IF i = 0 THEN [ok |-> FALSE, text |-> <<>>]
            ELSE IF i > Len(s) THEN [ok |-> TRUE, text |-> <<>>]
            ELSE LET here == IF s[i] = Backslash THEN EscapeAt(s, i + 1) ELSE Read(<<s[i]>>, i + 1)
                 IN  [ok |-> g[here.next].ok, text |-> here.codes \o g[here.next].text]]
        BY DEF RestOf, Here
    <2> HIDE DEF f
    <2> QED BY <2>1 DEF Unescape
<1>3. ASSUME NEW i \in 0 .. Len(s) + 1 PROVE f[i] = RestOf(s, f, i)
    <2> DEFINE a(x) == RestOf(s, f, x)
    <2>1. f = [x \in 0 .. Len(s) + 1 |-> a(x)]
        BY <1>1
    <2> HIDE DEF a, f
    <2>2. f[i] = a(i)
        BY <2>1
    <2> QED BY <2>2 DEF a
<1> HIDE DEF f, P
<1> QED BY <1>2, <1>3

(* The escapes of a text *)
Escapes(t) == [i \in 1 .. Len(t) |-> Escaped(t[i])]

(* What repr writes of a text, without the quotes, reads back as the text. *)
LEMMA ReadsBackAs ==
    ASSUME NEW t \in Seq(Nat)
    PROVE  /\ Escapes(t) \in [1 .. Len(t) -> Seq(Nat)]
           /\ Unescape(UpTo(Escapes(t), Len(t))) = [ok |-> TRUE, text |-> t]
<1> DEFINE n == Len(t)
           q == Escapes(t)
           s == UpTo(q, n)
           p(k) == Len(UpTo(q, k)) + 1
<1>1. n \in Nat /\ \A i \in 1 .. n : t[i] \in Nat
    BY LenProperties, ElementOfSeq
<1>2. \A i \in 1 .. n : q[i] = Escaped(t[i]) /\ ReadsAs(q[i], t[i])
    BY <1>1, EscapeReads DEF Escapes
<1>3. q \in [1 .. n -> Seq(Nat)]
    <2>1. \A i \in 1 .. n : Escaped(t[i]) \in Seq(Nat)
        BY <1>1, EscapeReads DEF ReadsAs
    <2> QED BY <2>1 DEF Escapes
<1> HIDE DEF q
<1>4. /\ UpTo(q, 0) = <<>>
      /\ \A k \in 0 .. n : UpTo(q, k) \in Seq(Nat) /\ Len(UpTo(q, k)) \in Nat
      /\ \A k \in 1 .. n : UpTo(q, k) = UpTo(q, k - 1) \o q[k]
    BY <1>1, <1>3, UpToGrows, LenProperties
<1>5. s \in Seq(Nat) /\ Len(s) \in Nat
    BY <1>1, <1>4
<1>6. ASSUME NEW k \in 1 .. n
      PROVE  p(k - 1) \in 1 .. Len(s) /\ p(k) = p(k - 1) + Len(q[k]) /\ StandsAt(s, p(k - 1), q[k])
    <2> DEFINE a == Len(UpTo(q, k - 1))
               b == Len(UpTo(q, k))
               c == Len(q[k])
    <2>1. a \in Nat /\ c \in Nat /\ b = a + c /\ b <= Len(s) /\ StandsAt(s, a + 1, q[k])
        BY <1>1, <1>3, NextStands
    <2>2. c # 0
        BY <1>2 DEF ReadsAs
    <2> HIDE DEF a, b, c
    <2>3. a + 1 \in 1 .. Len(s) /\ b + 1 = (a + 1) + c
        BY <1>5, <2>1, <2>2
    <2> QED BY <2>1, <2>3 DEF a, b, c
<1>7. PICK f : Unescape(s) = f[1] /\ \A i \in 0 .. Len(s) + 1 : f[i] = RestOf(s, f, i)
    BY <1>5, UnescapeIs
<1> DEFINE Behind(k) == SubSeq(t, k + 1, n)
           ReadsOn(k) == f[p(k)] = [ok |-> TRUE, text |-> Behind(k)]
           T == {k \in 0 .. n : ~ReadsOn(n - k)}
<1>8. ReadsOn(n)
    <2>1. p(n) \in 0 .. Len(s) + 1 /\ p(n) > Len(s) /\ p(n) # 0
        BY <1>5
    <2>2. f[p(n)] = [ok |-> TRUE, text |-> <<>>]
        BY <1>7, <2>1 DEF RestOf
    <2>3. Behind(n) = <<>>
        <3>1. n + 1 > n /\ n + 1 \in Int /\ n \in Int
            BY <1>1
        <3> QED BY <3>1, <1>1, SubSeqEmpty
    <2> QED BY <2>2, <2>3
<1>9. ASSUME NEW k \in 1 .. n, ReadsOn(k) PROVE ReadsOn(k - 1)
    <2> DEFINE i == p(k - 1)
               c == t[k]
    <2>1. i \in 1 .. Len(s) /\ p(k) = i + Len(q[k]) /\ StandsAt(s, i, q[k])
        BY <1>6
    <2>2. Here(s, i) = Read(<<c>>, p(k))
        <3>1. \A ss \in Seq(Nat), ii \in Nat \ {0} : StandsAt(ss, ii, q[k]) => Here(ss, ii) = Read(<<c>>, ii + Len(q[k]))
            BY <1>2 DEF ReadsAs
        <3>2. s \in Seq(Nat) /\ i \in Nat \ {0}
            BY <1>5, <2>1
        <3> HIDE DEF s, i, c, p
        <3>3. Here(s, i) = Read(<<c>>, i + Len(q[k]))
            BY <2>1, <3>1, <3>2
        <3> QED BY <3>3, <2>1
    <2>3. Here(s, i).codes = <<c>> /\ Here(s, i).next = p(k)
        BY <2>2 DEF Read
    <2> HIDE DEF i, c, s, p
    <2>4. f[i] = [ok |-> f[p(k)].ok, text |-> <<c>> \o f[p(k)].text]
        <3>1. i \in 0 .. Len(s) + 1 /\ i # 0 /\ ~(i > Len(s))
            BY <1>5, <2>1
        <3> QED BY <1>7, <2>3, <3>1 DEF RestOf
    <2>5. f[i] = [ok |-> TRUE, text |-> <<c>> \o Behind(k)]
        BY <1>9, <2>4
    <2>6. <<c>> \o Behind(k) = Behind(k - 1)
        <3> DEFINE b == Behind(k)
                   r == Behind(k - 1)
        <3>1. /\ k + 1 \in Int /\ n \in Int /\ k \in Int /\ k - 1 + 1 = k /\ k <= n
              /\ \A j \in k + 1 .. n : t[j] \in Nat
              /\ \A j \in k .. n : t[j] \in Nat
            BY <1>1
        <3>2. b \in Seq(Nat) /\ Len(b) = (IF k + 1 <= n THEN n - (k + 1) + 1 ELSE 0) /\ \A j \in 1 .. n - (k + 1) + 1 : b[j] = t[(k + 1) + j - 1]
            BY <3>1, <1>1, SubSeqProperties
        <3>3. r \in Seq(Nat) /\ Len(r) = (IF k <= n THEN n - k + 1 ELSE 0) /\ \A j \in 1 .. n - k + 1 : r[j] = t[k + j - 1]
            BY <3>1, <1>1, SubSeqProperties
        <3> HIDE DEF b, r
        <3>4. Len(b) = n - k /\ Len(r) = n - k + 1
            BY <1>1, <3>1, <3>2, <3>3
        <3>5. <<c>> \in Seq(Nat) /\ Len(<<c>>) = 1 /\ <<c>>[1] = c
            BY <1>1 DEF c
        <3> DEFINE d == <<c>> \o b
        <3>6. d \in Seq(Nat) /\ Len(d) = 1 + Len(b) /\ \A j \in 1 .. Len(d) : d[j] = IF j <= 1 THEN <<c>>[j] ELSE b[j - 1]
            BY <3>2, <3>5, ConcatProperties
        <3> HIDE DEF d
        <3>7. ASSUME NEW j \in 1 .. Len(d) PROVE d[j] = r[j]
            <4>1. CASE j = 1
                <5>1. r[1] = t[k + 1 - 1] /\ k + 1 - 1 = k
                    BY <1>1, <3>3
                <5> QED BY <4>1, <5>1, <3>5, <3>6 DEF c
            <4>2. CASE j # 1
                <5>1. j - 1 \in 1 .. n - (k + 1) + 1 /\ j \in 1 .. n - k + 1 /\ (k + 1) + (j - 1) - 1 = k + j - 1 /\ ~(j <= 1)
                    BY <1>1, <3>4, <3>6, <4>2
                <5>2. b[j - 1] = t[(k + 1) + (j - 1) - 1] /\ r[j] = t[k + j - 1]
                    BY <3>2, <3>3, <5>1
                <5> QED BY <5>1, <5>2, <3>6
            <4> QED BY <4>1, <4>2
        <3>8. Len(d) = Len(r)
            BY <1>1, <3>4, <3>6
        <3>9. d = r
            BY <3>3, <3>6, <3>7, <3>8, SeqEqual
        <3> QED BY <3>9 DEF d, b, r
    <2> HIDE DEF Behind
    <2>7. f[i] = [ok |-> TRUE, text |-> Behind(k - 1)]
        BY <2>5, <2>6
    <2> QED BY <2>7 DEF i
<1>10. T = {}
    <2> SUFFICES ASSUME T # {} PROVE FALSE
        OBVIOUS
    <2>1. T \in SUBSET Nat /\ T \subseteq 0 .. n /\ \A k \in 0 .. n : k \in T <=> ~ReadsOn(n - k)
        OBVIOUS
    <2> HIDE DEF T, ReadsOn
    <2>2. PICK k \in T : \A x \in T : k <= x
        BY <2>1, LeastOf
    <2>3. k \in 0 .. n /\ ~ReadsOn(n - k)
        BY <2>1, <2>2
    <2>4. k # 0
        <3>1. n - 0 = n
            BY <1>1
        <3> QED BY <3>1, <2>3, <1>8
    <2>5. k - 1 \in 0 .. n /\ k - 1 \notin T /\ n - (k - 1) \in 1 .. n /\ (n - (k - 1)) - 1 = n - k
        BY <1>1, <2>2, <2>3, <2>4
    <2>6. ReadsOn(n - (k - 1))
        BY <2>1, <2>5
    <2> QED BY <1>9, <2>3, <2>5, <2>6
<1>11. ReadsOn(0)
    <2>1. n \in 0 .. n /\ n - n = 0
        BY <1>1
    <2>2. ~(n \in T)
        BY <1>10
    <2> QED BY <2>1, <2>2
<1>12. p(0) = 1 /\ Behind(0) = t
    <2>1. Len(<<>>) = 0 /\ 0 + 1 = 1
        OBVIOUS
    <2>2. SubSeq(t, 1, Len(t)) = t
        BY SubSeqFull
    <2> QED BY <1>4, <2>1, <2>2
<1>13. Unescape(s) = [ok |-> TRUE, text |-> t]
    BY <1>7, <1>11, <1>12
<1> QED BY <1>3, <1>13 DEF q

(* A text within quotes *)
LEMMA Unquoted ==
    ASSUME NEW u \in Seq(Nat), NEW quoted, quoted = Append(<<Quote>> \o u, Quote)
    PROVE  SubSeq(quoted, 2, Len(quoted) - 1) = u
<1> DEFINE a == <<Quote>>
           b == a \o u
           n == Len(u)
           z == SubSeq(quoted, 2, Len(quoted) - 1)
<1>1. a \in Seq(Nat) /\ Len(a) = 1 /\ Quote \in Nat /\ n \in Nat
    BY LenProperties DEF Quote
<1> HIDE DEF a, n
<1>2. b \in Seq(Nat) /\ Len(b) = 1 + n /\ \A j \in 1 .. Len(b) : b[j] = IF j <= 1 THEN a[j] ELSE u[j - 1]
    <2>1. Len(b) = Len(a) + Len(u) /\ \A j \in 1 .. Len(b) : b[j] = IF j <= Len(a) THEN a[j] ELSE u[j - Len(a)]
        BY <1>1, ConcatProperties
    <2>2. b \in Seq(Nat)
        BY <1>1, ConcatProperties
    <2> HIDE DEF b
    <2> QED BY <1>1, <2>1, <2>2 DEF n
<1> HIDE DEF b
<1>3. quoted \in Seq(Nat) /\ Len(quoted) = n + 2 /\ \A j \in 1 .. n + 1 : quoted[j] = b[j]
    <2>1. quoted = Append(b, Quote)
        BY DEF a, b
    <2>2. quoted \in Seq(Nat) /\ Len(quoted) = Len(b) + 1 /\ \A j \in 1 .. Len(b) : quoted[j] = b[j]
        <3>1. \A s \in Seq(Nat) : /\ Append(s, Quote) \in Seq(Nat) /\ Len(Append(s, Quote)) = Len(s) + 1
                                  /\ \A j \in 1 .. Len(s) : Append(s, Quote)[j] = s[j]
            BY <1>1, AppendProperties
        <3> QED BY <1>2, <2>1, <3>1
    <2> QED BY ONLY <1>1, <1>2, <2>2
<1>4. z \in Seq(Nat) /\ Len(z) = n /\ \A j \in 1 .. n : z[j] = quoted[2 + j - 1]
    <2>1. Len(quoted) - 1 = n + 1 /\ n + 1 \in Int /\ (n + 1) - 2 + 1 = n
        BY <1>1, <1>3
    <2>2. \A j \in 2 .. n + 1 : quoted[j] \in Nat
        BY <1>1, <1>3, ElementOfSeq
    <2>3. z = SubSeq(quoted, 2, n + 1)
        BY <2>1
    <2> HIDE DEF z
    <2>4. z \in Seq(Nat) /\ Len(z) = (IF 2 <= n + 1 THEN (n + 1) - 2 + 1 ELSE 0) /\ \A j \in 1 .. (n + 1) - 2 + 1 : z[j] = quoted[2 + j - 1]
        BY <2>1, <2>2, <2>3, <1>3, SubSeqProperties
    <2> QED BY ONLY <1>1, <2>1, <2>4
<1> HIDE DEF z
<1>5. ASSUME NEW j \in 1 .. n PROVE z[j] = u[j]
    <2>1. 2 + j - 1 = j + 1 /\ j + 1 \in 1 .. n + 1 /\ j + 1 \in 1 .. Len(b) /\ ~(j + 1 <= 1) /\ (j + 1) - 1 = j
        BY <1>1, <1>2
    <2> QED BY <1>2, <1>3, <1>4, <2>1
<1>6. z = u
    BY <1>4, <1>5, SeqEqual DEF n
<1> QED BY <1>6 DEF z

-----------------------------------------------------------------------------
(* A field is read as it is written, and shows what it means *)

(* What stands there in one piece stands there in two. *)
LEMMA StandsApart ==
    ASSUME NEW s \in Seq(Nat), NEW i \in Nat \ {0}, NEW x \in Seq(Nat), NEW y \in Seq(Nat), StandsAt(s, i, x \o y)
    PROVE  StandsAt(s, i, x) /\ StandsAt(s, i + Len(x), y)
<1> DEFINE z == x \o y
<1>1. Len(x) \in Nat /\ Len(y) \in Nat /\ Len(s) \in Nat
    BY LenProperties
<1>2. Len(z) = Len(x) + Len(y) /\ \A j \in 1 .. Len(z) : z[j] = IF j <= Len(x) THEN x[j] ELSE y[j - Len(x)]
    BY ConcatProperties
<1>3. i + Len(z) - 1 <= Len(s) /\ \A j \in 1 .. Len(z) : s[i + j - 1] = z[j]
    BY DEF StandsAt
<1> HIDE DEF z
<1>4. StandsAt(s, i, x)
    <2>1. ASSUME NEW j \in 1 .. Len(x) PROVE s[i + j - 1] = x[j]
        <3>1. j \in 1 .. Len(z) /\ j <= Len(x)
            BY <1>1, <1>2
        <3> QED BY <1>2, <1>3, <3>1
    <2>2. i + Len(x) - 1 <= Len(s)
        BY <1>1, <1>2, <1>3
    <2> QED BY <2>1, <2>2 DEF StandsAt
<1>5. StandsAt(s, i + Len(x), y)
    <2>1. ASSUME NEW j \in 1 .. Len(y) PROVE s[(i + Len(x)) + j - 1] = y[j]
        <3>1. Len(x) + j \in 1 .. Len(z) /\ ~(Len(x) + j <= Len(x)) /\ (Len(x) + j) - Len(x) = j
              /\ i + (Len(x) + j) - 1 = (i + Len(x)) + j - 1
            BY <1>1, <1>2
        <3> QED BY <1>2, <1>3, <3>1
    <2>2. (i + Len(x)) + Len(y) - 1 <= Len(s)
        BY <1>1, <1>2, <1>3
    <2> QED BY <2>1, <2>2 DEF StandsAt
<1> QED BY <1>4, <1>5

(* Where a run of characters ends *)
LEMMA SkipIs ==
    ASSUME IsText(src), NEW S, NEW i \in Nat \ {0}, NEW j \in i .. Len(src) + 1,
           CodeAt(j) \notin S, \A k \in i .. j - 1 : src[k] \in S
    PROVE  SkipOver(S, i) = j
<1> DEFINE e == SkipOver(S, i)
<1>1. Len(src) \in Nat
    BY LenProperties DEF IsText
<1>2. e \in i .. Len(src) + 1 /\ CodeAt(e) \notin S /\ \A k \in i .. e - 1 : src[k] \in S
    BY DEF SkipOver
<1> HIDE DEF e
<1>3. ~(e < j)
    <2> SUFFICES ASSUME e < j PROVE FALSE
        OBVIOUS
    <2>1. e \in i .. j - 1 /\ e <= Len(src)
        BY <1>1, <1>2
    <2> QED BY <1>2, <2>1 DEF CodeAt
<1>4. ~(j < e)
    <2> SUFFICES ASSUME j < e PROVE FALSE
        OBVIOUS
    <2>1. j \in i .. e - 1 /\ j <= Len(src)
        BY <1>1, <1>2
    <2> QED BY <1>2, <2>1 DEF CodeAt
<1>5. e = j
    BY <1>1, <1>2, <1>3, <1>4
<1> QED BY <1>5 DEF e

(* The value of a number of at most two digits *)
LEMMA ValueIs ==
    ASSUME IsText(src), NEW i \in Nat \ {0}, NEW m \in 0 .. 2, i + m <= Len(src) + 1
    PROVE  ValueOf(i, i + m) = CASE m = 0 -> 0 [] m = 1 -> src[i] - 48 [] m = 2 -> 10 * (src[i] - 48) + (src[i + 1] - 48)
<1> DEFINE f == CHOOSE g : g = [n \in 0 .. (i + m) - i |-> IF n = 0 THEN 0 ELSE 10 * g[n - 1] + (src[i + n - 1] - Zero)]
<1>1. (i + m) - i = m /\ Len(src) \in Nat /\ \A k \in 1 .. Len(src) : src[k] \in Nat
    BY LenProperties, ElementOfSeq DEF IsText
<1>2. PICK g : Reads(g, i, m)
    BY <1>1, Readable
<1>3. g = [n \in 0 .. m |-> IF n = 0 THEN 0 ELSE 10 * g[n - 1] + (src[i + n - 1] - Zero)]
    BY <1>2 DEF Reads, Digit
<1>4. f = [n \in 0 .. m |-> IF n = 0 THEN 0 ELSE 10 * f[n - 1] + (src[i + n - 1] - Zero)]
    BY <1>1, <1>3
<1>5. ValueOf(i, i + m) = f[m]
    BY <1>1 DEF ValueOf
<1> HIDE DEF f
<1>6. \A n \in 0 .. m : f[n] = Digit(f, i, n)
    BY <1>4 DEF Digit
<1>7. f[0] = 0
    BY <1>6 DEF Digit
<1>8. ASSUME m >= 1 PROVE f[1] = src[i] - 48 /\ src[i] \in Nat
    <2>1. 1 \in 0 .. m /\ i + 1 - 1 = i /\ 1 - 1 = 0 /\ i \in 1 .. Len(src)
        BY <1>1, <1>8
    <2>2. src[i] \in Nat /\ f[1] = 10 * f[0] + (src[i] - 48)
        BY <1>1, <1>6, <2>1 DEF Digit, Zero
    <2> QED BY <1>7, <2>2
<1>9. ASSUME m = 2 PROVE f[2] = 10 * (src[i] - 48) + (src[i + 1] - 48)
    <2>1. 2 \in 0 .. m /\ i + 2 - 1 = i + 1 /\ 2 - 1 = 1
        BY <1>9
    <2>2. f[2] = 10 * f[1] + (src[i + 1] - 48)
        BY <1>6, <2>1 DEF Digit, Zero
    <2>3. f[1] = src[i] - 48
        BY <1>8, <1>9
    <2> QED BY <2>2, <2>3
<1> QED BY <1>5, <1>7, <1>8, <1>9

(* The code reads a field as it was written: its end, its type, its width  *)
(* and its flags. *)
LEMMA FieldReads ==
    ASSUME IsText(src), at \in Nat \ {0}, NEW p, IsPiece(p), p.kind = "field", p.type \in {TypeD, TypeS, TypeR},
           StandsAt(src, at, Source(p))
    PROVE  /\ src[at] = Percent /\ at <= Len(src)
           /\ FracEnd + 1 = at + Len(Source(p)) /\ Type = p.type
           /\ LimitAll = p.width /\ Range(SubSeq(src, at + 1, FlagsEnd - 1)) = Range(p.flags)
<1> DEFINE W == WidthOf(p)
           F == FracOf(p)
           L == p.flags
           t == p.type
           f == Len(L)
           w == Len(W)
           r == Len(F)
<1>1. L \in Seq({Zero, Dash}) /\ p.width \in 0 .. 99 /\ p.frac \in 0 .. 99 /\ t \in Nat
    BY DEF IsPiece
<1>2. /\ src \in Seq(Nat) /\ Len(src) \in Nat /\ at \in Nat \ {0}
      /\ L \in Seq(Nat) /\ W \in Seq(Nat) /\ F \in Seq(Nat) /\ f \in Nat /\ w \in Nat /\ r \in Nat
    BY SourceIsText, LenProperties DEF IsText
<1>3. StandsAt(src, at, (((<<Percent>> \o L) \o W) \o F) \o <<t>>) /\ Source(p) = (((<<Percent>> \o L) \o W) \o F) \o <<t>>
    BY DEF Source, WidthOf, FracOf
<1>4. <<Percent>> \in Seq(Nat) /\ Len(<<Percent>>) = 1 /\ <<Percent>>[1] = Percent
      /\ <<t>> \in Seq(Nat) /\ Len(<<t>>) = 1 /\ <<t>>[1] = t
    BY <1>1 DEF Percent
<1>p. t \in {TypeD, TypeS, TypeR}
    OBVIOUS
<1> HIDE DEF W, F, L, t
<1> DEFINE a == <<Percent>>
           b == a \o L
           c == b \o W
           d == c \o F
           e == d \o <<t>>
<1> HIDE DEF a
<1>5. b \in Seq(Nat) /\ Len(b) = 1 + f
    BY <1>2, <1>4, JoinedText DEF a
<1> HIDE DEF b
<1>6. c \in Seq(Nat) /\ Len(c) = 1 + f + w
    BY <1>2, <1>5, JoinedText
<1> HIDE DEF c
<1>7. d \in Seq(Nat) /\ Len(d) = 1 + f + w + r
    BY <1>2, <1>6, JoinedText
<1> HIDE DEF d
<1>8. Len(e) = 1 + f + w + r + 1
    BY <1>4, <1>7, JoinedText
<1>b. StandsAt(src, at, e)
    BY <1>3 DEF a, b, c, d
<1>9. StandsAt(src, at, d) /\ StandsAt(src, at + Len(d), <<t>>)
    BY <1>2, <1>4, <1>7, <1>b, StandsApart
<1>10. StandsAt(src, at, c) /\ StandsAt(src, at + Len(c), F)
    BY <1>2, <1>6, <1>9, StandsApart DEF d
<1>11. StandsAt(src, at, b) /\ StandsAt(src, at + Len(b), W)
    BY <1>2, <1>5, <1>10, StandsApart DEF c
<1>12. StandsAt(src, at, a) /\ StandsAt(src, at + Len(a), L)
    BY <1>2, <1>4, <1>11, StandsApart DEF a, b
<1>c. Len(Source(p)) = Len(e)
    BY <1>3 DEF a, b, c, d
<1> HIDE DEF e, f, w, r
<1> DEFINE i0 == at + 1
           i1 == at + 1 + f
           i2 == at + 1 + f + w
           i3 == at + 1 + f + w + r
<1>13. src[at] = Percent /\ at <= Len(src)
    <2>1. src[at + 1 - 1] = Percent /\ at + 1 - 1 <= Len(src)
        BY <1>4, <1>12 DEF StandsAt, a
    <2>2. at + 1 - 1 = at
        OBVIOUS
    <2> QED BY <2>1, <2>2
<1>14. /\ i0 + f - 1 <= Len(src) /\ \A j \in 1 .. f : src[i0 + j - 1] = L[j]
       /\ i1 + w - 1 <= Len(src) /\ \A j \in 1 .. w : src[i1 + j - 1] = W[j]
       /\ i2 + r - 1 <= Len(src) /\ \A j \in 1 .. r : src[i2 + j - 1] = F[j]
       /\ i3 <= Len(src) /\ src[i3] = t
    <2>1. at + Len(a) = i0 /\ at + Len(b) = i1 /\ at + Len(c) = i2 /\ at + Len(d) = i3 /\ i3 + 1 - 1 = i3
        BY <1>2, <1>4, <1>5, <1>6, <1>7 DEF a
    <2>2. i3 + 1 - 1 <= Len(src) /\ src[i3 + 1 - 1] = t
        BY <1>4, <1>9, <2>1 DEF StandsAt
    <2> HIDE DEF i0, i1, i2, i3
    <2>3. i0 + f - 1 <= Len(src) /\ \A j \in 1 .. f : src[i0 + j - 1] = L[j]
        BY <1>12, <2>1 DEF StandsAt, f
    <2>4. i1 + w - 1 <= Len(src) /\ \A j \in 1 .. w : src[i1 + j - 1] = W[j]
        BY <1>11, <2>1 DEF StandsAt, w
    <2>5. i2 + r - 1 <= Len(src) /\ \A j \in 1 .. r : src[i2 + j - 1] = F[j]
        BY <1>10, <2>1 DEF StandsAt, r
    <2> QED BY <2>1, <2>2, <2>3, <2>4, <2>5
<1>15. i0 \in Nat \ {0} /\ i1 = i0 + f /\ i2 = i1 + w /\ i3 = i2 + r /\ i1 \in Nat /\ i2 \in Nat /\ i3 \in Nat
    BY <1>2
<1> HIDE DEF i0, i1, i2, i3
<1>t. t \notin {Zero, Dash} /\ t \notin DecDigits /\ t # Dot /\ Dot \notin {Zero, Dash} /\ Dot \notin DecDigits
    BY <1>p DEF TypeD, TypeS, TypeR, Zero, Dash, DecDigits, Dot
<1>16. CodeAt(i3) = t
    BY <1>14 DEF CodeAt
<1>17. /\ r = 0 \/ (r \in {2, 3} /\ F[1] = Dot /\ \A j \in 2 .. r : F[j] \in DecDigits)
    <2>1. CASE p.frac = 0
        <3>1. F = <<>>
            BY <2>1 DEF F, FracOf
        <3> QED BY <3>1 DEF r
    <2>2. CASE p.frac # 0
        <3> DEFINE g == Decimal(p.frac)
        <3>1. p.frac \in 1 .. 99
            BY <1>1, <2>2
        <3>2. g \in Seq(Nat) /\ Len(g) \in {1, 2} /\ \A j \in 1 .. Len(g) : g[j] \in DecDigits
            BY <3>1, DecimalIs
        <3>3. F = <<Dot>> \o g
            BY <2>2 DEF F, FracOf
        <3>4. <<Dot>> \in Seq(Nat) /\ Len(<<Dot>>) = 1 /\ <<Dot>>[1] = Dot
            BY DEF Dot
        <3> HIDE DEF g
        <3>5. Len(F) = 1 + Len(g) /\ \A j \in 1 .. Len(F) : F[j] = IF j <= 1 THEN <<Dot>>[j] ELSE g[j - 1]
            BY <3>2, <3>3, <3>4, ConcatProperties
        <3>6. F[1] = Dot
            BY <3>2, <3>4, <3>5
        <3>7. ASSUME NEW j \in 2 .. Len(F) PROVE F[j] \in DecDigits
            <4>1. j \in 1 .. Len(F) /\ ~(j <= 1) /\ j - 1 \in 1 .. Len(g)
                BY <3>2, <3>5
            <4> QED BY <3>2, <3>5, <4>1
        <3>8. Len(F) \in {2, 3}
            <4>1. Len(g) = 1 \/ Len(g) = 2
                BY <3>2
            <4>2. Len(F) = 1 + Len(g)
                BY <3>5
            <4>3. 1 + 1 = 2 /\ 1 + 2 = 3
                OBVIOUS
            <4> QED BY ONLY <4>1, <4>2, <4>3
        <3> QED BY <3>6, <3>7, <3>8 DEF r
    <2> QED BY <2>1, <2>2
<1>18. \/ w = 0 /\ p.width = 0
       \/ /\ w \in {1, 2} /\ W[1] \notin {Zero, Dash} /\ \A j \in 1 .. w : W[j] \in DecDigits
          /\ w = 1 => W[1] - 48 = p.width
          /\ w = 2 => 10 * (W[1] - 48) + (W[2] - 48) = p.width
    <2>1. CASE p.width = 0
        <3>1. W = <<>>
            BY <2>1 DEF W, WidthOf
        <3> QED BY <2>1, <3>1 DEF w
    <2>2. CASE p.width # 0
        <3>1. p.width \in 1 .. 99 /\ W = Decimal(p.width)
            BY <1>1, <2>2 DEF W, WidthOf
        <3> QED BY <3>1, DecimalIs DEF w
    <2> QED BY <2>1, <2>2
    (* The flags, and what ends them *)
<1>19. r # 0 => CodeAt(i2) = Dot
    <2> SUFFICES ASSUME r # 0 PROVE CodeAt(i2) = Dot
        OBVIOUS
    <2>1. r \in {2, 3} /\ F[1] = Dot
        BY <1>17
    <2>2. 1 \in 1 .. r /\ i2 + 1 - 1 = i2 /\ i2 <= Len(src)
        BY <1>2, <1>14, <1>15, <2>1
    <2>3. src[i2 + 1 - 1] = F[1]
        BY <1>14, <2>2
    <2> QED BY <2>1, <2>2, <2>3 DEF CodeAt
<1>20. r = 0 => i3 = i2 /\ CodeAt(i2) = t
    BY <1>15, <1>16
<1>21. CodeAt(i2) \notin {Zero, Dash} /\ CodeAt(i2) \notin DecDigits
    BY <1>19, <1>20, <1>t
<1>22. CodeAt(i1) \notin {Zero, Dash}
    <2>1. CASE w = 0
        <3>1. i2 = i1
            BY <1>15, <2>1
        <3> QED BY <1>21, <3>1
    <2>2. CASE w # 0
        <3>1. W[1] \notin {Zero, Dash} /\ w \in {1, 2}
            BY <1>18, <2>2
        <3>a. w = 1 \/ w = 2
            BY <3>1
        <3>b. i1 + w - 1 <= Len(src) /\ i1 \in Nat /\ Len(src) \in Nat
            BY <1>2, <1>14, <1>15
        <3>2. 1 \in 1 .. w /\ i1 + 1 - 1 = i1 /\ i1 <= Len(src)
            BY ONLY <3>a, <3>b
        <3>3. src[i1 + 1 - 1] = W[1]
            BY <1>14, <3>2
        <3> QED BY <3>1, <3>2, <3>3 DEF CodeAt
    <2> QED BY <2>1, <2>2
<1>23. FlagsEnd = i1
    <2>1. i1 \in i0 .. Len(src) + 1
        BY <1>2, <1>14, <1>15
    <2>2. ASSUME NEW k \in i0 .. i1 - 1 PROVE src[k] \in {Zero, Dash}
        <3>1. k - i0 + 1 \in 1 .. f /\ i0 + (k - i0 + 1) - 1 = k
            BY <1>2, <1>15
        <3>2. src[k] = L[k - i0 + 1]
            BY <1>14, <3>1
        <3>3. L[k - i0 + 1] \in {Zero, Dash}
            BY <1>1, <3>1, ElementOfSeq DEF f
        <3> QED BY <3>2, <3>3
    <2>3. SkipOver({Zero, Dash}, i0) = i1
        BY <1>15, <1>22, <2>1, <2>2, SkipIs
    <2> QED BY <2>3 DEF FlagsEnd, i0
<1>24. WidthEnd = i2
    <2>1. i2 \in i1 .. Len(src) + 1 /\ i1 \in Nat \ {0}
        BY <1>2, <1>14, <1>15
    <2>2. ASSUME NEW k \in i1 .. i2 - 1 PROVE src[k] \in DecDigits
        <3>1. k - i1 + 1 \in 1 .. w /\ i1 + (k - i1 + 1) - 1 = k
            BY <1>2, <1>15
        <3>2. src[k] = W[k - i1 + 1]
            BY <1>14, <3>1
        <3>3. W[k - i1 + 1] \in DecDigits
            BY <1>18, <3>1
        <3> QED BY <3>2, <3>3
    <2>3. SkipOver(DecDigits, i1) = i2
        BY <1>21, <2>1, <2>2, SkipIs
    <2> QED BY <1>23, <2>3 DEF WidthEnd
<1>25. FracEnd = i3
    <2>1. CASE r = 0
        <3>1. CodeAt(i2) # Dot /\ i3 = i2
            BY <1>20, <1>t, <2>1
        <3> QED BY <1>24, <3>1 DEF FracEnd
    <2>2. CASE r # 0
        <3>1. i3 \in i2 + 1 .. Len(src) + 1 /\ i2 + 1 \in Nat \ {0} /\ r \in {2, 3}
            BY <1>2, <1>14, <1>15, <1>17, <2>2
        <3>2. ASSUME NEW k \in i2 + 1 .. i3 - 1 PROVE src[k] \in DecDigits
            <4>1. k - i2 + 1 \in 2 .. r /\ k - i2 + 1 \in 1 .. r /\ i2 + (k - i2 + 1) - 1 = k
                BY <1>2, <1>15, <3>1
            <4>2. src[k] = F[k - i2 + 1]
                BY <1>14, <4>1
            <4>3. F[k - i2 + 1] \in DecDigits
                BY <1>17, <2>2, <4>1
            <4> QED BY <4>2, <4>3
        <3>3. SkipOver(DecDigits, i2 + 1) = i3
            BY <1>16, <1>t, <3>1, <3>2, SkipIs
        <3>4. CodeAt(i2) = Dot
            BY <1>19, <2>2
        <3> QED BY <1>24, <3>3, <3>4 DEF FracEnd
    <2> QED BY <2>1, <2>2
<1>26. Type = t
    BY <1>16, <1>25 DEF Type
<1>27. LimitAll = p.width
    <2>1. LimitAll = ValueOf(i1, i1 + w)
        BY <1>15, <1>23, <1>24 DEF LimitAll
    <2>2. w \in 0 .. 2 /\ i1 \in Nat \ {0} /\ i1 + w <= Len(src) + 1
        BY <1>2, <1>14, <1>15, <1>18
    <2>3. ValueOf(i1, i1 + w) = CASE w = 0 -> 0 [] w = 1 -> src[i1] - 48 [] w = 2 -> 10 * (src[i1] - 48) + (src[i1 + 1] - 48)
        BY <2>2, ValueIs
    <2>4. CASE w = 0
        <3>1. ValueOf(i1, i1 + w) = 0 /\ p.width = 0
            BY <1>18, <2>3, <2>4
        <3> QED BY <2>1, <3>1
    <2>5. CASE w = 1
        <3>1. 1 \in 1 .. w /\ i1 + 1 - 1 = i1
            BY <1>15, <2>5
        <3>2. src[i1] = W[1]
            BY <1>14, <3>1
        <3>3. ValueOf(i1, i1 + w) = src[i1] - 48 /\ W[1] - 48 = p.width
            BY <1>18, <2>3, <2>5
        <3> QED BY <2>1, <3>2, <3>3
    <2>6. CASE w = 2
        <3>1. 1 \in 1 .. w /\ i1 + 1 - 1 = i1 /\ 2 \in 1 .. w /\ i1 + 2 - 1 = i1 + 1
            BY <1>15, <2>6
        <3>2. src[i1] = W[1] /\ src[i1 + 1] = W[2]
            BY <1>14, <3>1
        <3>3. ValueOf(i1, i1 + w) = 10 * (src[i1] - 48) + (src[i1 + 1] - 48) /\ 10 * (W[1] - 48) + (W[2] - 48) = p.width
            BY <1>18, <2>3, <2>6
        <3> QED BY <2>1, <3>2, <3>3
    <2> QED BY <2>2, <2>4, <2>5, <2>6
<1>28. Range(SubSeq(src, at + 1, FlagsEnd - 1)) = Range(L)
    <2> DEFINE z == SubSeq(src, i0, i1 - 1)
    <2>1. i0 \in Int /\ i1 - 1 \in Int /\ \A k \in i0 .. i1 - 1 : src[k] \in Nat
        BY <1>2, <1>14, <1>15, ElementOfSeq
    <2>2. z \in Seq(Nat) /\ Len(z) = (IF i0 <= i1 - 1 THEN (i1 - 1) - i0 + 1 ELSE 0)
          /\ \A j \in 1 .. (i1 - 1) - i0 + 1 : z[j] = src[i0 + j - 1]
        BY <2>1, SubSeqProperties
    <2> HIDE DEF z
    <2>3. Len(z) = f /\ (i1 - 1) - i0 + 1 = f
        BY <1>2, <1>15, <2>2
    <2>4. ASSUME NEW j \in 1 .. f PROVE z[j] = L[j]
        BY <1>14, <2>2, <2>3
    <2>5. z = L
        BY <1>2, <2>2, <2>3, <2>4, SeqEqual DEF f
    <2> QED BY <1>23, <2>5 DEF z, i0
<1>29. FracEnd + 1 = at + Len(Source(p))
    <2>1. Len(Source(p)) = 1 + f + w + r + 1
        BY <1>c, <1>8
    <2>2. i0 = at + 1
        BY DEF i0
    <2> QED BY <1>2, <1>15, <1>25, <2>1, <2>2
<1> QED BY <1>13, <1>25, <1>26, <1>27, <1>28, <1>29 DEF L, t

(* Padding is a text. *)
LEMMA PaddingIsText ==
    ASSUME NEW n \in Nat, NEW c \in Nat
    PROVE  Padding(n, c) \in Seq(Nat)
<1>1. Padding(n, c) \in [1 .. n -> Nat]
    BY DEF Padding
<1> QED BY <1>1, SeqDef

(* What is missing to a width *)
LEMMA Missing ==
    ASSUME NEW n \in Nat, NEW w \in Nat
    PROVE  Longer(0, w - n) \in Nat /\ Longer(n, w) - n = Longer(0, w - n)
BY DEF Longer

(* What a field shows is a text. *)
LEMMA ShownIsText ==
    ASSUME NEW p, IsPiece(p), p.kind = "field", NEW arg, IsText(arg.text), IsText(ReprOf(arg))
    PROVE  Shown(p, arg) \in Seq(Nat)
<1> DEFINE text == IF p.type = TypeR THEN ReprOf(arg) ELSE arg.text
           zeros == Zero \in Range(p.flags) /\ Dash \notin Range(p.flags) /\ p.type = TypeD
           pad == Padding(Longer(0, p.width - Len(text)), IF zeros THEN Zero ELSE Space)
<1>1. text \in Seq(Nat)
    BY DEF IsText
<1>2. pad \in Seq(Nat)
    <2>a. p.width \in 0 .. 99
        BY DEF IsPiece
    <2> HIDE DEF text, zeros
    <2>b. \A x \in 0 .. 99 : x \in Nat
        OBVIOUS
    <2>c. Len(text) \in Nat
        BY <1>1, LenProperties
    <2>1. Len(text) \in Nat /\ p.width \in Nat
        BY <2>a, <2>b, <2>c, Zenon
    <2>2. Longer(0, p.width - Len(text)) \in Nat
        BY <2>1, Missing
    <2>3. (IF zeros THEN Zero ELSE Space) \in Nat
        BY DEF Zero, Space
    <2> QED BY <2>2, <2>3, PaddingIsText
<1>3. Shown(p, arg) = IF Dash \in Range(p.flags) THEN text \o pad ELSE pad \o text
    BY DEF Shown
<1> HIDE DEF text, pad
<1>4. text \o pad \in Seq(Nat) /\ pad \o text \in Seq(Nat)
    BY <1>1, <1>2, JoinedText
<1> QED BY <1>3, <1>4

(* What a directive writes of the text it chooses *)
FilledUp(text) ==
    LET rlen == Longer(Len(text), LimitAll)
        padding == Padding(rlen - Len(text), IF LeftPad /\ PadWithZero THEN Zero ELSE Space)
    IN  IF LeftPad THEN padding \o text ELSE text \o padding

Chosen(arg) == CHOOSE t \in Shows(arg) : TRUE

(* A directive writes what its field shows. *)
LEMMA DirectiveShows ==
    ASSUME IsText(src), at \in Nat \ {0}, NEW p, IsPiece(p), p.kind = "field", p.type \in {TypeD, TypeS, TypeR},
           StandsAt(src, at, Source(p)),
           NEW arg, IsText(arg.text), IsText(ReprOf(arg)), p.type = TypeD => arg.kind = "int"
    PROVE  Shows(arg) = {Chosen(arg)} /\ FilledUp(Chosen(arg)) = Shown(p, arg)
<1> DEFINE text == IF p.type = TypeR THEN ReprOf(arg) ELSE arg.text
           zeros == Zero \in Range(p.flags) /\ Dash \notin Range(p.flags) /\ p.type = TypeD
           pad == Padding(Longer(0, p.width - Len(text)), IF zeros THEN Zero ELSE Space)
           rlen == Longer(Len(text), LimitAll)
           padding == Padding(rlen - Len(text), IF LeftPad /\ PadWithZero THEN Zero ELSE Space)
<1>1. Type = p.type /\ LimitAll = p.width /\ Range(SubSeq(src, at + 1, FlagsEnd - 1)) = Range(p.flags)
    BY FieldReads
<1>2. /\ TypeR # TypeS /\ TypeR # TypeD /\ TypeS # TypeD
      /\ {TypeR, TypeS, TypeD} \cap (FloatTypes \cup {TypeP}) = {}
    BY DEF TypeR, TypeS, TypeD, TypeF, TypeP, FloatTypes
<1>3. Shows(arg) = {text}
    <2>1. Type \notin FloatTypes /\ Type # TypeP
        BY <1>1, <1>2
    <2>2. \/ Type = TypeS /\ text = arg.text
          \/ Type = TypeD /\ arg.kind = "int" /\ text = arg.text
          \/ Type = TypeR /\ text = ReprOf(arg)
        BY <1>1, <1>2
    <2> HIDE DEF text
    <2>3. ASSUME NEW x PROVE x \in Shows(arg) <=> x = text
        <3>1. x \in Shows(arg) <=>
                  \/ x = arg.text /\ (Type = TypeS \/ (Type = TypeD /\ arg.kind = "int"))
                  \/ x = ReprOf(arg) /\ Type = TypeR
            BY <2>1 DEF Shows
        <3> QED BY <2>2, <3>1, <1>2
    <2> QED BY <2>3
<1>4. Chosen(arg) = text
    <2> HIDE DEF text
    <2> QED BY <1>3 DEF Chosen
<1>5. Len(text) \in Nat /\ p.width \in Nat
    <2>1. p.width \in 0 .. 99
        BY DEF IsPiece
    <2>2. text \in Seq(Nat)
        BY DEF IsText
    <2> HIDE DEF text
    <2>3. \A x \in 0 .. 99 : x \in Nat
        OBVIOUS
    <2>4. Len(text) \in Nat
        BY <2>2, LenProperties
    <2> QED BY <2>1, <2>3, <2>4, Zenon
<1>6. LeftPad <=> Dash \notin Range(p.flags)
    BY <1>1 DEF LeftPad
<1>7. LeftPad /\ PadWithZero <=> zeros
    BY <1>1, <1>2, <1>6 DEF PadWithZero
<1> HIDE DEF text, zeros
<1>8. rlen - Len(text) = Longer(0, p.width - Len(text))
    BY <1>1, <1>5, Missing
<1>9. padding = pad
    BY <1>7, <1>8
<1>10. FilledUp(text) = IF LeftPad THEN padding \o text ELSE text \o padding
    BY DEF FilledUp
<1>11. Shown(p, arg) = IF Dash \in Range(p.flags) THEN text \o pad ELSE pad \o text
    BY DEF Shown, text, zeros
<1> HIDE DEF pad, padding
<1>12. FilledUp(text) = Shown(p, arg)
    BY <1>6, <1>9, <1>10, <1>11
<1> QED BY <1>3, <1>4, <1>12

(* The fields before a piece are counted one by one. *)
LEMMA FieldsAre ==
    /\ FieldsUpTo(0) = 0
    /\ \A k \in Nat : FieldsUpTo(k) \in Nat
    /\ \A k \in Nat \ {0} : FieldsUpTo(k) = FieldsUpTo(k - 1) + (IF pieces[k].kind = "field" THEN 1 ELSE 0)
<1> DEFINE S(k) == {j \in 1 .. k : pieces[j].kind = "field"}
<1>1. ASSUME NEW k \in Nat PROVE IsFiniteSet(S(k)) /\ Cardinality(S(k)) \in Nat
    <2>1. IsFiniteSet(1 .. k)
        BY FS_Interval
    <2>2. IsFiniteSet(S(k))
        BY <2>1, FS_Subset
    <2> HIDE DEF S
    <2> QED BY <2>2, FS_CardinalityType
<1>2. S(0) = {}
    OBVIOUS
<1>3. ASSUME NEW k \in Nat \ {0}
      PROVE  Cardinality(S(k)) = Cardinality(S(k - 1)) + (IF pieces[k].kind = "field" THEN 1 ELSE 0)
    <2>1. k \notin S(k - 1) /\ k - 1 \in Nat
        OBVIOUS
    <2>2. CASE pieces[k].kind = "field"
        <3>1. S(k) = S(k - 1) \cup {k}
            BY <2>2
        <3> HIDE DEF S
        <3>2. Cardinality(S(k)) = Cardinality(S(k - 1)) + 1
            BY <1>1, <2>1, <3>1, FS_AddElement
        <3> QED BY <2>2, <3>2
    <2>3. CASE pieces[k].kind # "field"
        <3>1. S(k) = S(k - 1)
            BY <2>3
        <3> HIDE DEF S
        <3> QED BY <1>1, <2>1, <2>3, <3>1
    <2> QED BY <2>2, <2>3
<1>4. \A k : FieldsUpTo(k) = Cardinality(S(k))
    BY DEF FieldsUpTo
<1> HIDE DEF S
<1>5. Cardinality({}) = 0
    BY FS_EmptySet
<1> QED BY <1>1, <1>2, <1>3, <1>4, <1>5

-----------------------------------------------------------------------------
(* How far repr and % have come *)

(* What each piece means *)
Meanings == [i \in 1 .. Len(pieces) |->
    IF pieces[i].kind = "char" THEN <<pieces[i].code>> ELSE Shown(pieces[i], ArgOf(i))]

(* How far a tame format has been read and written *)
ReadUpTo(k) ==
    /\ at = Len(UpTo(Sources(pieces), k)) + 1 /\ used = FieldsUpTo(k) /\ out = UpTo(Meanings, k)
    /\ status = "done" => k = Len(pieces)

(* What has been written is what was to be written so far. *)
SoFar ==
    /\ task = "repr" =>
          /\ src \in Texts /\ status \in {"busy", "done"}
          /\ status = "busy" => at \in 1 .. Len(src) + 1 /\ out = <<Quote>> \o UpTo(Escapes(src), at - 1)
          /\ status = "done" => out = Append(<<Quote>> \o UpTo(Escapes(src), Len(src)), Quote)
    /\ task = "format" =>
          /\ pieces \in Formats /\ args \in Argses /\ src = UpTo(Sources(pieces), Len(pieces))
          /\ Tame => status \in {"busy", "done"} /\ \E k \in 0 .. Len(pieces) : ReadUpTo(k)

(* Nothing but the opening quote is written to begin with. *)
LEMMA BeginsSoFar == StringInit => SoFar
<1>1. ASSUME NEW s \in Texts, ReprInit(s) PROVE SoFar
    <2>1. IsText(s) /\ src = s /\ at = 1 /\ out = <<Quote>> /\ status = "busy" /\ task = "repr"
        BY <1>1, StringAssumption DEF ReprInit
    <2>2. Len(src) \in Nat /\ Escapes(src) \in [1 .. Len(src) -> Seq(Nat)]
        BY <2>1, ReadsBackAs, LenProperties DEF IsText
    <2>3. UpTo(Escapes(src), 0) = <<>>
        BY <2>2, UpToGrows
    <2>4. <<Quote>> \o <<>> = <<Quote>> /\ 1 - 1 = 0 /\ 1 \in 1 .. Len(src) + 1
        BY <2>2
    <2> QED BY <2>1, <2>3, <2>4 DEF SoFar
<1>2. ASSUME NEW ps \in Formats, NEW as \in Argses, FormatInit(ps, as) PROVE SoFar
    <2>1. /\ task = "format" /\ pieces = ps /\ args = as /\ at = 1 /\ out = <<>> /\ used = 0 /\ status = "busy"
          /\ src = UpTo(Sources(ps), Len(ps))
        BY <1>2, SourcesAre DEF FormatInit
    <2>2. FieldsUpTo(0) = 0
        BY FieldsAre
    <2>3. UpTo(Sources(pieces), 0) = <<>> /\ UpTo(Meanings, 0) = <<>> /\ Len(<<>>) = 0
        <3>1. UpTo(Sources(pieces), 0) = <<>>
            BY <2>1, SourcesAre, UpToGrows
        <3> DEFINE f == [i \in 1 .. 0 |-> Meanings[i]]
        <3>2. f = <<>>
            <4>1. DOMAIN f = 1 .. 0 /\ f = [i \in 1 .. 0 |-> f[i]]
                OBVIOUS
            <4> HIDE DEF f
            <4> QED BY <4>1, EmptyText
        <3>3. FlattenSeq(<<>>) = <<>>
            BY DEF FlattenSeq
        <3> QED BY <3>1, <3>2, <3>3 DEF UpTo
    <2>4. 0 \in 0 .. Len(pieces)
        BY <2>1, SourcesAre
    <2>5. ReadUpTo(0)
        BY <2>1, <2>2, <2>3 DEF ReadUpTo
    <2> QED BY <2>1, <2>4, <2>5 DEF SoFar
<1> QED BY <1>1, <1>2 DEF StringInit

(* What a tame format means is a text. *)
LEMMA MeaningsAre ==
    ASSUME StringInv, pieces \in Formats, args \in Argses, Tame
    PROVE  /\ Meanings \in [1 .. Len(pieces) -> Seq(Nat)]
           /\ \A i \in 1 .. Len(pieces) : pieces[i].kind # "char" =>
                 /\ pieces[i].kind = "field" /\ FieldsUpTo(i) \in 1 .. Len(args)
                 /\ IsText(ArgOf(i).text) /\ IsText(ReprOf(ArgOf(i)))
                 /\ pieces[i].type \in {TypeD, TypeS, TypeR} /\ (pieces[i].type = TypeD => ArgOf(i).kind = "int")
<1>1. Len(pieces) \in Nat /\ DOMAIN pieces = 1 .. Len(pieces) /\ \A i \in 1 .. Len(pieces) : IsPiece(pieces[i])
    BY SourcesAre
<1>2. ASSUME NEW i \in 1 .. Len(pieces), pieces[i].kind # "char"
      PROVE  /\ pieces[i].kind = "field" /\ FieldsUpTo(i) \in 1 .. Len(args)
             /\ IsText(ArgOf(i).text) /\ IsText(ReprOf(ArgOf(i)))
             /\ pieces[i].type \in {TypeD, TypeS, TypeR} /\ (pieces[i].type = TypeD => ArgOf(i).kind = "int")
    <2>1. pieces[i].kind = "field"
        BY <1>1, <1>2 DEF IsPiece
    <2>2. i \in Nat \ {0} /\ i - 1 \in Nat
        BY <1>1
    <2>3. FieldsUpTo(i) \in Nat /\ FieldsUpTo(i - 1) \in Nat /\ FieldsUpTo(i) = FieldsUpTo(i - 1) + 1
        BY <2>1, <2>2, FieldsAre
    <2>4. /\ FieldsUpTo(i) <= Len(args) /\ pieces[i].type \in {TypeD, TypeS, TypeR}
          /\ pieces[i].type = TypeD => ArgOf(i).kind = "int"
        <3>1. i \in DOMAIN pieces
            BY <1>1
        <3> QED BY <1>2, <3>1 DEF Tame
    <2>5. Len(args) \in Nat /\ \A j \in 1 .. Len(args) : IsText(args[j].text) /\ IsText(ReprOf(args[j]))
        BY DEF StringInv, TextsTyped
    <2>6. FieldsUpTo(i) \in 1 .. Len(args)
        BY <2>3, <2>4, <2>5
    <2> QED BY <2>1, <2>4, <2>5, <2>6 DEF ArgOf
<1>3. ASSUME NEW i \in 1 .. Len(pieces)
      PROVE  (IF pieces[i].kind = "char" THEN <<pieces[i].code>> ELSE Shown(pieces[i], ArgOf(i))) \in Seq(Nat)
    <2>1. CASE pieces[i].kind = "char"
        <3>1. pieces[i].code \in Nat
            BY <1>1, <2>1 DEF IsPiece
        <3> QED BY <2>1, <3>1
    <2>2. CASE pieces[i].kind # "char"
        <3>1. Shown(pieces[i], ArgOf(i)) \in Seq(Nat)
            BY <1>1, <1>2, <2>2, ShownIsText
        <3> QED BY <2>2, <3>1
    <2> QED BY <2>1, <2>2
<1>4. Meanings \in [1 .. Len(pieces) -> Seq(Nat)]
    BY <1>3 DEF Meanings
<1> QED BY <1>2, <1>4

(* A step of a tame format reads one piece and writes its meaning, or ends. *)
LEMMA GoesOn ==
    ASSUME StringInv, SoFar, task = "format", status = "busy", Tame, StringNext
    PROVE  status' \in {"busy", "done"} /\ \E k \in 0 .. Len(pieces) : ReadUpTo(k)'
<1> DEFINE n == Len(pieces)
           q == Sources(pieces)
<1>1. /\ pieces \in Formats /\ args \in Argses /\ src = UpTo(q, n) /\ n \in Nat /\ IsText(src)
      /\ q \in [1 .. n -> Seq(Nat)] /\ \A i \in 1 .. n : IsPiece(pieces[i]) /\ q[i] = Source(pieces[i]) /\ Len(q[i]) \in Nat \ {0}
      /\ DOMAIN pieces = 1 .. n
    BY SourcesAre DEF SoFar, StringInv, TextsTyped
<1>2. PICK k \in 0 .. n : ReadUpTo(k)
    BY DEF SoFar
<1>3. at = Len(UpTo(q, k)) + 1 /\ used = FieldsUpTo(k) /\ out = UpTo(Meanings, k)
    BY <1>2 DEF ReadUpTo
<1>4. pieces' = pieces /\ args' = args /\ src' = src
    BY DEF StringNext, ReprChar, ReprEnd, FormatChar, Directive, Unset, Refused, FormatEnd
<1>5. Meanings' = Meanings /\ \A j : FieldsUpTo(j)' = FieldsUpTo(j)
    BY <1>4 DEF Meanings, ArgOf, FieldsUpTo
<1>m. Meanings \in [1 .. n -> Seq(Nat)]
    BY <1>1, MeaningsAre
<1>6. CASE k = n
    <2>1. at = Len(src) + 1 /\ Len(src) \in Nat
        BY <1>1, <1>3, <1>6, LenProperties DEF IsText
    <2>2. ~(at <= Len(src)) /\ at > Len(src)
        BY <2>1
    <2>3. FormatEnd
        BY <2>2 DEF StringNext, ReprChar, ReprEnd, FormatChar, Directive, Unset, Refused, InFormat
    <2>4. status' = "done" /\ at' = at /\ used' = used /\ out' = out
        BY <2>3 DEF FormatEnd
    <2>5. ReadUpTo(k)'
        BY <1>3, <1>4, <1>5, <1>6, <2>4 DEF ReadUpTo
    <2> QED BY <2>4, <2>5
<1>7. CASE k # n
    <2> DEFINE m == k + 1
               p == pieces[m]
    <2>1. m \in 1 .. n /\ m - 1 = k /\ m \in Nat \ {0} /\ m \in 0 .. n /\ k \in Nat
        <3>1. n \in Nat
            BY <1>1
        <3> HIDE DEF n
        <3> QED BY <3>1, <1>7
    <2>2. /\ at \in Nat \ {0} /\ StandsAt(src, at, Source(p)) /\ Len(UpTo(q, m)) + 1 = at + Len(Source(p))
          /\ Len(Source(p)) \in Nat \ {0} /\ IsPiece(p) /\ Len(src) \in Nat
        <3>1. /\ Len(UpTo(q, k)) \in Nat /\ StandsAt(src, Len(UpTo(q, k)) + 1, q[m]) /\ Len(src) \in Nat
              /\ Len(UpTo(q, m)) = Len(UpTo(q, k)) + Len(q[m])
            BY <1>1, <2>1, NextStands
        <3>2. q[m] = Source(p) /\ IsPiece(p) /\ Len(q[m]) \in Nat \ {0}
            BY <1>1, <2>1
        <3> QED BY <1>3, <3>1, <3>2
    <2>3. at <= Len(src)
        BY <2>2 DEF StandsAt
    <2>4. UpTo(Meanings, m) = UpTo(Meanings, k) \o Meanings[m]
        BY <1>1, <1>m, <2>1, UpToGrows
    <2>5. Meanings[m] = IF p.kind = "char" THEN <<p.code>> ELSE Shown(p, ArgOf(m))
        BY <2>1 DEF Meanings
    <2>6. ASSUME at' = at + Len(Source(p)), used' = FieldsUpTo(m), out' = out \o Meanings[m], status' = status
          PROVE  ReadUpTo(m)' /\ status' = "busy"
        <3>1. at' = Len(UpTo(q, m)) + 1 /\ out' = UpTo(Meanings, m)
            BY <1>3, <2>2, <2>4, <2>6
        <3> QED BY <1>4, <1>5, <2>6, <3>1 DEF ReadUpTo
    <2>7. CASE p.kind = "char"
        <3>1. p.code \notin {Backslash, Percent} /\ Source(p) = <<p.code>>
            BY <1>1, <2>1, <2>7 DEF Tame, Source
        <3>2. src[at] = p.code /\ Len(Source(p)) = 1
            <4>1. Len(<<p.code>>) = 1 /\ <<p.code>>[1] = p.code
                OBVIOUS
            <4>2. src[at + 1 - 1] = <<p.code>>[1] /\ at + 1 - 1 = at
                BY <2>2, <3>1, <4>1 DEF StandsAt
            <4> QED BY <3>1, <4>1, <4>2
        <3>3. FormatChar
            BY <2>2, <2>3, <3>1, <3>2 DEF StringNext, ReprChar, ReprEnd, Directive, Unset, Refused, FormatEnd
        <3>4. at' = at + 1 /\ out' = out \o <<p.code>> /\ status' = status /\ used' = used
            <4> DEFINE here == Read(<<src[at]>>, at + 1)
            <4>1. here.codes = <<p.code>> /\ here.next = at + 1 /\ at + 1 # 0 /\ here # Bad
                <5>1. here.codes = <<p.code>> /\ here.next = at + 1
                    BY <3>2 DEF Read
                <5>2. at + 1 # 0 /\ Bad.next = 0
                    BY <2>2 DEF Bad, Read
                <5> QED BY <5>1, <5>2
            <4>2. src[at] # Backslash
                BY <3>1, <3>2
            <4>3. out' = out \o here.codes /\ at' = here.next /\ UNCHANGED <<status, used>>
                BY <3>3, <4>1, <4>2 DEF FormatChar
            <4> QED BY <4>1, <4>3
        <3>5. FieldsUpTo(m) = FieldsUpTo(k)
            <4>1. p.kind # "field"
                BY <2>7
            <4>2. FieldsUpTo(m) = FieldsUpTo(m - 1) + (IF pieces[m].kind = "field" THEN 1 ELSE 0) /\ FieldsUpTo(k) \in Nat
                BY <2>1, FieldsAre
            <4>3. FieldsUpTo(m) = FieldsUpTo(k) + 0
                BY <2>1, <4>1, <4>2
            <4> QED BY ONLY <4>2, <4>3
        <3> QED BY <1>3, <2>1, <2>5, <2>6, <2>7, <3>2, <3>4, <3>5
    <2>8. CASE p.kind # "char"
        <3> DEFINE arg == ArgOf(m)
        <3>1. /\ p.kind = "field" /\ FieldsUpTo(m) \in 1 .. Len(args)
              /\ IsText(arg.text) /\ IsText(ReprOf(arg))
              /\ p.type \in {TypeD, TypeS, TypeR} /\ (p.type = TypeD => arg.kind = "int")
            BY <1>1, <2>1, <2>8, MeaningsAre
        <3>2. src[at] = Percent /\ FracEnd + 1 = at + Len(Source(p)) /\ Type = p.type
            BY <1>1, <2>2, <3>1, FieldReads
        <3>3. Shows(arg) = {Chosen(arg)} /\ FilledUp(Chosen(arg)) = Shown(p, arg)
            BY <1>1, <2>2, <3>1, DirectiveShows
        <3>4. FieldsUpTo(m) = used + 1 /\ used \in Nat /\ Len(args) \in Nat
            <4>1. k \in Nat
                BY <1>1
            <4>2. FieldsUpTo(m) = FieldsUpTo(k) + 1 /\ FieldsUpTo(k) \in Nat
                BY <2>1, <3>1, <4>1, FieldsAre
            <4> QED BY <1>3, <4>2 DEF StringInv, TextsTyped
        <3>5. used # Len(args) /\ used < Len(args)
            BY <3>1, <3>4
        <3>6. Type \in Types /\ Type \notin UnsetTypes
            BY <3>1, <3>2 DEF Types, UnsetTypes, TypeD, TypeS, TypeR
        <3>7. Directive
            BY <2>2, <2>3, <3>2, <3>5, <3>6 DEF StringNext, ReprChar, ReprEnd, FormatChar, Unset, Refused, FormatEnd
        <3>8. args[used + 1] = arg
            BY <3>4 DEF ArgOf
        <3>9. used' = used + 1 /\ out' = out \o FilledUp(Chosen(arg)) /\ at' = FracEnd + 1 /\ UNCHANGED status
            <4> HIDE DEF arg
            <4>1. used' = used + 1
                BY <3>7 DEF Directive
            <4>2. LET text == Chosen(arg)
                      rlen == Longer(Len(text), LimitAll)
                      padding == Padding(rlen - Len(text), IF LeftPad /\ PadWithZero THEN Zero ELSE Space)
                  IN  /\ out' = out \o (IF LeftPad THEN padding \o text ELSE text \o padding)
                      /\ at' = FracEnd + 1 /\ UNCHANGED status
                BY <3>3, <3>7, <3>8 DEF Directive
            <4> QED BY <4>1, <4>2 DEF FilledUp
        <3>a. Meanings[m] = Shown(p, arg)
            BY <2>5, <2>8
        <3>b. at' = at + Len(Source(p)) /\ used' = FieldsUpTo(m) /\ out' = out \o Meanings[m] /\ status' = status
            BY <3>2, <3>3, <3>4, <3>9, <3>a, Zenon
        <3>c. ReadUpTo(m)' /\ status' = "busy"
            BY <2>6, <3>b
        <3> QED BY <2>1, <3>c
    <2> QED BY <2>1, <2>6, <2>7, <2>8
<1> QED BY <1>6, <1>7

(* Each step of repr writes one escape, each step of % one piece. *)
LEMMA StaysSoFar == StringInv /\ SoFar /\ [StringNext]_svars => SoFar'
<1> SUFFICES ASSUME StringInv, SoFar, [StringNext]_svars PROVE SoFar'
    OBVIOUS
<1>1. CASE UNCHANGED svars
    <2>1. /\ task' = task /\ src' = src /\ at' = at /\ out' = out /\ pieces' = pieces /\ args' = args
          /\ used' = used /\ status' = status
        BY <1>1 DEF svars
    <2>2. Meanings' = Meanings /\ \A j : FieldsUpTo(j)' = FieldsUpTo(j)
        BY <2>1 DEF Meanings, ArgOf, FieldsUpTo
    <2>3. Tame' <=> Tame
        BY <2>1, <2>2 DEF Tame, ArgOf
    <2>4. \A k : ReadUpTo(k)' <=> ReadUpTo(k)
        BY <2>1, <2>2 DEF ReadUpTo
    <2> QED BY <2>1, <2>3, <2>4 DEF SoFar
<1>2. CASE StringNext
    <2>1. task' = task /\ src' = src /\ pieces' = pieces /\ args' = args
        BY <1>2 DEF StringNext, ReprChar, ReprEnd, FormatChar, Directive, Unset, Refused, FormatEnd
    <2>2. status = "busy"
        BY <1>2 DEF StringNext, ReprChar, ReprEnd, FormatChar, Directive, Unset, Refused, FormatEnd, InFormat
    <2>3. ASSUME task = "format" PROVE SoFar'
        <3>1. \A j : FieldsUpTo(j)' = FieldsUpTo(j)
            BY <2>1 DEF FieldsUpTo
        <3>2. Tame' <=> Tame
            BY <2>1, <3>1 DEF Tame, ArgOf
        <3>3. Tame => status' \in {"busy", "done"} /\ \E k \in 0 .. Len(pieces) : ReadUpTo(k)'
            BY <1>2, <2>2, <2>3, GoesOn
        <3> QED BY <2>1, <2>3, <3>2, <3>3 DEF SoFar
    <2>4. ASSUME task = "repr" PROVE SoFar'
        <3> DEFINE q == Escapes(src)
                   n == Len(src)
        <3>1. /\ src \in Texts /\ at \in 1 .. n + 1 /\ out = <<Quote>> \o UpTo(q, at - 1)
              /\ src \in Seq(Nat) /\ n \in Nat /\ q \in [1 .. n -> Seq(Nat)]
            BY <2>2, <2>4, ReadsBackAs, LenProperties DEF SoFar, StringInv, TextsTyped, IsText
        <3>2. CASE at > n
            <4>1. ReprEnd
                BY <1>2, <2>4, <3>1, <3>2 DEF StringNext, ReprChar, FormatChar, Directive, Unset, Refused, FormatEnd, InFormat
            <4>2. at - 1 = n
                BY <3>1, <3>2
            <4>3. status' = "done" /\ out' = Append(<<Quote>> \o UpTo(q, n), Quote)
                BY <3>1, <4>1, <4>2 DEF ReprEnd
            <4> QED BY <2>1, <2>4, <3>1, <4>3 DEF SoFar
        <3>3. CASE ~(at > n)
            <4>1. ReprChar
                BY <1>2, <2>4, <3>1, <3>3 DEF StringNext, ReprEnd, FormatChar, Directive, Unset, Refused, FormatEnd, InFormat
            <4>2. at' = at + 1 /\ status' = "busy" /\ out' = out \o Escaped(src[at])
                BY <2>2, <4>1 DEF ReprChar
            <4>3. at \in 1 .. n /\ at - 1 \in 0 .. n /\ (at + 1) - 1 = at /\ at + 1 \in 1 .. n + 1
                BY <3>1, <3>3
            <4>4. q[at] = Escaped(src[at])
                BY <4>3 DEF Escapes
            <4> DEFINE u == UpTo(q, at - 1)
                       e == q[at]
            <4>5. u \in Seq(Nat) /\ e \in Seq(Nat) /\ UpTo(q, at) = u \o e
                BY <3>1, <4>3, UpToGrows
            <4>6. <<Quote>> \in Seq(Nat)
                BY DEF Quote
            <4> HIDE DEF u, e
            <4>7. (<<Quote>> \o u) \o e = <<Quote>> \o (u \o e)
                BY <4>5, <4>6, ConcatAssociative
            <4>8. out' = <<Quote>> \o UpTo(q, at' - 1)
                <5>1. out' = (<<Quote>> \o u) \o e
                    BY <3>1, <4>2, <4>4 DEF u, e
                <5> QED BY <4>2, <4>3, <4>5, <4>7, <5>1
            <4> QED BY <2>1, <2>4, <3>1, <4>2, <4>3, <4>8 DEF SoFar
        <3> QED BY <3>2, <3>3
    <2>5. task \in {"repr", "format"}
        BY DEF StringInv, Reckoned
    <2> QED BY <2>3, <2>4, <2>5
<1> QED BY <1>1, <1>2

(* What repr writes reads back as the same text, a tame format gives its   *)
(* meaning, and a search finds the first place, whatever the texts are     *)
(* (string.c:209, 440, 486, 310 and 427).                                  *)
THEOREM TextsRight == StringSpec => []TextsAsMeant
<1>1. StringInit => StringInv /\ SoFar
    BY BeginsReckoned, BeginsSoFar
<1>2. (StringInv /\ SoFar) /\ [StringNext]_svars => (StringInv /\ SoFar)'
    BY StaysReckoned, StaysSoFar
<1>3. StringInv /\ SoFar => TextsAsMeant
    <2> SUFFICES ASSUME StringInv, SoFar PROVE TextsAsMeant
        OBVIOUS
    <2>1. SearchRight(src)
        BY SearchIsRight DEF StringInv, TextsTyped
    <2>2. ASSUME task = "repr", status = "done"
          PROVE  Unescape(SubSeq(out, 2, Len(out) - 1)) = [ok |-> TRUE, text |-> src]
        <3> DEFINE u == UpTo(Escapes(src), Len(src))
        <3>1. src \in Seq(Nat) /\ Len(src) \in Nat /\ out = Append(<<Quote>> \o u, Quote)
            BY <2>2, LenProperties DEF SoFar, StringInv, TextsTyped, IsText
        <3>2. u \in Seq(Nat) /\ Unescape(u) = [ok |-> TRUE, text |-> src]
            <4>1. Len(src) \in 0 .. Len(src)
                BY <3>1
            <4> QED BY <3>1, <4>1, ReadsBackAs, UpToGrows
        <3> HIDE DEF u
        <3>3. SubSeq(out, 2, Len(out) - 1) = u
            BY <3>1, <3>2, Unquoted
        <3> QED BY <3>2, <3>3
    <2>3. ASSUME task = "format", Tame PROVE status \in {"busy", "done"} /\ (status = "done" => out = Meaning)
        <3>1. /\ status \in {"busy", "done"} /\ pieces \in Formats
              /\ status = "done" => out = UpTo(Meanings, Len(pieces))
            BY <2>3 DEF SoFar, ReadUpTo
        <3>2. DOMAIN pieces = 1 .. Len(pieces)
            BY <3>1, SourcesAre
        <3>3. [i \in 1 .. Len(pieces) |-> Meanings[i]] = Meanings
            BY DEF Meanings
        <3>4. Meaning = FlattenSeq(Meanings)
            BY <3>2 DEF Meaning, Meanings
        <3>5. UpTo(Meanings, Len(pieces)) = Meaning
            BY <3>3, <3>4 DEF UpTo
        <3> QED BY <3>1, <3>5
    <2> QED BY <2>1, <2>2, <2>3 DEF TextsAsMeant
<1> QED BY <1>1, <1>2, <1>3, PTL DEF StringSpec

-----------------------------------------------------------------------------
(* Powers *)
PowStep(x, m) == [e \in (1 .. m) \X Int |-> x * e[2]]

(* A power is the last value of such a function. *)
LEMMA PowIterates ==
    ASSUME NEW x \in Int, NEW n \in Nat
    PROVE  \E g \in [0 .. n -> Int] : Iterates(g, 1, PowStep(x, n), n) /\ Pow(x, n) = g[n]
<1>1. PowStep(x, n) \in [(1 .. n) \X Int -> Int]
    BY DEF PowStep
<1>a. 1 \in Int
    OBVIOUS
<1>2. PICK g \in [0 .. n -> Int] : Iterates(g, 1, PowStep(x, n), n)
    BY <1>1, <1>a, Recursion, Zenon
<1>3. ASSUME NEW i \in 1 .. n PROVE g[i] = x * g[i - 1]
    <2>1. <<i, g[i - 1]>> \in (1 .. n) \X Int
        OBVIOUS
    <2> QED BY <1>2, <2>1 DEF Iterates, PowStep
<1>4. g = [i \in 0 .. n |-> IF i = 0 THEN 1 ELSE x * g[i - 1]]
    <2>1. \A i \in 0 .. n : g[i] = IF i = 0 THEN 1 ELSE x * g[i - 1]
        BY <1>2, <1>3 DEF Iterates
    <2> QED BY <2>1
<1> DEFINE p == CHOOSE q : q = [i \in 0 .. n |-> IF i = 0 THEN 1 ELSE x * q[i - 1]]
<1>5. p = [i \in 0 .. n |-> IF i = 0 THEN 1 ELSE x * p[i - 1]]
    BY <1>4
<1>6. Pow(x, n) = p[n]
    BY DEF Pow
<1> HIDE DEF p
<1> DEFINE T == {k \in 0 .. n : p[k] # g[k]}
<1>7. ASSUME T # {} PROVE FALSE
    <2>1. T \in SUBSET Nat
        OBVIOUS
    <2>2. PICK k \in T : \A j \in T : k <= j
        BY <1>7, <2>1, LeastOf
    <2>3. k # 0
        BY <2>2, <1>4, <1>5
    <2>4. k - 1 \in 0 .. n /\ k - 1 \notin T
        BY <2>2, <2>3
    <2> QED BY <2>2, <2>3, <2>4, <1>4, <1>5
<1> QED BY <1>2, <1>6, <1>7

(* Powers, as they are defined by recursion *)
LEMMA PowIs ==
    ASSUME NEW x \in Int
    PROVE  Pow(x, 0) = 1 /\ \A n \in Nat : Pow(x, n) \in Int /\ Pow(x, n + 1) = x * Pow(x, n)
<1>1. Pow(x, 0) = 1
    BY PowIterates DEF Iterates
<1>2. ASSUME NEW n \in Nat PROVE Pow(x, n) \in Int /\ Pow(x, n + 1) = x * Pow(x, n)
    <2>0. n + 1 \in Nat
        OBVIOUS
    <2>1. PICK g \in [0 .. n -> Int] : Iterates(g, 1, PowStep(x, n), n) /\ Pow(x, n) = g[n]
        BY PowIterates
    <2>2. PICK h \in [0 .. n + 1 -> Int] :
              Iterates(h, 1, PowStep(x, n + 1), n + 1) /\ Pow(x, n + 1) = h[n + 1]
        BY <2>0, PowIterates
    <2>3. ASSUME NEW i \in 1 .. n + 1 PROVE h[i] = x * h[i - 1]
        <3>1. <<i, h[i - 1]>> \in (1 .. n + 1) \X Int
            OBVIOUS
        <3> QED BY <2>2, <3>1 DEF Iterates, PowStep
    <2>4. Iterates(h, 1, PowStep(x, n), n)
        <3>1. ASSUME NEW i \in 1 .. n PROVE h[i] = PowStep(x, n)[<<i, h[i - 1]>>]
            <4>1. <<i, h[i - 1]>> \in (1 .. n) \X Int
                OBVIOUS
            <4> QED BY <2>3, <4>1 DEF PowStep
        <3> QED BY <3>1, <2>2 DEF Iterates
    <2>5. h[n] = g[n]
        BY <2>1, <2>4, RecursionOnce
    <2> QED BY <2>1, <2>2, <2>3, <2>5
<1> QED BY <1>1, <1>2

-----------------------------------------------------------------------------
(* Division *)
LEMMA DivIs ==
    ASSUME NEW n \in Int, NEW d \in Int, d > 0
    PROVE  /\ n \div d \in Int /\ n % d \in Int
           /\ n = d * (n \div d) + (n % d) /\ 0 <= n % d /\ n % d < d
    OBVIOUS

(* Multiples of d lie at least d apart. *)
LEMMA MulGrows ==
    ASSUME NEW d \in Int, d > 0, NEW p \in Int, NEW q \in Int, p < q
    PROVE  d * p + d <= d * q
<1>1. q - p - 1 >= 0 /\ q - p - 1 \in Int
    OBVIOUS
<1>2. d * (q - p - 1) >= 0
    BY <1>1
<1>3. d * (q - p - 1) = d * q - d * p - d
    OBVIOUS
<1> QED BY <1>2, <1>3

(* There is one quotient, and one remainder. *)
LEMMA DivOnce ==
    ASSUME NEW n \in Int, NEW d \in Int, d > 0, NEW q \in Int, NEW r \in Int,
           n = d * q + r, 0 <= r, r < d
    PROVE  n \div d = q /\ n % d = r
<1> DEFINE p == n \div d
           s == n % d
<1>1. p \in Int /\ s \in Int /\ n = d * p + s /\ 0 <= s /\ s < d
    BY DivIs
<1> HIDE DEF p, s
<1>2. d * p \in Int /\ d * q \in Int
    BY <1>1
<1>3. ~ p < q
    <2> SUFFICES ASSUME p < q PROVE FALSE
        OBVIOUS
    <2>1. d * p + d <= d * q
        BY <1>1, MulGrows
    <2> QED BY <1>1, <1>2, <2>1
<1>4. ~ q < p
    <2> SUFFICES ASSUME q < p PROVE FALSE
        OBVIOUS
    <2>1. d * q + d <= d * p
        BY <1>1, MulGrows
    <2> QED BY <1>1, <1>2, <2>1
<1>5. p = q
    BY <1>1, <1>3, <1>4
<1> QED BY <1>1, <1>2, <1>5 DEF p, s

(* Division by two numbers after each other is that by their product. *)
LEMMA DivTwice ==
    ASSUME NEW n \in Int, NEW a \in Int, a > 0, NEW b \in Int, b > 0
    PROVE  (n \div a) \div b = n \div (b * a)
<1> DEFINE p == n \div a
           r == n % a
           q == p \div b
           s == p % b
<1>1. p \in Int /\ r \in Int /\ n = a * p + r /\ 0 <= r /\ r < a
    BY DivIs
<1> HIDE DEF p, r
<1>2. q \in Int /\ s \in Int /\ p = b * q + s /\ 0 <= s /\ s < b
    BY <1>1, DivIs
<1> HIDE DEF q, s
<1>3. b * a \in Int /\ b * a > 0 /\ a * s + r \in Int
    BY <1>1, <1>2
<1>4. n = (b * a) * q + (a * s + r)
    <2>1. a * p = a * (b * q) + a * s
        BY <1>2
    <2>2. a * (b * q) = (b * a) * q
        BY <1>2
    <2> QED BY <1>1, <1>2, <2>1, <2>2
<1>5. 0 <= a * s + r /\ a * s + r < b * a
    <2>1. a * s >= 0
        BY <1>2
    <2>2. a * s + a <= a * b
        BY <1>2, MulGrows
    <2> QED BY <1>1, <1>2, <2>1, <2>2
<1>6. n \div (b * a) = q
    BY <1>2, <1>3, <1>4, <1>5, DivOnce
<1> QED BY <1>6 DEF p, q

-----------------------------------------------------------------------------
(* Sizes *)
HalfWords == Pow(2, WordBits - 1)
HalfInts == Pow(2, IntBits - 1)

(* Powers of a number above 1 grow. *)
LEMMA PowGrows ==
    ASSUME NEW x \in Int, x > 1, NEW n \in Nat
    PROVE  \A k \in 0 .. n : Pow(x, k) \in Nat /\ 1 <= Pow(x, k) /\ Pow(x, k) <= Pow(x, n)
<1> DEFINE T == {k \in 0 .. n : ~(1 <= Pow(x, k))}
<1>1. ASSUME T # {} PROVE FALSE
    <2>1. T \in SUBSET Nat
        OBVIOUS
    <2>2. PICK k \in T : \A j \in T : k <= j
        BY <1>1, <2>1, LeastOf
    <2>3. k # 0
        BY <2>2, PowIs
    <2>4. k - 1 \in 0 .. n /\ k - 1 \notin T /\ k - 1 \in Nat /\ (k - 1) + 1 = k
        BY <2>2, <2>3
    <2>5. Pow(x, k) = x * Pow(x, k - 1) /\ Pow(x, k - 1) \in Int /\ Pow(x, k) \in Int /\ 1 <= Pow(x, k - 1)
        BY <2>2, <2>4, PowIs
    <2>6. x * 0 + x <= x * Pow(x, k - 1)
        BY <2>5, MulGrows
    <2> QED BY <2>2, <2>5, <2>6
<1>2. ASSUME NEW k \in 0 .. n PROVE Pow(x, k) \in Nat /\ 1 <= Pow(x, k)
    <2>1. 1 <= Pow(x, k)
        BY <1>1
    <2>2. Pow(x, k) \in Int
        BY PowIs
    <2> QED BY <2>1, <2>2
<1> HIDE DEF T
<1> DEFINE S == {j \in 0 .. n : ~(Pow(x, n - j) <= Pow(x, n))}
<1>3. ASSUME S # {} PROVE FALSE
    <2>1. S \in SUBSET Nat
        OBVIOUS
    <2>2. PICK j \in S : \A i \in S : j <= i
        BY <1>3, <2>1, LeastOf
    <2>3. j # 0
        BY <2>2, <1>2
    <2>4. j - 1 \in 0 .. n /\ j - 1 \notin S /\ n - j \in 0 .. n /\ (n - j) + 1 = n - (j - 1)
        BY <2>2, <2>3
    <2> DEFINE p == Pow(x, n - j)
               q == Pow(x, n - (j - 1))
    <2>5. q = x * p /\ p \in Int /\ q \in Int /\ 1 <= p
        BY <1>2, <2>4, PowIs
    <2>6. q <= Pow(x, n) /\ ~(p <= Pow(x, n)) /\ Pow(x, n) \in Int
        BY <1>2, <2>2, <2>4
    <2> HIDE DEF p, q
    <2>7. p <= x * p
        <3>1. p * 1 + p <= p * x
            BY <2>5, MulGrows
        <3> QED BY <2>5, <3>1
    <2> QED BY <2>5, <2>6, <2>7
<1>4. ASSUME NEW k \in 0 .. n PROVE Pow(x, k) <= Pow(x, n)
    <2>1. n - k \in 0 .. n /\ n - (n - k) = k
        OBVIOUS
    <2> QED BY <1>3, <2>1
<1> QED BY <1>2, <1>4

(* A word and a C int have an even number of values, and a word has at     *)
(* least twice as many.                                                    *)
LEMMA Sizes ==
    /\ HalfWords \in Nat /\ Words = 2 * HalfWords
    /\ HalfInts \in Nat /\ 1 <= HalfInts /\ Ints = 2 * HalfInts
    /\ Ints <= HalfWords
<1>1. WordBits - 1 \in Nat /\ IntBits - 1 \in Nat /\ IntBits \in 0 .. WordBits - 1
      /\ WordBits = (WordBits - 1) + 1 /\ IntBits = (IntBits - 1) + 1
    BY NumberAssumption
<1>2. Words = 2 * HalfWords /\ Ints = 2 * HalfInts
    BY <1>1, PowIs DEF Words, Ints, HalfWords, HalfInts
<1>3. HalfWords \in Nat /\ HalfInts \in Nat /\ 1 <= HalfInts
    BY <1>1, PowGrows DEF HalfWords, HalfInts
<1>4. Ints <= HalfWords
    BY <1>1, PowGrows DEF HalfWords, Ints
<1> QED BY <1>2, <1>3, <1>4

(* A number of 2h values lies between -h and h - 1, and one that lies      *)
(* there is left as it is.                                                 *)
LEMMA SignedIs ==
    ASSUME NEW h \in Nat, 1 <= h, NEW v \in Int
    PROVE  /\ Signed(v, 2 * h) \in -h .. h - 1
           /\ v \in -h .. h - 1 => Signed(v, 2 * h) = v
<1>1. (2 * h) \div 2 = h
    BY DivOnce
<1> DEFINE r == (v + h) % (2 * h)
<1>2. Signed(v, 2 * h) = r - h
    BY <1>1 DEF Signed
<1>3. r \in Int /\ 0 <= r /\ r < 2 * h
    BY DivIs
<1>4. ASSUME v \in -h .. h - 1 PROVE r = v + h
    <2>1. v + h = (2 * h) * 0 + (v + h) /\ 0 <= v + h /\ v + h < 2 * h
        BY <1>4
    <2> QED BY <2>1, DivOnce
<1> HIDE DEF r
<1> QED BY <1>2, <1>3, <1>4

(* What fits a word *)
LEMMA WordIs ==
    ASSUME NEW v \in Int
    PROVE  /\ Signed(v, Words) \in -HalfWords .. HalfWords - 1
           /\ FitsWord(v) <=> v \in -HalfWords .. HalfWords - 1
<1>1. 1 <= HalfWords /\ HalfWords \in Nat
    BY Sizes
<1> QED BY <1>1, Sizes, SignedIs DEF FitsWord

(* What fits a C int *)
LEMMA IntIs ==
    ASSUME NEW v \in Int
    PROVE  /\ Signed(v, Ints) \in -HalfInts .. HalfInts - 1
           /\ v \in -HalfInts .. HalfInts - 1 => Signed(v, Ints) = v
BY Sizes, SignedIs

(* What abs() gives is a C int, and not negative but for the least one *)
LEMMA CAbsIs ==
    ASSUME NEW v \in Int
    PROVE  /\ CAbs(v) \in -HalfInts .. HalfInts - 1
           /\ v \in -HalfInts + 1 .. HalfInts - 1 => CAbs(v) = Magnitude(v)
           /\ Ints \div 2 = HalfInts
<1> DEFINE n == Signed(v, Ints)
<1>1. HalfInts \in Nat /\ 1 <= HalfInts /\ Ints \div 2 = HalfInts
    BY Sizes, DivOnce
<1>2. n \in -HalfInts .. HalfInts - 1 /\ (v \in -HalfInts .. HalfInts - 1 => n = v)
    BY IntIs
<1>3. CAbs(v) = IF n = -HalfInts THEN n ELSE Magnitude(n)
    BY <1>1 DEF CAbs
<1> HIDE DEF n
<1> QED BY <1>1, <1>2, <1>3 DEF Magnitude

-----------------------------------------------------------------------------
(* Division as C does it *)
LEMMA QuotientIs ==
    ASSUME NEW a \in Int, NEW b \in Int, b # 0
    PROVE  /\ Quotient(a, b) \in Int /\ Remainder(a, b) \in Int
           /\ a >= 0 /\ b > 0 => Quotient(a, b) = a \div b /\ Remainder(a, b) = a % b
           /\ a > 0 /\ b < 0 => Quotient(a, b) = -(a \div (-b)) /\ Remainder(a, b) = a % (-b)
<1>1. Magnitude(a) \in Int /\ Magnitude(b) \in Int /\ Magnitude(b) > 0
    BY DEF Magnitude
<1>2. Magnitude(a) \div Magnitude(b) \in Int
    BY <1>1, DivIs
<1>3. Quotient(a, b) \in Int
    BY <1>2 DEF Quotient
<1>4. Remainder(a, b) \in Int
    BY <1>3 DEF Remainder
<1>5. ASSUME a >= 0, b > 0 PROVE Quotient(a, b) = a \div b /\ Remainder(a, b) = a % b
    <2>1. Quotient(a, b) = a \div b
        BY <1>5 DEF Quotient, Magnitude
    <2>2. a = b * (a \div b) + (a % b) /\ a \div b \in Int /\ a % b \in Int
        BY <1>5, DivIs
    <2> DEFINE q == a \div b
               r == a % b
    <2> HIDE DEF q, r
    <2>3. a = b * q + r /\ q \in Int /\ r \in Int /\ Quotient(a, b) = q
        BY <2>1, <2>2 DEF q, r
    <2>4. Remainder(a, b) = r
        BY <2>3 DEF Remainder
    <2> QED BY <2>1, <2>4 DEF r
<1>6. ASSUME a > 0, b < 0 PROVE Quotient(a, b) = -(a \div (-b)) /\ Remainder(a, b) = a % (-b)
    <2>1. Quotient(a, b) = -(a \div (-b))
        BY <1>6 DEF Quotient, Magnitude
    <2>2. a = (-b) * (a \div (-b)) + (a % (-b)) /\ a \div (-b) \in Int /\ a % (-b) \in Int
        <3>1. -b \in Int /\ -b > 0
            BY <1>6
        <3> QED BY <3>1, DivIs
    <2> DEFINE q == a \div (-b)
               r == a % (-b)
    <2> HIDE DEF q, r
    <2>3. a = (-b) * q + r /\ q \in Int /\ r \in Int /\ Quotient(a, b) = -q
        BY <2>1, <2>2 DEF q, r
    <2>4. Remainder(a, b) = r
        BY <2>3 DEF Remainder
    <2> QED BY <2>1, <2>4 DEF r
<1> QED BY <1>3, <1>4, <1>5, <1>6

(* ... which are ints whatever the signs are *)
LEMMA QuotientIsInt ==
    ASSUME NEW a \in Int, NEW b \in Int, b # 0
    PROVE  Quotient(a, b) \in Int /\ Remainder(a, b) \in Int
BY QuotientIs

(* ... rounded down for what is not negative *)
LEMMA QuotientIsDown ==
    ASSUME NEW a \in Int, NEW b \in Int, a >= 0, b > 0
    PROVE  Quotient(a, b) = a \div b /\ Remainder(a, b) = a % b
<1>1. b # 0
    OBVIOUS
<1> QED BY <1>1, QuotientIs, Zenon

(* ... and up for a negative divisor of a positive number *)
LEMMA QuotientIsUp ==
    ASSUME NEW a \in Int, NEW b \in Int, a > 0, b < 0
    PROVE  Quotient(a, b) = -(a \div (-b)) /\ Remainder(a, b) = a % (-b)
<1>1. b # 0
    OBVIOUS
<1> QED BY <1>1, QuotientIs, Zenon

-----------------------------------------------------------------------------
(* Whole numbers *)
LEMMA WholeIs ==
    ASSUME NEW t \in Int
    PROVE  /\ t % 2 = 0 => 2 * (t \div 2) = t
           /\ \A v \in Int : t = 2 * v => t % 2 = 0 /\ t \div 2 = v /\ Quotient(t, 2) = v
<1>1. t = 2 * (t \div 2) + (t % 2) /\ t \div 2 \in Int /\ t % 2 \in Int
    BY DivIs
<1>2. ASSUME NEW v \in Int, t = 2 * v PROVE t % 2 = 0 /\ t \div 2 = v /\ Quotient(t, 2) = v
    <2>1. t % 2 = 0 /\ t \div 2 = v
        BY <1>2, DivOnce
    <2>2. (2 * (-v)) \div 2 = -v /\ (2 * v) \div 2 = v
        <3>1. -v \in Int /\ 2 * (-v) \in Int /\ 2 * (-v) = 2 * (-v) + 0
            OBVIOUS
        <3>2. (2 * (-v)) \div 2 = -v
            BY <3>1, DivOnce
        <3> QED BY <2>1, <3>2, <1>2
    <2>3. CASE t >= 0
        BY <2>3, <2>1 DEF Quotient, Magnitude
    <2>4. CASE t < 0
        <3>1. -t = 2 * (-v)
            BY <1>2
        <3> QED BY <3>1, <2>4, <2>2 DEF Quotient, Magnitude
    <2> QED BY <2>1, <2>3, <2>4
<1> QED BY <1>1, <1>2

(* What is left of a number without its fraction *)
LEMMA TruncIsInt ==
    ASSUME NEW x, x.twice \in Int
    PROVE  Trunc(x) \in Int
<1> DEFINE t == x.twice
<1>1. t \in Int /\ 2 \in Int /\ 2 # 0
    OBVIOUS
<1> HIDE DEF t
<1>2. Quotient(t, 2) \in Int
    BY <1>1, QuotientIsInt
<1> QED BY <1>2 DEF Trunc, t

(* An int is twice a value that fits a word. *)
LEMMA IntValue ==
    ASSUME NEW x, IsNumber(x), IsInt(x)
    PROVE  \E v \in -HalfWords .. HalfWords - 1 :
               x.twice = 2 * v /\ x.twice \div 2 = v /\ Trunc(x) = v
<1>1. x.twice \in Int /\ x.twice % 2 = 0 /\ FitsWord(x.twice \div 2)
    BY DEF IsNumber, Whole
<1>2. x.twice \div 2 \in Int /\ x.twice = 2 * (x.twice \div 2)
    BY <1>1, WholeIs, DivIs
<1>3. x.twice \div 2 \in -HalfWords .. HalfWords - 1
    BY <1>1, <1>2, WordIs
<1>4. Trunc(x) = x.twice \div 2
    BY <1>1, <1>2, WholeIs DEF Trunc
<1> QED BY <1>2, <1>3, <1>4

(* What the code makes is a number; an int is right where its value fits. *)
LEMMA Made ==
    /\ \A v \in Int : IsNumber(IntNum(v))
    /\ \A v \in -HalfWords .. HalfWords - 1 : IntNum(v).twice = 2 * v
    /\ \A t \in Int : IsNumber(FloatNum(t)) /\ FloatNum(t).twice = t
<1>1. ASSUME NEW v \in Int PROVE IsNumber(IntNum(v))
    <2> DEFINE w == Signed(v, Words)
    <2>1. w \in -HalfWords .. HalfWords - 1 /\ HalfWords \in Nat
        BY WordIs, Sizes
    <2>2. w \in Int /\ FitsWord(w)
        BY <2>1, WordIs
    <2> HIDE DEF w
    <2>3. (2 * w) % 2 = 0 /\ (2 * w) \div 2 = w /\ 2 * w \in Int
        BY <2>2, WholeIs
    <2>4. IntNum(v) = [kind |-> "int", twice |-> 2 * w]
        BY DEF IntNum, w
    <2> QED BY <2>2, <2>3, <2>4 DEF IsNumber, IsInt, Whole
<1>2. ASSUME NEW v \in -HalfWords .. HalfWords - 1 PROVE IntNum(v).twice = 2 * v
    <2>1. v \in Int
        BY Sizes
    <2> QED BY <2>1, WordIs DEF FitsWord, IntNum
<1>3. ASSUME NEW t \in Int PROVE IsNumber(FloatNum(t)) /\ FloatNum(t).twice = t
    BY DEF IsNumber, FloatNum, IsInt
<1> QED BY <1>1, <1>2, <1>3

(* What an operator gives is a number, and the right one where it is tame. *)
Right(g) == IsNumber(g.num) /\ (g.tame => g.num.twice = g.meant)

(* It is enough to look at what it gives. *)
LEMMA RightGives ==
    ASSUME NEW n, IsNumber(n), NEW m, NEW tame, tame => n.twice = m
    PROVE  Right(Gives(n, m, tame))
<1>1. Gives(n, m, tame).num = n /\ Gives(n, m, tame).meant = m /\ Gives(n, m, tame).tame = tame
    BY DEF Gives
<1> QED BY <1>1, Zenon DEF Right

(* Sums and products, of ints or of floats *)
LEMMA RightSum ==
    ASSUME NEW a, IsNumber(a), NEW b, IsNumber(b), NEW t \in Int,
           IsInt(a) /\ IsInt(b) => t % 2 = 0
    PROVE  Right(Sum(a, b, t))
<1>1. CASE IsInt(a) /\ IsInt(b)
    <2>1. t \div 2 \in Int /\ 2 * (t \div 2) = t
        BY <1>1, WholeIs, DivIs
    <2>2. FitsWord(t \div 2) => IntNum(t \div 2).twice = t
        BY <2>1, WordIs, Made
    <2>3. IsNumber(IntNum(t \div 2))
        BY <2>1, Made
    <2> QED BY <1>1, <2>2, <2>3 DEF Right, Sum, Gives
<1>2. CASE ~(IsInt(a) /\ IsInt(b))
    BY <1>2, Made DEF Right, Sum, Gives
<1> QED BY <1>1, <1>2

(* int_plus, float_plus, int_minus, float_minus *)
LEMMA RightPlusMinus ==
    ASSUME NEW a, IsNumber(a), NEW b, IsNumber(b)
    PROVE  Right(Plus(a, b)) /\ Right(Minus(a, b))
<1>1. a.twice \in Int /\ b.twice \in Int
    BY DEF IsNumber
<1>2. ASSUME IsInt(a), IsInt(b) PROVE (a.twice + b.twice) % 2 = 0 /\ (a.twice - b.twice) % 2 = 0
    <2>1. PICK v \in -HalfWords .. HalfWords - 1 : a.twice = 2 * v
        BY <1>2, IntValue
    <2>2. PICK w \in -HalfWords .. HalfWords - 1 : b.twice = 2 * w
        BY <1>2, IntValue
    <2>3. v \in Int /\ w \in Int /\ v + w \in Int /\ v - w \in Int
        BY Sizes
    <2>4. a.twice + b.twice = 2 * (v + w) /\ a.twice - b.twice = 2 * (v - w)
        BY <2>1, <2>2, <2>3
    <2>5. a.twice + b.twice \in Int /\ a.twice - b.twice \in Int
        BY <1>1
    <2> QED BY <2>3, <2>4, <2>5, WholeIs
<1> QED BY <1>1, <1>2, RightSum DEF Plus, Minus

(* int_mul, float_mul *)
LEMMA RightMul ==
    ASSUME NEW a, IsNumber(a), NEW b, IsNumber(b)
    PROVE  Right(Mul(a, b))
<1>1. a.twice \in Int /\ b.twice \in Int /\ a.twice * b.twice \in Int
    BY DEF IsNumber
<1>2. (a.twice * b.twice) \div 2 \in Int
    BY <1>1, DivIs
<1>3. ASSUME IsInt(a), IsInt(b) PROVE ((a.twice * b.twice) \div 2) % 2 = 0
    <2>1. PICK v \in -HalfWords .. HalfWords - 1 : a.twice = 2 * v
        BY <1>3, IntValue
    <2>2. PICK w \in -HalfWords .. HalfWords - 1 : b.twice = 2 * w
        BY <1>3, IntValue
    <2>3. v \in Int /\ w \in Int /\ v * w \in Int /\ 2 * (v * w) \in Int
        BY Sizes
    <2>4. a.twice * b.twice = 2 * (2 * (v * w))
        <3>1. a.twice * b.twice = (2 * v) * (2 * w)
            BY <2>1, <2>2
        <3>2. (2 * v) * (2 * w) = 2 * (2 * (v * w))
            BY <2>3
        <3> QED BY <3>1, <3>2
    <2>5. (a.twice * b.twice) \div 2 = 2 * (v * w)
        BY <1>1, <2>3, <2>4, WholeIs
    <2> QED BY <1>2, <2>3, <2>5, WholeIs
<1> QED BY <1>2, <1>3, RightSum DEF Mul

(* A quotient by 2 or more fits where what is divided is twice a value     *)
(* that does.                                                              *)
LEMMA QuotientFits ==
    ASSUME NEW h \in Nat, NEW a \in Int, NEW b \in Int, NEW q \in Int, b >= 2,
           \/ a = b * q /\ a \in -(2 * h) .. 2 * h - 1
           \/ 0 <= b * q /\ b * q <= a /\ a < 2 * h
    PROVE  q \in -h .. h - 1
<1>1. b * q \in Int
    OBVIOUS
<1>2. -(2 * h) <= b * q /\ b * q < 2 * h
    BY <1>1
<1>3. ASSUME q >= h PROVE FALSE
    <2>1. b * q >= 2 * q
        <3>1. b - 2 >= 0 /\ q >= 0 /\ (b - 2) * q = b * q - 2 * q
            BY <1>3
        <3>2. (b - 2) * q >= 0
            BY <3>1
        <3> QED BY <3>1, <3>2
    <2> QED BY <1>2, <1>3, <2>1
<1>4. ASSUME q < -h PROVE FALSE
    <2>1. b * q <= 2 * q
        <3>1. b - 2 >= 0 /\ -q >= 0 /\ (b - 2) * (-q) = 2 * q - b * q
            BY <1>4
        <3>2. (b - 2) * (-q) >= 0
            BY <3>1
        <3> QED BY <3>1, <3>2
    <2> QED BY <1>2, <1>4, <2>1
<1> QED BY <1>3, <1>4

(* Rounding towards zero is rounding down for a dividend that is not        *)
(* negative, and where nothing remains.                                    *)
LEMMA RoundedDown ==
    ASSUME NEW h \in Nat, NEW x \in -(2 * h) .. 2 * h - 1, NEW y \in Int, y >= 2,
           x >= 0 \/ Remainder(x, y) = 0
    PROVE  Quotient(x, y) = FloorDiv(x, y) /\ Quotient(x, y) \in -h .. h - 1
<1> DEFINE q == Quotient(x, y)
<1>1. q \in Int /\ x \in Int /\ y \in Int /\ y # 0
    BY QuotientIsInt
<1>2. FloorDiv(x, y) = x \div y
    BY DEF FloorDiv
<1>3. CASE x >= 0
    <2>1. q = x \div y
        BY <1>1, <1>3, QuotientIsDown
    <2>2. x = y * (x \div y) + (x % y) /\ x \div y \in Int /\ x % y \in Int /\ 0 <= x % y /\ x % y < y
        BY <1>1, DivIs
    <2> DEFINE r == x % y
    <2> HIDE DEF q, r
    <2>3. x = y * q + r /\ r \in Int /\ 0 <= r /\ r < y
        BY <2>1, <2>2 DEF r
    <2>4. y * q \in Int /\ y * q <= x
        BY <1>1, <2>3
    <2>5. ~ q < 0
        <3> SUFFICES ASSUME q < 0 PROVE FALSE
            OBVIOUS
        <3>1. y * q + y <= y * 0
            BY <1>1, MulGrows
        <3> QED BY <1>1, <1>3, <2>3, <2>4, <3>1
    <2>6. 0 <= y * q
        BY <1>1, <2>5
    <2>7. q \in -h .. h - 1
        BY <1>1, <2>4, <2>6, QuotientFits
    <2> QED BY <1>2, <2>1, <2>7 DEF q
<1>4. CASE Remainder(x, y) = 0
    <2>1. x = y * q
        <3>1. x - y * q = 0
            BY <1>4 DEF Remainder
        <3> HIDE DEF q
        <3> QED BY <1>1, <3>1
    <2> HIDE DEF q
    <2>2. x \div y = q
        <3>1. x = y * q + 0
            BY <1>1, <2>1
        <3> QED BY <1>1, <3>1, DivOnce
    <2>3. q \in -h .. h - 1
        BY <1>1, <2>1, QuotientFits
    <2> QED BY <1>2, <2>2, <2>3 DEF q
<1> QED BY <1>3, <1>4

(* int_floordiv, float_floordiv, with the divisor cast to uint32_t *)
LEMMA RightFloorDivision ==
    ASSUME NEW a, IsNumber(a), IsInt(a) \/ IsFloat(a), NEW b, IsNumber(b)
    PROVE  Right(FloorDivision(a, b))
<1> DEFINE d == DivideBy(b)
           g == FloorDivision(a, b)
           q == Quotient(a.twice, 2 * d)
<1>1. a.twice \in Int /\ b.twice \in Int
    BY DEF IsNumber
<1>2. Ints \in Int /\ Ints > 0 /\ HalfWords \in Nat /\ Ints <= HalfWords
    BY Sizes
<1>3. d \in Int
    <2>1. Trunc(b) \in Int
        BY <1>1, TruncIsInt
    <2> QED BY <1>2, <2>1, DivIs DEF DivideBy, Unsigned
<1>4. g.num = (IF d = 0 THEN a ELSE IntNum(q)) /\ g.meant = 2 * FloorDiv(a.twice, b.twice)
    BY DEF FloorDivision, Gives
<1>5. g.tame = (/\ Whole(b) /\ b.twice > 0 /\ FitsUnsigned(b.twice)
                /\ \/ a.twice >= 0 /\ (IsFloat(a) => FitsUnsigned(a.twice))
                   \/ IsInt(a) /\ Remainder(a.twice, b.twice) = 0)
    BY DEF FloorDivision, Gives
<1>6. IsNumber(g.num)
    <2>1. d # 0 => 2 * d \in Int /\ 2 * d # 0
        BY <1>3
    <2>2. d # 0 => q \in Int
        BY <1>1, <2>1, QuotientIsInt
    <2> HIDE DEF d, g, q
    <2> QED BY <1>4, <2>2, Made
<1>7. ASSUME g.tame PROVE g.num.twice = g.meant
    <2> DEFINE v == b.twice \div 2
    <2>1. b.twice % 2 = 0 /\ b.twice > 0 /\ b.twice < 2 * Ints
        BY <1>5, <1>7 DEF Whole, FitsUnsigned
    <2>2. v \in Int /\ b.twice = 2 * v
        BY <1>1, <2>1, WholeIs, DivIs
    <2> HIDE DEF v
    <2>3. v >= 1 /\ v < Ints /\ b.twice >= 2
        BY <1>2, <2>1, <2>2
    <2>4. d = v
        <3>1. Trunc(b) = v
            BY <1>1, <2>2, WholeIs DEF Trunc
        <3>2. v = Ints * 0 + v /\ 0 <= v
            BY <1>2, <2>2, <2>3
        <3>3. v % Ints = v
            BY <1>2, <2>2, <2>3, <3>2, DivOnce
        <3> QED BY <3>1, <3>3 DEF DivideBy, Unsigned
    <2>5. q = Quotient(a.twice, b.twice)
        BY <2>2, <2>4
    <2>6. /\ a.twice \in -(2 * HalfWords) .. 2 * HalfWords - 1
          /\ a.twice >= 0 \/ Remainder(a.twice, b.twice) = 0
        <3> HIDE DEF g
        <3>1. CASE IsInt(a)
            <4>1. PICK w \in -HalfWords .. HalfWords - 1 : a.twice = 2 * w
                BY <3>1, IntValue
            <4>2. a.twice \in -(2 * HalfWords) .. 2 * HalfWords - 1
                BY <1>2, <4>1
            <4> QED BY <1>5, <1>7, <4>2
        <3>2. CASE ~ IsInt(a)
            <4>1. 0 <= a.twice /\ a.twice < 2 * Ints
                BY <1>5, <1>7, <3>2 DEF FitsUnsigned
            <4> QED BY <1>1, <1>2, <4>1
        <3> QED BY <3>1, <3>2
    <2>7. q = FloorDiv(a.twice, b.twice) /\ q \in -HalfWords .. HalfWords - 1
        <3>1. /\ Quotient(a.twice, b.twice) = FloorDiv(a.twice, b.twice)
              /\ Quotient(a.twice, b.twice) \in -HalfWords .. HalfWords - 1
            BY <1>1, <1>2, <2>3, <2>6, RoundedDown
        <3> QED BY <2>5, <3>1
    <2> HIDE DEF d, g, q
    <2> QED BY <1>4, <2>3, <2>4, <2>7, Made
<1> QED BY <1>6, <1>7 DEF Right

(* What remains is 0 for Python where it is for C; for a positive dividend *)
(* it is the same, or off by a negative divisor.                           *)
LEMMA ModuloIs ==
    ASSUME NEW x \in Int, NEW y \in Int, y # 0
    PROVE  /\ Remainder(x, y) = 0 => Modulo(x, y) = 0
           /\ x > 0 /\ y > 0 => Modulo(x, y) = Remainder(x, y) /\ Remainder(x, y) \in 0 .. y - 1
           /\ x > 0 /\ y < 0 => /\ Remainder(x, y) \in 0 .. (-y) - 1
                                /\ Remainder(x, y) # 0 => Modulo(x, y) = Remainder(x, y) + y
<1> DEFINE q == Quotient(x, y)
           r == Remainder(x, y)
<1>1. q \in Int /\ r \in Int
    BY QuotientIsInt
<1>2. x = y * q + r
    <2>1. r = x - y * q
        BY DEF Remainder
    <2> HIDE DEF q, r
    <2> QED BY <1>1, <2>1
<1>3. ASSUME r = 0 PROVE Modulo(x, y) = 0
    <2> HIDE DEF q, r
    <2>1. FloorDiv(x, y) = q
        <3>1. CASE y > 0
            <4>1. x \div y = q
                BY <1>1, <1>2, <1>3, <3>1, DivOnce
            <4> QED BY <3>1, <4>1 DEF FloorDiv
        <3>2. CASE y < 0
            <4>1. -x = (-y) * q + 0 /\ -x \in Int /\ -y \in Int /\ -y > 0
                BY <1>1, <1>2, <1>3, <3>2
            <4>2. (-x) \div (-y) = q
                BY <1>1, <4>1, DivOnce
            <4> QED BY <3>2, <4>2 DEF FloorDiv
        <3> QED BY <3>1, <3>2
    <2> QED BY <1>1, <1>2, <1>3, <2>1 DEF Modulo
<1>4. ASSUME x > 0, y > 0 PROVE Modulo(x, y) = r /\ r \in 0 .. y - 1
    <2>1. q = x \div y /\ r = x % y
        BY <1>4, QuotientIsDown
    <2>2. FloorDiv(x, y) = q
        BY <1>4, <2>1 DEF FloorDiv
    <2>3. r \in 0 .. y - 1
        BY <1>4, <2>1, DivIs
    <2> HIDE DEF q, r
    <2> QED BY <1>1, <1>2, <2>2, <2>3 DEF Modulo
<1>5. ASSUME x > 0, y < 0 PROVE r \in 0 .. (-y) - 1 /\ (r # 0 => Modulo(x, y) = r + y)
    <2> DEFINE d == -y
    <2>1. d \in Int /\ d > 0 /\ y = -d
        BY <1>5
    <2>2. q = -(x \div d) /\ r = x % d
        BY <1>5, QuotientIsUp
    <2> HIDE DEF d, q
    <2>3. r \in 0 .. d - 1
        BY <2>1, <2>2, DivIs
    <2> HIDE DEF r
    <2>4. ASSUME r # 0 PROVE Modulo(x, y) = r + y
        <3>1. -x = d * (q - 1) + (d - r)
            <4>1. d * (q - 1) = d * q - d /\ y * q = -(d * q) /\ d * q \in Int
                BY <1>1, <2>1
            <4> QED BY <1>1, <1>2, <2>1, <4>1
        <3>2. -x \in Int /\ q - 1 \in Int /\ d - r \in Int /\ 0 <= d - r /\ d - r < d
            BY <1>1, <2>1, <2>3, <2>4
        <3>3. (-x) \div d = q - 1
            BY <2>1, <3>1, <3>2, DivOnce
        <3>4. FloorDiv(x, y) = q - 1
            BY <1>5, <3>3 DEF FloorDiv, d
        <3>5. Modulo(x, y) = x - y * (q - 1)
            BY <3>4 DEF Modulo
        <3> QED BY <1>1, <1>2, <3>5
    <2> QED BY <2>3, <2>4 DEF d
<1> QED BY <1>3, <1>4, <1>5

(* int_mod, float_mod *)
LEMMA RightMod ==
    ASSUME NEW a, IsNumber(a), IsInt(a) \/ IsFloat(a), NEW b, IsNumber(b), b.twice # 0
    PROVE  Right(Mod(a, b))
<1> DEFINE x == a.twice
           y == b.twice
           r == Remainder(x, y)
           t == IF IsInt(a) /\ y < 0 /\ r # 0 THEN r + y ELSE r
           g == Mod(a, b)
<1>1. x \in Int /\ y \in Int /\ y # 0
    BY DEF IsNumber
<1>2. /\ g.num = (IF IsInt(a) /\ IsInt(b) THEN IntNum(t \div 2) ELSE FloatNum(t))
      /\ g.meant = Modulo(x, y)
      /\ g.tame => r = 0 \/ (x > 0 /\ (y > 0 \/ IsInt(a)))
    BY DEF Mod, Gives
<1> HIDE DEF x, y, g
<1>3. r \in Int /\ Quotient(x, y) \in Int
    BY <1>1, QuotientIsInt
<1>4. t \in Int
    BY <1>1, <1>3
<1>5. IsNumber(g.num)
    BY <1>2, <1>4, DivIs, Made
<1>6. ASSUME g.tame PROVE t = Modulo(x, y)
    <2> HIDE DEF r
    <2>1. CASE r = 0
        BY <1>1, <2>1, ModuloIs DEF r
    <2>2. CASE r # 0 /\ x > 0 /\ y > 0
        BY <1>1, <2>2, ModuloIs DEF r
    <2>3. CASE r # 0 /\ x > 0 /\ y < 0 /\ IsInt(a)
        BY <1>1, <2>3, ModuloIs DEF r
    <2>4. r = 0 \/ (x > 0 /\ (y > 0 \/ IsInt(a)))
        BY <1>2, <1>6 DEF r
    <2> HIDE DEF t
    <2> QED BY <1>1, <2>1, <2>2, <2>3, <2>4
<1>7. ASSUME g.tame, IsInt(a), IsInt(b) PROVE t % 2 = 0 /\ t \div 2 \in -HalfWords .. HalfWords - 1
    <2>1. PICK v \in -HalfWords .. HalfWords - 1 : x = 2 * v
        BY <1>7, IntValue DEF x
    <2>2. PICK w \in -HalfWords .. HalfWords - 1 : y = 2 * w
        BY <1>7, IntValue DEF y
    <2>3. HalfWords \in Nat /\ v \in Int /\ w \in Int
        BY Sizes
    <2> DEFINE q == Quotient(x, y)
               u == v - w * q
    <2>4. r = x - y * q
        BY DEF Remainder
    <2> HIDE DEF r, q
    <2>5. r = 2 * u /\ u \in Int /\ w * q \in Int
        BY <1>3, <2>1, <2>2, <2>3, <2>4 DEF q
    <2> HIDE DEF u
    <2>6. r = 0 \/ (y > 0 /\ r \in 0 .. y - 1) \/ (y < 0 /\ r \in 0 .. (-y) - 1)
        <3>1. r = 0 \/ x > 0
            BY <1>2, <1>7 DEF r
        <3>2. x > 0 /\ y > 0 => r \in 0 .. y - 1
            BY <1>1, ModuloIs DEF r
        <3>3. x > 0 /\ y < 0 => r \in 0 .. (-y) - 1
            BY <1>1, ModuloIs DEF r
        <3> QED BY <1>1, <3>1, <3>2, <3>3
    <2>7. \E c \in -HalfWords .. HalfWords - 1 : t = 2 * c
        <3>1. CASE r = 0
            <4>1. t = 2 * 0 /\ 0 \in -HalfWords .. HalfWords - 1
                BY <1>7, <2>3, <3>1, Sizes
            <4> QED BY <4>1
        <3>2. CASE r # 0 /\ y > 0
            <4>1. t = 2 * u /\ u \in -HalfWords .. HalfWords - 1
                BY <1>1, <2>2, <2>3, <2>5, <2>6, <3>2
            <4> QED BY <4>1
        <3>3. CASE r # 0 /\ y < 0
            <4>1. t = 2 * (u + w) /\ u + w \in -HalfWords .. HalfWords - 1
                BY <1>1, <1>7, <2>2, <2>3, <2>5, <2>6, <3>3
            <4> QED BY <4>1
        <3> QED BY <1>1, <3>1, <3>2, <3>3
    <2> HIDE DEF t
    <2> QED BY <2>3, <2>7, <1>4, WholeIs
<1>8. ASSUME g.tame PROVE g.num.twice = g.meant
    <2> HIDE DEF t
    <2>1. CASE IsInt(a) /\ IsInt(b)
        <3>1. 2 * (t \div 2) = t
            BY <1>4, <1>7, <1>8, <2>1, WholeIs
        <3> QED BY <1>2, <1>6, <1>7, <1>8, <2>1, <3>1, Made
    <2>2. CASE ~(IsInt(a) /\ IsInt(b))
        BY <1>2, <1>4, <1>6, <1>8, <2>2, Made
    <2> QED BY <2>1, <2>2
<1> QED BY <1>5, <1>8 DEF Right, g

(* int_div, float_div *)
LEMMA RightDivide ==
    ASSUME NEW a, IsNumber(a), NEW b, IsNumber(b), b.twice # 0
    PROVE  Right(Divide(a, b))
<1> DEFINE x == 2 * a.twice
           y == b.twice
<1>1. x \in Int /\ y \in Int /\ y # 0
    BY DEF IsNumber
<1> HIDE DEF x, y
<1>2. Quotient(x, y) \in Int
    BY <1>1, QuotientIsInt
<1>3. Divide(a, b) = Gives(FloatNum(Quotient(x, y)), Quotient(x, y), TRUE)
    BY DEF Divide, x, y
<1> QED BY <1>2, <1>3, Made DEF Right, Gives

(* The int of a value, which is right where it fits a word. *)
LEMMA RightValue ==
    ASSUME NEW v \in Int
    PROVE  /\ Right(Gives(IntNum(v), 2 * v, FitsWord(v)))
           /\ v \in -HalfWords .. HalfWords - 1 => IntNum(v).twice = 2 * v
<1>1. FitsWord(v) => IntNum(v).twice = 2 * v
    BY WordIs, Made
<1> QED BY <1>1, Made DEF Right, Gives

(* int_pow, int_bitls, int_bitrs *)
LEMMA RightShifting ==
    ASSUME NEW a, IsNumber(a), IsInt(a), NEW b, IsNumber(b), Trunc(b) \in 0 .. MaxCount
    PROVE  Right(Power(a, b)) /\ Right(LeftShift(a, b)) /\ Right(RightShift(a, b))
<1> DEFINE n == Trunc(b)
           p == Pow(2, n)
<1>1. n \in Nat
    BY NumberAssumption
<1>2. PICK v \in -HalfWords .. HalfWords - 1 : Trunc(a) = v
    BY IntValue
<1>3. v \in Int /\ HalfWords \in Nat
    BY Sizes
<1>4. Pow(v, n) \in Int
    BY <1>1, <1>3, PowIs
<1>5. p \in Int /\ 1 <= p
    BY <1>1, PowGrows
<1> HIDE DEF n, p
<1>6. Right(Power(a, b))
    BY <1>2, <1>4, RightValue DEF Power, n
<1>7. Right(LeftShift(a, b))
    <2>1. v * p \in Int
        BY <1>3, <1>5
    <2> QED BY <1>2, <2>1, RightValue DEF LeftShift, n, p
<1>8. Right(RightShift(a, b))
    <2> DEFINE q == v \div p
               r == v % p
    <2>1. q \in Int /\ r \in Int /\ v = p * q + r /\ 0 <= r /\ r < p
        BY <1>3, <1>5, DivIs
    <2>2. RightShift(a, b) = Gives(IntNum(q), 2 * q, TRUE)
        BY <1>2 DEF RightShift, n, p
    <2> HIDE DEF q, r
    <2>3. q < HalfWords
        <3> SUFFICES ASSUME q >= HalfWords PROVE FALSE
            BY <1>3, <2>1
        <3>1. (p - 1) * q >= 0 /\ (p - 1) * q = p * q - q
            BY <1>3, <1>5, <2>1
        <3> QED BY <1>3, <1>5, <2>1, <3>1
    <2>4. q >= -HalfWords
        <3> SUFFICES ASSUME q < -HalfWords PROVE FALSE
            BY <1>3, <2>1
        <3>1. p * q + p <= p * (-HalfWords)
            BY <1>3, <1>5, <2>1, MulGrows
        <3>2. p * HalfWords >= HalfWords
            <4>1. (p - 1) * HalfWords >= 0 /\ (p - 1) * HalfWords = p * HalfWords - HalfWords
                BY <1>3, <1>5
            <4> QED BY <1>3, <1>5, <4>1
        <3>3. p * (-HalfWords) = -(p * HalfWords) /\ p * HalfWords \in Int /\ p * q \in Int
            BY <1>3, <1>5, <2>1
        <3> QED BY <1>3, <1>5, <2>1, <3>1, <3>2, <3>3
    <2>5. q \in -HalfWords .. HalfWords - 1
        BY <1>3, <2>1, <2>3, <2>4
    <2> QED BY <2>1, <2>2, <2>5, Made DEF Right, Gives
<1> QED BY <1>6, <1>7, <1>8

(* The unary operators, by way of abs() *)
LEMMA RightUnary ==
    ASSUME NEW a, IsNumber(a)
    PROVE  Right(Positive(a)) /\ Right(Negative(a)) /\ (IsInt(a) => Right(BitNot(a)))
<1>1. a.twice \in Int
    BY DEF IsNumber
<1>2. CASE IsInt(a)
    <2>1. PICK v \in -HalfWords .. HalfWords - 1 : a.twice = 2 * v /\ Trunc(a) = v
        BY <1>2, IntValue
    <2>2. v \in Int /\ HalfWords \in Nat /\ Ints <= HalfWords /\ HalfInts \in Nat /\ Ints = 2 * HalfInts
        BY Sizes
    <2> DEFINE c == CAbs(v)   k == KeptByAbs(v)   w == Signed(-c, Ints)
    <2>3. c \in -HalfInts .. HalfInts - 1 /\ (k => c = v /\ v >= 0)
        BY <2>2, CAbsIs DEF KeptByAbs
    <2> HIDE DEF c, k
    <2>a. -c \in Int /\ (k => -c \in -HalfInts .. HalfInts - 1)
        BY <2>2, <2>3
    <2>b. w \in -HalfInts .. HalfInts - 1 /\ (k => w = -v)
        BY <2>3, <2>a, IntIs
    <2> HIDE DEF w
    <2>4. c \in Int /\ w \in -HalfWords .. HalfWords - 1 /\ -v - 1 \in -HalfWords .. HalfWords - 1
        BY <2>2, <2>3, <2>b
    <2>c. w \in Int
        BY <2>2, <2>4
    <2>5. IsNumber(IntNum(c)) /\ IsNumber(IntNum(w)) /\ IntNum(w).twice = 2 * w
        BY <2>4, <2>c, Made
    <2>6. k => IntNum(c).twice = 2 * v
        BY <2>1, <2>3, Made
    <2>7. Positive(a) = Gives(IntNum(c), a.twice, k) /\ Negative(a) = Gives(IntNum(w), -a.twice, k)
        BY <1>2, <2>1 DEF Positive, Negative, c, k, w
    <2>8. BitNot(a) = Gives(IntNum(-v - 1), -a.twice - 2, TRUE)
        BY <2>1 DEF BitNot
    <2>9. IsNumber(IntNum(-v - 1)) /\ IntNum(-v - 1).twice = -a.twice - 2
        <3> DEFINE flipped == -v - 1
        <3>1. flipped \in Int /\ 2 * flipped = -a.twice - 2
            BY <2>1, <2>2
        <3> HIDE DEF flipped
        <3>2. IsNumber(IntNum(flipped)) /\ IntNum(flipped).twice = 2 * flipped
            BY <2>4, <3>1, Made DEF flipped
        <3> QED BY <3>1, <3>2 DEF flipped
    <2>10. Right(Positive(a))
        <3>1. k => IntNum(c).twice = a.twice
            BY <2>1, <2>6
        <3>2. Right(Gives(IntNum(c), a.twice, k))
            BY <2>5, <3>1, RightGives
        <3> QED BY <2>7, <3>2
    <2>11. Right(Negative(a))
        <3>1. k => 2 * w = -a.twice
            BY <2>1, <2>2, <2>b
        <3>2. k => IntNum(w).twice = -a.twice
            BY <2>5, <3>1
        <3>3. Right(Gives(IntNum(w), -a.twice, k))
            BY <2>5, <3>2, RightGives
        <3> QED BY <2>7, <3>3
    <2>12. Right(BitNot(a))
        BY <2>8, <2>9 DEF Right, Gives
    <2> QED BY <2>10, <2>11, <2>12
<1>3. CASE ~IsInt(a)
    <2> DEFINE m == Magnitude(a.twice)
    <2>1. m \in Int /\ -m \in Int /\ (a.twice >= 0 => m = a.twice)
        BY <1>1 DEF Magnitude
    <2> HIDE DEF m
    <2>2. Positive(a) = Gives(FloatNum(m), a.twice, a.twice >= 0) /\ Negative(a) = Gives(FloatNum(-m), -a.twice, a.twice >= 0)
        BY <1>3 DEF Positive, Negative, m
    <2>3. a.twice >= 0 => FloatNum(m).twice = a.twice /\ FloatNum(-m).twice = -a.twice
        BY <2>1, Made
    <2>4. IsNumber(FloatNum(m)) /\ IsNumber(FloatNum(-m))
        BY <2>1, Made
    <2>5. Right(Gives(FloatNum(m), a.twice, a.twice >= 0))
        BY <2>3, <2>4, RightGives
    <2>6. Right(Gives(FloatNum(-m), -a.twice, a.twice >= 0))
        BY <2>3, <2>4, RightGives
    <2> QED BY <1>3, <2>2, <2>5, <2>6
<1> QED BY <1>2, <1>3

-----------------------------------------------------------------------------
(* The machine *)

(* Both numbers are numbers, and the accumulator is what it should be where *)
(* every operation was tame.                                               *)
NumberInv ==
    /\ IsNumber(acc) /\ oper \in Operands
    /\ exact => acc.twice = meant

(* Operands are numbers. *)
LEMMA BeginsRight == NumberInit => NumberInv
BY OperandsAssumption DEF NumberInit, NumberInv

(* An operation that is right keeps the invariant. *)
LEMMA ComputesRight ==
    ASSUME NEW g, Right(g), Compute(g)
    PROVE  NumberInv'
<1>1. acc' = g.num /\ meant' = g.meant /\ exact' = g.tame /\ oper' \in Operands
    BY DEF Compute
<1>2. IsNumber(acc')
    BY <1>1 DEF Right
<1>3. exact' => acc'.twice = meant'
    BY <1>1 DEF Right
<1> QED BY <1>1, <1>2, <1>3 DEF NumberInv, IsNumber, IsInt, Whole, FitsWord, Signed, Words, Pow

(* Every operation is right. *)
LEMMA StaysRight == NumberInv /\ [NumberNext]_nvars => NumberInv'
<1> SUFFICES ASSUME NumberInv, [NumberNext]_nvars PROVE NumberInv'
    OBVIOUS
<1>1. IsNumber(acc) /\ IsNumber(oper)
    BY OperandsAssumption DEF NumberInv
<1>2. ASSUME OfInt \/ OfFloat PROVE NumberInv'
    <2>1. IsInt(acc) \/ IsFloat(acc)
        BY <1>2 DEF OfInt, OfFloat
    <2>2. Arithmetic
        BY <1>2 DEF OfInt, OfFloat
    <2>3. CASE Compute(Plus(acc, oper)) \/ Compute(Minus(acc, oper))
        BY <1>1, <2>3, RightPlusMinus, ComputesRight
    <2>4. CASE Compute(Mul(acc, oper))
        BY <1>1, <2>4, RightMul, ComputesRight
    <2>5. CASE oper.twice # 0 /\ Compute(FloorDivision(acc, oper))
        BY <1>1, <2>1, <2>5, RightFloorDivision, ComputesRight
    <2>6. CASE oper.twice # 0 /\ Compute(Mod(acc, oper))
        BY <1>1, <2>1, <2>6, RightMod, ComputesRight
    <2>7. CASE oper.twice # 0 /\ Compute(Divide(acc, oper))
        BY <1>1, <2>7, RightDivide, ComputesRight
    <2> QED BY <2>2, <2>3, <2>4, <2>5, <2>6, <2>7 DEF Arithmetic
<1>3. CASE Shifting
    <2>1. IsInt(acc) /\ Trunc(oper) \in 0 .. MaxCount
        BY <1>3 DEF Shifting
    <2>2. Right(Power(acc, oper)) /\ Right(LeftShift(acc, oper)) /\ Right(RightShift(acc, oper))
        BY <1>1, <2>1, RightShifting
    <2> QED BY <1>3, <2>2, ComputesRight DEF Shifting
<1>4. CASE Unary
    <2>1. Right(Positive(acc)) /\ Right(Negative(acc)) /\ (IsInt(acc) => Right(BitNot(acc)))
        BY <1>1, RightUnary
    <2> QED BY <1>4, <2>1, ComputesRight DEF Unary
<1>5. CASE UNCHANGED nvars
    BY <1>5 DEF NumberInv, nvars, IsNumber
<1> QED BY <1>2, <1>3, <1>4, <1>5 DEF NumberNext

-----------------------------------------------------------------------------
(* Equality and hash *)
LEMMA EqualsHashEqual == NumberInv => EqualNumbersHashEqual
<1> SUFFICES ASSUME NumberInv, Compare(acc, oper) = 0, FitsUnsigned(acc.twice)
             PROVE  NumEq(acc, oper) /\ NumHash(acc) = NumHash(oper)
    BY DEF EqualNumbersHashEqual
<1>1. IsNumber(acc) /\ IsNumber(oper) /\ acc.twice \in Int /\ oper.twice \in Int
    BY OperandsAssumption DEF NumberInv, IsNumber
<1>2. acc.twice = oper.twice
    BY <1>1 DEF Compare
<1>3. Trunc(acc) = Trunc(oper) /\ (Whole(acc) <=> Whole(oper)) /\ FitsUnsigned(oper.twice)
    BY <1>2 DEF Trunc, Whole
<1>4. ASSUME NEW x, IsNumber(x), ~Whole(x) PROVE IsFloat(x)
    <2>1. x.kind \in {"int", "float", "bool"} /\ ~IsInt(x)
        BY <1>4 DEF IsNumber
    <2>2. x.kind # "bool"
        <3>1. 0 % 2 = 0 /\ 2 % 2 = 0
            OBVIOUS
        <3> QED BY <1>4, <3>1 DEF IsNumber, Whole
    <2> QED BY <2>1, <2>2 DEF IsInt, IsFloat
<1>7. NumEq(acc, oper)
    BY <1>2 DEF NumEq
<1>5. CASE Whole(acc)
    BY <1>3, <1>5, <1>7 DEF NumHash
<1>6. CASE ~Whole(acc)
    <2>1. IsFloat(acc) /\ IsFloat(oper)
        BY <1>1, <1>3, <1>4, <1>6
    <2> QED BY <1>2, <1>3, <1>6, <1>7, <2>1 DEF NumHash
<1> QED BY <1>5, <1>6

-----------------------------------------------------------------------------
(* Reading what was printed *)
LEMMA PowBase ==
    ASSUME NEW x \in Int, x >= 2, NEW k \in Nat
    PROVE  Pow(2, k) <= Pow(x, k)
<1> DEFINE T == {j \in Nat : ~(Pow(2, j) <= Pow(x, j))}
<1>1. ASSUME T # {} PROVE FALSE
    <2>1. T \in SUBSET Nat
        OBVIOUS
    <2>2. PICK j \in T : \A i \in T : j <= i
        BY <1>1, <2>1, LeastOf
    <2>3. j # 0
        BY <2>2, PowIs
    <2>4. j - 1 \in Nat /\ j - 1 \notin T /\ (j - 1) + 1 = j
        BY <2>2, <2>3
    <2> DEFINE p == Pow(2, j - 1)
               q == Pow(x, j - 1)
    <2>5. p \in Int /\ q \in Int /\ p <= q /\ Pow(2, j) = 2 * p /\ Pow(x, j) = x * q /\ 1 <= q
        <3>1. 1 <= q
            BY <2>4, PowGrows
        <3> QED BY <2>4, <3>1, PowIs
    <2> HIDE DEF p, q
    <2>6. 2 * q <= x * q
        <3>1. (x - 2) * q >= 0 /\ (x - 2) * q = x * q - 2 * q
            BY <2>5
        <3> QED BY <2>5, <3>1
    <2> QED BY <2>2, <2>5, <2>6
<1> QED BY <1>1

(* A number that fits a C int has a number of digits. *)
LEMMA DigitsAre ==
    ASSUME NEW n \in Nat, n < Ints
    PROVE  Digits[n] \in 1 .. WordBits /\ n < Pow(Radix, Digits[n])
<1> DEFINE T == {k \in 1 .. WordBits : n < Pow(Radix, k)}
<1>1. WordBits \in Nat /\ IntBits \in Nat /\ IntBits \in 1 .. WordBits /\ Radix \in Int /\ Radix >= 2
    BY NumberAssumption
<1>2. IntBits \in T
    <2>1. Pow(2, IntBits) <= Pow(Radix, IntBits) /\ Pow(Radix, IntBits) \in Int /\ Pow(2, IntBits) \in Int
        <3>1. Pow(2, IntBits) <= Pow(Radix, IntBits)
            BY <1>1, PowBase
        <3>2. Pow(Radix, IntBits) \in Int
            BY <1>1, PowIs
        <3>3. Pow(2, IntBits) \in Int
            BY <1>1, PowIs
        <3> QED BY <3>1, <3>2, <3>3
    <2> HIDE DEF T
    <2>2. n < Pow(Radix, IntBits)
        BY <2>1 DEF Ints
    <2> QED BY <1>1, <2>2 DEF T
<1>3. T \in SUBSET Nat
    BY <1>1
<1>4. PICK k \in T : \A j \in T : k <= j
    BY <1>2, <1>3, LeastOf
<1>5. k > 1 => n >= Pow(Radix, k - 1)
    <2> SUFFICES ASSUME k > 1 PROVE n >= Pow(Radix, k - 1)
        OBVIOUS
    <2>1. k - 1 \in 1 .. WordBits /\ k - 1 \in Nat /\ k - 1 \notin T
        BY <1>1, <1>4
    <2>2. Pow(Radix, k - 1) \in Int
        BY <1>1, <2>1, PowIs
    <2> QED BY <2>1, <2>2
<1>6. \E j \in 1 .. WordBits : n < Pow(Radix, j) /\ (j > 1 => n >= Pow(Radix, j - 1))
    BY <1>4, <1>5
<1>7. Digits[n] = CHOOSE j \in 1 .. WordBits : n < Pow(Radix, j) /\ (j > 1 => n >= Pow(Radix, j - 1))
    BY DEF Digits
<1> QED BY <1>6, <1>7

(* The digits of n, of d of them *)
DigitsOf(n, d) == [i \in 1 .. d |-> (n \div Pow(Radix, d - i)) % Radix]

(* The numeral of a number, without its sign, is made of its digits. *)
LEMMA TextIs ==
    ASSUME NEW v \in Int, v # 0, CAbs(v) \in Nat, CAbs(v) # 0, CAbs(v) < Ints
    PROVE  (IF v < 0 THEN Tail(Text(v)) ELSE Text(v)) = DigitsOf(CAbs(v), Digits[CAbs(v)])
<1> DEFINE n == CAbs(v)
           d == Digits[n]
           len == d + IF v < 0 /\ n # 0 THEN 1 ELSE 0
<1>1. d \in Nat /\ d >= 1
    BY DigitsAre, NumberAssumption
<1>a. ~(n < 0)
    OBVIOUS
<1>2. Text(v) = [i \in 1 .. len |-> IF len - i < d THEN (n \div Pow(Radix, len - i)) % Radix ELSE Sign]
    BY <1>a DEF Text
<1> HIDE DEF n, d
<1>3. CASE ~ v < 0
    <2>1. len = d
        BY <1>1, <1>3
    <2>2. ASSUME NEW i \in 1 .. d PROVE d - i < d
        BY <1>1
    <2>3. Text(v) = [i \in 1 .. d |-> IF d - i < d THEN (n \div Pow(Radix, d - i)) % Radix ELSE Sign]
        BY <1>2, <2>1
    <2>4. Text(v) = DigitsOf(n, d)
        BY <2>2, <2>3 DEF DigitsOf
    <2> QED BY <1>3, <2>4 DEF n, d
<1>4. CASE v < 0
    <2>1. len = d + 1
        BY <1>1, <1>4 DEF n
    <2>2. Text(v) = [i \in 1 .. d + 1 |-> IF (d + 1) - i < d THEN (n \div Pow(Radix, (d + 1) - i)) % Radix ELSE Sign]
        BY <1>2, <2>1
    <2> DEFINE s == Text(v)
    <2> DEFINE S == {s[i] : i \in 1 .. d + 1}
    <2>3. s \in [1 .. d + 1 -> S]
        BY <2>2
    <2> HIDE DEF s
    <2>4. s \in Seq(S) /\ Len(s) = d + 1
        <3>1. d + 1 \in Nat
            BY <1>1
        <3>2. s \in Seq(S)
            BY <2>3, <3>1, SeqDef
        <3>3. Len(s) \in Nat /\ 1 .. Len(s) = 1 .. d + 1
            BY <2>3, <3>2, LenProperties
        <3> QED BY <3>1, <3>2, <3>3
    <2> HIDE DEF S
    <2>6. Tail(s) = [i \in 1 .. d |-> s[i + 1]]
        <3>1. s # <<>>
            BY <1>1, <2>4
        <3>2. Tail(s) \in Seq(S) /\ Len(Tail(s)) = d /\ \A i \in 1 .. d : Tail(s)[i] = s[i + 1]
            BY <1>1, <2>4, <3>1, HeadTailProperties
        <3>3. Tail(s) \in [1 .. d -> S]
            BY <3>2, LenProperties
        <3> QED BY <3>2, <3>3
    <2>7. ASSUME NEW i \in 1 .. d PROVE s[i + 1] = (n \div Pow(Radix, d - i)) % Radix
        <3>1. i + 1 \in 1 .. d + 1 /\ (d + 1) - (i + 1) = d - i /\ d - i < d
            BY <1>1
        <3> QED BY <2>2, <3>1 DEF s
    <2>8. Tail(s) = DigitsOf(n, d)
        BY <2>6, <2>7 DEF DigitsOf
    <2> QED BY <1>4, <2>8 DEF n, d, s
<1> QED BY <1>3, <1>4

(* After i of d digits of n: what they are worth, and the weight of the    *)
(* next one                                                                *)
ReadOf(n, d) ==
    [i \in 0 .. d |->
        [ret |-> (n \div Pow(Radix, d - i)) * Pow(Radix, d - i),
         val |-> IF i < d THEN Pow(Radix, d - 1 - i) ELSE 0]]

(* That is what the loop of _read_x_int computes: the first i digits are   *)
(* worth what is left of n without the others.                             *)
LEMMA ReadOfIs ==
    ASSUME NEW d \in Nat, d >= 1, NEW n \in Nat, n < Pow(Radix, d)
    PROVE  /\ ReadOf(n, d)[0] = [ret |-> 0, val |-> Pow(Radix, d - 1)]
           /\ \A i \in 1 .. d :
                  ReadOf(n, d)[i] = [ret |-> ReadOf(n, d)[i - 1].ret + DigitsOf(n, d)[i] * ReadOf(n, d)[i - 1].val,
                                     val |-> ReadOf(n, d)[i - 1].val \div Radix]
           /\ ReadOf(n, d)[d].ret = n
<1>0. Radix \in Int /\ Radix > 1
    BY NumberAssumption
<1>1. ReadOf(n, d)[0] = [ret |-> 0, val |-> Pow(Radix, d - 1)]
    <2> DEFINE p == Pow(Radix, d)
    <2>1. p \in Int /\ 1 <= p
        BY <1>0, PowGrows
    <2>2. n = p * 0 + n /\ n < p
        BY <2>1
    <2> HIDE DEF p
    <2>3. n \div p = 0
        BY <2>1, <2>2, DivOnce
    <2>4. (n \div p) * p = 0
        BY <2>1, <2>3
    <2>5. ReadOf(n, d)[0] = [ret |-> (n \div Pow(Radix, d - 0)) * Pow(Radix, d - 0),
                            val |-> IF 0 < d THEN Pow(Radix, d - 1 - 0) ELSE 0]
        BY DEF ReadOf
    <2>6. d - 0 = d /\ d - 1 - 0 = d - 1 /\ 0 < d
        OBVIOUS
    <2> QED BY <2>4, <2>5, <2>6 DEF p
<1>2. ASSUME NEW i \in 1 .. d
      PROVE  ReadOf(n, d)[i] = [ret |-> ReadOf(n, d)[i - 1].ret + DigitsOf(n, d)[i] * ReadOf(n, d)[i - 1].val,
                                val |-> ReadOf(n, d)[i - 1].val \div Radix]
    <2> DEFINE e == d - i
               p == Pow(Radix, e)
               q == n \div p
               t == q \div Radix
               r == q % Radix
    <2>1. e \in Nat /\ d - (i - 1) = e + 1 /\ d - 1 - (i - 1) = e /\ i - 1 < d /\ i - 1 \in 0 .. d /\ i \in 0 .. d
        OBVIOUS
    <2>2. p \in Int /\ 1 <= p /\ Pow(Radix, e + 1) = Radix * p
        <3>1. 1 <= p
            BY <1>0, <2>1, PowGrows
        <3> QED BY <1>0, <2>1, <3>1, PowIs
    <2>3. ReadOf(n, d)[i - 1] = [ret |-> (n \div (Radix * p)) * (Radix * p), val |-> p]
        <3>1. ReadOf(n, d)[i - 1] = [ret |-> (n \div Pow(Radix, d - (i - 1))) * Pow(Radix, d - (i - 1)),
                                    val |-> IF i - 1 < d THEN Pow(Radix, d - 1 - (i - 1)) ELSE 0]
            BY <2>1 DEF ReadOf
        <3> HIDE DEF e
        <3> QED BY <2>1, <2>2, <3>1
    <2>4. ReadOf(n, d)[i] = [ret |-> q * p, val |-> IF i < d THEN Pow(Radix, d - 1 - i) ELSE 0]
        BY <2>1 DEF ReadOf
    <2>5. DigitsOf(n, d)[i] = r
        BY DEF DigitsOf
    <2> HIDE DEF e, p
    <2>6. q \in Int /\ n \div (Radix * p) = t
        BY <1>0, <2>2, DivIs, DivTwice
    <2> HIDE DEF q
    <2>7. t \in Int /\ r \in Int /\ q = Radix * t + r
        BY <1>0, <2>6, DivIs
    <2> HIDE DEF t, r
    <2>8. t * (Radix * p) + r * p = q * p
        <3>1. t * (Radix * p) = (Radix * t) * p
            BY <1>0, <2>2, <2>7
        <3>2. (Radix * t) * p + r * p = (Radix * t + r) * p
            BY <1>0, <2>2, <2>7
        <3> QED BY <2>7, <3>1, <3>2
    <2>9. p \div Radix = IF i < d THEN Pow(Radix, d - 1 - i) ELSE 0
        <3>1. CASE i < d
            <4> DEFINE u == Pow(Radix, d - 1 - i)
            <4>1. d - 1 - i \in Nat /\ (d - 1 - i) + 1 = e
                BY <3>1 DEF e
            <4>2. u \in Int /\ p = Radix * u
                BY <1>0, <4>1, PowIs DEF p
            <4> HIDE DEF u
            <4>3. p = Radix * u + 0
                BY <1>0, <4>2
            <4>4. p \div Radix = u
                BY <1>0, <2>2, <4>2, <4>3, DivOnce
            <4> QED BY <3>1, <4>4 DEF u
        <3>2. CASE ~ i < d
            <4>1. e = 0
                BY <3>2 DEF e
            <4>2. p = 1
                BY <1>0, <4>1, PowIs DEF p
            <4>3. 1 = Radix * 0 + 1
                BY <1>0
            <4>4. 1 \div Radix = 0
                BY <1>0, <4>3, DivOnce
            <4> QED BY <3>2, <4>2, <4>4
        <3> QED BY <3>1, <3>2
    <2>10. ReadOf(n, d)[i - 1].ret = t * (Radix * p) /\ ReadOf(n, d)[i - 1].val = p
        BY <2>3, <2>6
    <2> QED BY <2>4, <2>5, <2>8, <2>9, <2>10
<1>3. ReadOf(n, d)[d].ret = n
    <2>1. ReadOf(n, d)[d].ret = (n \div Pow(Radix, d - d)) * Pow(Radix, d - d)
        BY DEF ReadOf
    <2>2. Pow(Radix, d - d) = 1
        <3>1. d - d = 0
            OBVIOUS
        <3> QED BY <1>0, <3>1, PowIs
    <2>3. n \div 1 = n
        <3>1. n = 1 * n + 0
            OBVIOUS
        <3> QED BY <3>1, DivOnce
    <2> QED BY <2>1, <2>2, <2>3
<1> QED BY <1>1, <1>2, <1>3

(* The digits of a number read as the number. *)
LEMMA ReadDigits ==
    ASSUME NEW d \in Nat, d >= 1, NEW n \in Nat, n < Pow(Radix, d)
    PROVE  ReadInt(DigitsOf(n, d)) = n
<1> DEFINE s == DigitsOf(n, d)
           g == ReadOf(n, d)
           IsRead(f) == f = [i \in 0 .. d |->
               IF i = 0 THEN [ret |-> 0, val |-> Pow(Radix, d - 1)]
               ELSE [ret |-> f[i - 1].ret + s[i] * f[i - 1].val, val |-> f[i - 1].val \div Radix]]
           read == CHOOSE f : IsRead(f)
<1>1. Len(s) = d
    <2>1. s \in [1 .. d -> {s[i] : i \in 1 .. d}]
        BY DEF DigitsOf
    <2> DEFINE S == {s[i] : i \in 1 .. d}
    <2> HIDE DEF s, S
    <2>2. s \in [1 .. d -> S] /\ s \in Seq(S)
        BY <2>1, SeqDef DEF S
    <2>3. Len(s) \in Nat /\ 1 .. Len(s) = 1 .. d
        BY <2>2, LenProperties
    <2> QED BY <2>3
<1>2. ReadInt(s) = read[d].ret
    <2>1. Len(s) # 0
        BY <1>1
    <2> HIDE DEF s
    <2> QED BY <1>1, <2>1 DEF ReadInt
<1>3. g[0] = [ret |-> 0, val |-> Pow(Radix, d - 1)] /\ g[d].ret = n
    BY ReadOfIs
<1>4. \A i \in 1 .. d : g[i] = [ret |-> g[i - 1].ret + s[i] * g[i - 1].val, val |-> g[i - 1].val \div Radix]
    BY ReadOfIs
<1>5. DOMAIN g = 0 .. d /\ g = [i \in 0 .. d |-> g[i]]
    BY DEF ReadOf
<1> HIDE DEF g, s
<1>6. IsRead(g)
    <2>1. \A i \in 0 .. d : i = 0 \/ i \in 1 .. d
        OBVIOUS
    <2>2. \A i \in 0 .. d :
            g[i] = IF i = 0 THEN [ret |-> 0, val |-> Pow(Radix, d - 1)]
                   ELSE [ret |-> g[i - 1].ret + s[i] * g[i - 1].val, val |-> g[i - 1].val \div Radix]
        BY <1>3, <1>4, <2>1
    <2> QED BY <1>5, <2>2
<1>7. IsRead(read)
    <2> HIDE DEF IsRead
    <2> QED BY <1>6
<1> HIDE DEF read
<1> DEFINE T == {k \in 0 .. d : read[k] # g[k]}
<1>8. ASSUME T # {} PROVE FALSE
    <2>1. T \in SUBSET Nat
        OBVIOUS
    <2>2. PICK k \in T : \A j \in T : k <= j
        BY <1>8, <2>1, LeastOf
    <2>3. k # 0
        BY <2>2, <1>3, <1>7
    <2>4. k - 1 \in 0 .. d /\ k - 1 \notin T /\ k \in 1 .. d /\ k \in 0 .. d
        BY <2>2, <2>3
    <2>5. read[k - 1] = g[k - 1]
        BY <2>4
    <2>6. read[k] = [ret |-> read[k - 1].ret + s[k] * read[k - 1].val, val |-> read[k - 1].val \div Radix]
        BY <1>7, <2>3, <2>4
    <2> QED BY <1>4, <2>2, <2>4, <2>5, <2>6
<1> QED BY <1>2, <1>3, <1>8 DEF s

(* What is printed of an int reads back. *)
LEMMA ReadsWhatIsPrinted == NumberInv => ReadsBack
<1> DEFINE v == Trunc(acc)
           n == CAbs(v)
<1> SUFFICES ASSUME NumberInv, IsInt(acc), acc.twice # 0, Magnitude(v) < Ints \div 2
             PROVE  ReadInt(IF v < 0 THEN Tail(Text(v)) ELSE Text(v)) = Magnitude(v)
    BY DEF ReadsBack
<1>1. v \in Int /\ v # 0
    <2>1. PICK w \in -HalfWords .. HalfWords - 1 : acc.twice = 2 * w /\ v = w
        BY IntValue DEF NumberInv
    <2> QED BY <2>1, Sizes
<1> HIDE DEF v
<1>2. v \in -HalfInts + 1 .. HalfInts - 1 /\ n = Magnitude(v)
    <2>1. HalfInts \in Nat /\ Magnitude(v) < HalfInts
        BY <1>1, CAbsIs, Sizes
    <2>2. v \in -HalfInts + 1 .. HalfInts - 1
        BY <1>1, <2>1 DEF Magnitude
    <2> QED BY <1>1, <2>2, CAbsIs
<1>3. n \in Nat /\ n # 0 /\ n < Ints
    BY <1>1, <1>2, Sizes DEF Magnitude
<1>4. (IF v < 0 THEN Tail(Text(v)) ELSE Text(v)) = DigitsOf(n, Digits[n])
    BY <1>1, <1>3, TextIs
<1>5. Digits[n] \in Nat /\ Digits[n] >= 1 /\ n < Pow(Radix, Digits[n])
    BY <1>3, DigitsAre, NumberAssumption
<1> HIDE DEF n
<1>6. ReadInt(DigitsOf(n, Digits[n])) = n
    BY <1>3, <1>5, ReadDigits
<1> QED BY <1>2, <1>4, <1>6

(* The invariant holds of every chain of operations (number.c, the operator *)
(* functions of int and float).                                            *)
THEOREM NumberInvariance == NumberSpec => []NumberInv
BY BeginsRight, StaysRight, PTL DEF NumberSpec

(* A chain of tame operations gives what Python gives, for every width of  *)
(* the words and whatever the operands are, and what is printed of an int  *)
(* whose magnitude a C int holds (pylt_obj_int_to_ucs4) reads back as that *)
(* magnitude (_read_x_int).                                                *)
THEOREM NumbersRight == NumberSpec => []NumbersAsMeant
<1>1. NumberInv => NumbersAsMeant
    BY ReadsWhatIsPrinted DEF NumberInv, NumbersAsMeant
<1> QED BY <1>1, NumberInvariance, PTL

(* Numbers that compare as equal hash alike (pylt_obj_int_hash,            *)
(* pylt_obj_float_hash, pylt_obj_bool_hash), within the range of the casts. *)
THEOREM EqualHashes == NumberSpec => []EqualNumbersHashEqual
BY EqualsHashEqual, NumberInvariance, PTL
=============================================================================
