---------------------------- MODULE PyLiteString ----------------------------
(***************************************************************************)
(* Text (types/common/string.c): the escapes of a literal, repr, the       *)
(* operator %, and the searches.  A text is a sequence of character codes. *)
(*                                                                         *)
(* repr and % write into a buffer whose size they reckon themselves; each  *)
(* turn of their loops is a step here, and cap is what has been allocated. *)
(* A format is made of pieces, so that it is known what it means without   *)
(* reading it; reading it is what the code does.                           *)
(***************************************************************************)
EXTENDS Integers, FiniteSets, SequencesExt

CONSTANTS
    Texts,      \* texts that are written by repr, and searched
    Formats,    \* sequences of pieces: "char" or "field", see Source
    Argses,     \* what may stand on the right of %: sequences of [kind, text]
    Addresses,  \* what printf may write for the address of an object
    Subs,       \* what is searched for
    Indices     \* from where and to where

VARIABLES
    task,       \* "repr", "format", or "none"
    src,        \* the text that is read
    at,         \* i, findex: the next character
    out,        \* what is written: data, dstr
    cap,        \* old_size, dsize: how much may be written
    pieces,     \* what the format was made of
    args,       \* of the format
    used,       \* argtimes
    status      \* "busy", "done", "refused", "undefined"

svars == <<task, src, at, out, cap, pieces, args, used, status>>

(* Characters *)
Space == 32
Quote == 39
Percent == 37
Dash == 45
Dot == 46
Zero == 48
Backslash == 92
Ex == 120
Terminator == 0
DecDigits == 48 .. 57
HexDigits == DecDigits \cup 65 .. 70 \cup 97 .. 102
OctDigits == 48 .. 55

(* \a \b \f \n \r \t \v, and the quotes and the backslash, which stand for themselves *)
Letters == [c \in {7, 8, 9, 10, 11, 12, 13} |->
    CASE c = 7 -> 97 [] c = 8 -> 98 [] c = 9 -> 116 [] c = 10 -> 110 [] c = 11 -> 118 [] c = 12 -> 102 [] c = 13 -> 114]
LetterFor(l) == CHOOSE c \in DOMAIN Letters : Letters[c] = l
Spelled == Range(Letters)

-----------------------------------------------------------------------------
(* Escapes *)

Hex(d) == IF d >= 10 THEN d - 10 + 97 ELSE d + 48
HexValue(c) == CASE c \in DecDigits -> c - 48 [] c \in 65 .. 70 -> c - 65 + 10 [] c \in 97 .. 102 -> c - 97 + 10

(* How repr writes a character; mutant: a backslash stands for itself *)
Unprintable == 0 .. 32 \cup 127 .. 160
EscapedButBackslash(c) ==
    IF c \in DOMAIN Letters THEN <<Backslash, Letters[c]>>
    ELSE IF c = Quote THEN <<Backslash, c>>
    ELSE IF c \in Unprintable THEN <<Backslash, Ex, Hex(c \div 16), Hex(c % 16)>>
    ELSE <<c>>
Escaped(c) ==
    IF c \in DOMAIN Letters THEN <<Backslash, Letters[c]>>
    ELSE IF c \in {Quote, Backslash} THEN <<Backslash, c>>
    ELSE IF c \in Unprintable THEN <<Backslash, Ex, Hex(c \div 16), Hex(c % 16)>>
    ELSE <<c>>

(* _read_x_int: at most three octal digits from i on *)
OctEnd(s, i) == CHOOSE j \in i .. i + 3 :
    /\ \A k \in i .. j - 1 : k <= Len(s) /\ s[k] \in OctDigits
    /\ j = i + 3 \/ j > Len(s) \/ s[j] \notin OctDigits
OctValue(s, i) == FoldLeft(LAMBDA v, c : 8 * v + (c - 48), 0, SubSeq(s, i, OctEnd(s, i) - 1))

TwoHex(s, i) == i + 1 <= Len(s) /\ s[i] \in HexDigits /\ s[i + 1] \in HexDigits
ByteAt(s, i) == 16 * HexValue(s[i]) + HexValue(s[i + 1])

(* What stands at i, and where to go on; Bad is what is refused *)
Read(codes, next) == [codes |-> codes, next |-> next]
Bad == Read(<<>>, 0)

(* pylt_obj_str_new: an escape of a literal whose backslash is before i.   *)
(* None ends with a backslash: the quote behind it would be escaped.       *)
EscapeAt(s, i) ==
    IF i > Len(s) THEN Bad ELSE
    CASE s[i] \in Spelled -> Read(<<LetterFor(s[i])>>, i + 1)
      [] s[i] \in {Quote, 34, Backslash} -> Read(<<s[i]>>, i + 1)
      [] s[i] \in OctDigits -> Read(<<OctValue(s, i)>>, OctEnd(s, i))
      [] s[i] = Ex -> IF TwoHex(s, i + 1) THEN Read(<<ByteAt(s, i + 1)>>, i + 3) ELSE Bad
      [] s[i] >= 128 -> Bad
      [] OTHER -> Read(<<Backslash, s[i]>>, i + 1)

Unescape(s) ==
    LET rest[i \in 0 .. Len(s) + 1] ==
            IF i = 0 THEN [ok |-> FALSE, text |-> <<>>]
            ELSE IF i > Len(s) THEN [ok |-> TRUE, text |-> <<>>]
            ELSE LET here == IF s[i] = Backslash THEN EscapeAt(s, i + 1) ELSE Read(<<s[i]>>, i + 1)
                 IN  [ok |-> rest[here.next].ok, text |-> here.codes \o rest[here.next].text]
    IN  rest[1]

-----------------------------------------------------------------------------
(* pylt_obj_str_to_repr *)

Repr(s) == <<Quote>> \o FlattenSeq([i \in DOMAIN s |-> Escaped(s[i])]) \o <<Quote>>

ReprInit(s) ==
    /\ task = "repr" /\ src = s /\ at = 1 /\ out = <<Quote>> /\ cap = Len(s) + 2
    /\ pieces = <<>> /\ args = <<>> /\ used = 0 /\ status = "busy"

Grows == cap - Len(out) < 4

ReprChar ==
    /\ task = "repr" /\ status = "busy" /\ at <= Len(src)
    /\ cap' = IF Grows THEN cap + 15 ELSE cap
    /\ out' = out \o Escaped(src[at])
    /\ at' = at + 1
    /\ UNCHANGED <<task, src, pieces, args, used, status>>

(* The closing quote, for which nothing is reckoned *)
ReprEnd ==
    /\ task = "repr" /\ status = "busy" /\ at > Len(src)
    /\ out' = Append(out, Quote) /\ status' = "done"
    /\ UNCHANGED <<task, src, at, cap, pieces, args, used>>

-----------------------------------------------------------------------------
(* The operator % *)

(* A piece and how it is written *)
Char(c) == [kind |-> "char", code |-> c]
Field(flags, width, frac, type) == [kind |-> "field", flags |-> flags, width |-> width, frac |-> frac, type |-> type]
Decimal(n) == IF n >= 10 THEN <<48 + (n \div 10), 48 + (n % 10)>> ELSE <<48 + n>>
Source(p) ==
    IF p.kind = "char" THEN <<p.code>>
    ELSE <<Percent>> \o p.flags \o (IF p.width = 0 THEN <<>> ELSE Decimal(p.width))
         \o (IF p.frac = 0 THEN <<>> ELSE <<Dot>> \o Decimal(p.frac)) \o <<p.type>>

FormatInit(ps, as) ==
    /\ task = "format" /\ pieces = ps /\ args = as
    /\ src = FlattenSeq([i \in DOMAIN ps |-> Source(ps[i])])
    /\ at = 1 /\ out = <<>> /\ cap = Len(src) /\ used = 0 /\ status = "busy"

CodeAt(i) == IF i <= Len(src) THEN src[i] ELSE Terminator
InFormat == task = "format" /\ status = "busy" /\ at <= Len(src)

(* str_escape_next: the escapes once more.  \v and \\ are not stepped      *)
(* over, and behind any other character the one after it is taken.         *)
FormatEscape(i) ==
    IF i > Len(src) THEN Read(<<Terminator>>, i + 1)
    ELSE IF src[i] \in Spelled THEN Read(<<LetterFor(src[i])>>, IF LetterFor(src[i]) = 11 THEN i ELSE i + 1)
    ELSE IF src[i] = Backslash THEN Read(<<Backslash>>, i)
    ELSE IF src[i] \in OctDigits THEN Read(<<OctValue(src, i)>>, OctEnd(src, i))
    ELSE IF src[i] = Ex THEN (IF TwoHex(src, i + 1) THEN Read(<<ByteAt(src, i + 1)>>, i + 3) ELSE Bad)
    ELSE IF CodeAt(i + 1) >= 128 THEN Read(<<>>, i + 1)
    ELSE Read(<<Backslash, CodeAt(i + 1)>>, i + 1)

(* A bad \x gives the buffer back and goes on writing to it *)
FormatChar ==
    /\ InFormat /\ src[at] # Percent
    /\ LET here == IF src[at] = Backslash THEN FormatEscape(at + 1) ELSE Read(<<src[at]>>, at + 1)
       IN  IF here = Bad
           THEN status' = "undefined" /\ UNCHANGED <<at, out>>
           ELSE out' = out \o here.codes /\ at' = here.next /\ UNCHANGED status
    /\ UNCHANGED <<task, src, cap, pieces, args, used>>

(* A field: flags, width, fraction, type *)
SkipOver(S, i) == CHOOSE j \in i .. Len(src) + 1 : CodeAt(j) \notin S /\ \A k \in i .. j - 1 : src[k] \in S
FlagsEnd == SkipOver({Zero, Dash}, at + 1)
WidthEnd == SkipOver(DecDigits, FlagsEnd)
FracEnd == IF CodeAt(WidthEnd) = Dot THEN SkipOver(DecDigits, WidthEnd + 1) ELSE WidthEnd
Type == CodeAt(FracEnd)
ValueOf(i, j) ==
    LET value[n \in 0 .. j - i] == IF n = 0 THEN 0 ELSE 10 * value[n - 1] + (src[i + n - 1] - Zero)
    IN  value[j - i]
LimitAll == ValueOf(FlagsEnd, WidthEnd)
LimitFloat == IF FracEnd = WidthEnd THEN 0 ELSE ValueOf(WidthEnd + 1, FracEnd)
LeftPad == Dash \notin Range(SubSeq(src, at + 1, FlagsEnd - 1))

TypeD == 100
TypeF == 102
TypeS == 115
TypeR == 114
TypeP == 112
FloatTypes == {TypeF, 70, 71, 103}      \* %f, %F, %G, %g: all the same
Types == {TypeD, TypeS, TypeR, TypeP} \cup FloatTypes
PadWithZero == Zero \in Range(SubSeq(src, at + 1, FlagsEnd - 1)) /\ Type \notin {TypeS, TypeR}

(* The text of an argument, or nothing where none is set: a number that is *)
(* none, or more digits of a float than it has.  One without a dot is not  *)
(* cut.                                                                    *)
ReprOf(arg) == IF arg.kind = "str" THEN Repr(arg.text) ELSE arg.text
ShowsFloat(arg) ==
    {t \in {arg.text} : LimitFloat = 0 \/ Dot \notin Range(arg.text)}
    \cup {SubSeq(arg.text, 1, i + LimitFloat) : i \in {d \in DOMAIN arg.text :
        LimitFloat > 0 /\ arg.text[d] = Dot /\ d + LimitFloat <= Len(arg.text)}}
Shows(arg) ==
    {t \in {arg.text} : Type = TypeS \/ (Type = TypeD /\ arg.kind = "int")}
    \cup {t \in {ReprOf(arg)} : Type = TypeR}
    \cup {t \in Addresses : Type = TypeP}
    \cup {t \in ShowsFloat(arg) : Type \in FloatTypes /\ arg.kind = "float"}

Padding(n, c) == [i \in 1 .. n |-> c]
Longer(a, b) == IF a > b THEN a ELSE b

(* Mutant: what follows the field is forgotten *)
RoomNowOnly(n) == Len(out) + n
RoomFor(n) == Len(out) + (Len(src) - FracEnd) + n

Directive ==
    /\ InFormat /\ src[at] = Percent /\ used < Len(args) /\ Type \in Types
    /\ used' = used + 1
    /\ \/ /\ Shows(args[used + 1]) = {}
          /\ status' = "undefined" /\ UNCHANGED <<at, out, cap>>
       \/ \E text \in Shows(args[used + 1]) :
            LET rlen == Longer(Len(text), LimitAll)
                padding == Padding(rlen - Len(text), IF LeftPad /\ PadWithZero THEN Zero ELSE Space)
            IN  /\ cap' = Longer(cap, RoomFor(rlen))
                /\ out' = out \o (IF LeftPad THEN padding \o text ELSE text \o padding)
                /\ at' = FracEnd + 1
                /\ UNCHANGED status
    /\ UNCHANGED <<task, src, pieces, args>>

(* %c, %o, %x and %X are read and then print what tmp and slen hold *)
UnsetTypes == {99, 111, 120, 88}
Unset ==
    /\ InFormat /\ src[at] = Percent /\ used < Len(args) /\ Type \in UnsetTypes
    /\ used' = used + 1 /\ status' = "undefined"
    /\ UNCHANGED <<task, src, at, out, cap, pieces, args>>

(* No argument left, or an unknown type; %% is one *)
Refused ==
    /\ InFormat /\ src[at] = Percent /\ (used = Len(args) \/ Type \notin Types \cup UnsetTypes)
    /\ used' = used + 1 /\ status' = "refused"
    /\ UNCHANGED <<task, src, at, out, cap, pieces, args>>

FormatEnd ==
    /\ task = "format" /\ status = "busy" /\ at > Len(src)
    /\ status' = "done"
    /\ UNCHANGED <<task, src, at, out, cap, pieces, args, used>>

(* What is written and read are texts *)
IsText(s) == s \in Seq(Nat)
IsPiece(p) ==
    \/ p.kind = "char" /\ p.code \in Nat
    \/ /\ p.kind = "field" /\ p.flags \in Seq({Zero, Dash})
       /\ p.width \in 0 .. 99 /\ p.frac \in 0 .. 99 /\ p.type \in Nat
ASSUME StringAssumption ==
    /\ \A s \in Texts \cup Subs \cup Addresses : IsText(s)
    /\ Indices \subseteq Int
    /\ \A ps \in Formats : /\ Len(ps) \in Nat /\ DOMAIN ps = 1 .. Len(ps)
                           /\ \A i \in DOMAIN ps : IsPiece(ps[i])
    /\ \A as \in Argses : /\ Len(as) \in Nat
                         /\ \A i \in 1 .. Len(as) : IsText(as[i].text) /\ IsText(ReprOf(as[i]))

StringInit ==
    \/ \E s \in Texts : ReprInit(s)
    \/ \E ps \in Formats, as \in Argses : FormatInit(ps, as)

StringNext == ReprChar \/ ReprEnd \/ FormatChar \/ Directive \/ Unset \/ Refused \/ FormatEnd

StringSpec == StringInit /\ [][StringNext]_svars

-----------------------------------------------------------------------------
(* Searches; places count from 0 *)

Code(s, i) == IF i < Len(s) THEN s[i + 1] ELSE Terminator
Least(S) == CHOOSE i \in S : \A j \in S : i <= j
FromEnd(i, n) == IF i < 0 THEN i + n ELSE i
Within(i, n) == IF FromEnd(i, n) < 0 THEN 0 ELSE IF FromEnd(i, n) > n THEN n ELSE FromEnd(i, n)

(* pylt_obj_str_index_full: the first character, then the others before the end *)
MatchesAt(s, sub, i, end) ==
    /\ Code(s, i) = Code(sub, 0)
    /\ Len(sub) >= 1 /\ i + Len(sub) <= end
    /\ \A k \in 1 .. Len(sub) - 1 : Code(s, i + k) = Code(sub, k)
Index(s, sub, start, end) ==
    LET from == Longer(0, FromEnd(start, Len(s)))
        to == IF FromEnd(end, Len(s)) > Len(s) THEN Len(s) ELSE FromEnd(end, Len(s))
        places == {i \in from .. to - 1 : MatchesAt(s, sub, i, to)}
    IN  IF from >= Len(s) \/ to <= from THEN -2 ELSE IF places = {} THEN -1 ELSE Least(places)

(* pylt_obj_str_startswith_full *)
StartsWith(s, sub, start, end) ==
    LET from == Within(start, Len(s))
    IN  /\ Within(end, Len(s)) - from >= Len(sub)
        /\ \A i \in 1 .. Len(sub) : Code(s, from + i - 1) = sub[i]

-----------------------------------------------------------------------------
(* What it means *)

Part(s, start, end) == SubSeq(s, Within(start, Len(s)) + 1, Within(end, Len(s)))
SearchRight(s) == \A sub \in Subs, start \in Indices, end \in Indices :
    LET part == Part(s, start, end)
        hits == {i \in 0 .. Len(part) : i + Len(sub) <= Len(part) /\ SubSeq(part, i + 1, i + Len(sub)) = sub}
        found == Index(s, sub, start, end)
    IN  /\ sub # <<>> => IF hits = {} THEN found < 0 ELSE found = Within(start, Len(s)) + Least(hits)
        /\ sub # <<>> => StartsWith(s, sub, start, end) = (0 \in hits)

(* What a field shows: a number is filled up with zeros or blanks *)
Shown(p, arg) ==
    LET text == IF p.type = TypeR THEN ReprOf(arg) ELSE arg.text
        zeros == Zero \in Range(p.flags) /\ Dash \notin Range(p.flags) /\ p.type = TypeD
        pad == Padding(Longer(0, p.width - Len(text)), IF zeros THEN Zero ELSE Space)
    IN  IF Dash \in Range(p.flags) THEN text \o pad ELSE pad \o text

FieldsUpTo(i) == Cardinality({j \in 1 .. i : pieces[j].kind = "field"})
ArgOf(i) == args[FieldsUpTo(i)]
Meaning == FlattenSeq([i \in DOMAIN pieces |->
    IF pieces[i].kind = "char" THEN <<pieces[i].code>> ELSE Shown(pieces[i], ArgOf(i))])

(* No backslash and no percent sign of its own, an argument of the right   *)
(* kind for each field, and no zeros in front of a minus                   *)
Tame == \A i \in DOMAIN pieces :
    LET p == pieces[i]
    IN  IF p.kind = "char" THEN p.code \notin {Backslash, Percent}
        ELSE /\ FieldsUpTo(i) <= Len(args) /\ p.type \in {TypeD, TypeS, TypeR}
             /\ p.type = TypeD => ArgOf(i).kind = "int"
             /\ Zero \in Range(p.flags) => ArgOf(i).text[1] # Dash

(* What repr writes reads back as the same text, a tame format gives its   *)
(* meaning, and a search finds the first place (string.c:209, 440, 486,    *)
(* 310 and 427).                                                           *)
TextsAsMeant ==
    /\ task = "repr" /\ at = 1 /\ status = "busy" => SearchRight(src)
    /\ task = "repr" /\ status = "done" =>
          Unescape(SubSeq(out, 2, Len(out) - 1)) = [ok |-> TRUE, text |-> src]
    /\ task = "format" /\ Tame => status \in {"busy", "done"} /\ (status = "done" => out = Meaning)

(* The loops write only to what they have allocated, whatever the text is; *)
(* only the closing quote of repr may lie one beyond (string.c:480), and   *)
(* the terminator of a format has a place of its own.                      *)
WritersFit ==
    /\ task # "none" /\ status = "busy" => Len(out) <= cap
    /\ task = "repr" /\ status = "done" => Len(out) <= cap + 1
    /\ task = "format" /\ status = "done" => Len(out) <= cap
=============================================================================
