---------------------------- MODULE PyLiteTokens ----------------------------
(***************************************************************************)
(* What the tokens of a text are, said without a machine: which slices of  *)
(* it are lexemes, how its lines nest, on which line a token stands.       *)
(***************************************************************************)
EXTENDS PyLiteLexer

(***************************************************************************)
(* Lexemes                                                                 *)
(***************************************************************************)
Operators ==
    {<<c>> : c \in {"(", ")", ",", ":", ".", "~", "<", ">", "/", "*", "=", "+", "%", "@", "&", "|", "^", "-"}}
    \cup {<<c, "=">> : c \in {"<", ">", "/", "*", "=", "+", "%", "@", "&", "|", "^", "-", "!"}}
    \cup {<<c, c>> : c \in {"<", ">", "/", "*"}}
    \cup {<<c, c, "=">> : c \in {"<", ">", "/", "*"}}
    \cup {<<"-", ">">>}

AllIn(s, chars) == \A i \in DOMAIN s : s[i] \in chars

IsWord(s) == s # <<>> /\ s[1] \in Letters /\ AllIn(s, IdentLetters)

IsInt(s) ==
    \/ s # <<>> /\ AllIn(s, Dec)
    \/ /\ Len(s) > 2 /\ s[1] = "0" /\ s[2] \in DOMAIN DigitsOf
       /\ AllIn(SubSeq(s, 3, Len(s)), DigitsOf[s[2]])

IsFloat(s) ==
    \E i \in DOMAIN s : i > 1 /\ s[i] = "." /\ \A j \in DOMAIN s \ {i} : s[j] \in Dec

(* The sign stands, unescaped, at the three positions from i *)
Three(s, i, sign) == i + 2 <= Len(s) /\ ~Escaped(s, i) /\ \A k \in i .. i + 2 : s[k] = sign

StringPrefixes == {<<>>, <<"r">>, <<"u">>, <<"b">>, <<"r", "u">>, <<"u", "r">>, <<"r", "b">>, <<"b", "r">>}

(* A literal without its prefix *)
IsShort(s) ==
    /\ Len(s) > 1 /\ s[1] \in Quotes /\ ~Three(s, 1, s[1])
    /\ \A i \in 2 .. Len(s) : s[i] \notin {LF, CR} /\ (i = Len(s) <=> s[i] = s[1] /\ ~Escaped(s, i))

IsLong(s) ==
    /\ Len(s) > 5 /\ s[1] \in Quotes /\ Three(s, 1, s[1])
    /\ \A i \in 4 .. Len(s) : i = Len(s) - 2 <=> Three(s, i, s[1])

IsLiteral(s, kind) ==
    \E p \in StringPrefixes :
        /\ IsPrefix(p, s) /\ (kind = <<"BYTES">>) = ("b" \in Range(p))
        /\ LET t == SubSeq(s, Len(p) + 1, Len(s)) IN IsShort(t) \/ IsLong(t)

(* A literal without a value: an escape \x is none, and it is not raw *)
IsRaw(s) == \E i \in DOMAIN s : s[i] = "r" /\ \A k \in 1 .. i - 1 : s[k] \notin Quotes
Valueless(s) == ~IsRaw(s) /\ BadEscape(s)

Lexeme(token, s) ==
    CASE token = <<"NAME">> -> IsWord(s) /\ s \notin Keywords
      [] token = <<"INT">> -> IsInt(s)
      [] token = <<"FLOAT">> -> IsFloat(s)
      [] token \in {<<"STRING">>, <<"BYTES">>} -> IsLiteral(s, token) /\ ~Valueless(s)
      [] OTHER -> s = token /\ s \in Operators \cup Keywords

AnyLiteral(s) == IsLiteral(s, <<"STRING">>) \/ IsLiteral(s, <<"BYTES">>)

(* Whatever has the shape of a lexeme *)
AnyLexeme(s) == s \in Operators \/ IsWord(s) \/ IsInt(s) \/ IsFloat(s) \/ AnyLiteral(s)

(***************************************************************************)
(* The history                                                             *)
(***************************************************************************)
LayoutTokens == {<<"NEWLINE">>, <<"INDENT">>, <<"DEDENT">>, <<"END">>}
IsLayout(k) == out[k].tok \in LayoutTokens
Count(token, k) == Cardinality({i \in 1 .. k : out[i].tok = token})

(* The tokens that begin a logical line *)
Firsts == {k \in DOMAIN out : ~IsLayout(k) /\ (k = 1 \/ IsLayout(k - 1))}

Slice(i, j) == [k \in 1 .. j - i + 1 |-> Char(i + k - 1)]

(* The positions that lie in a comment: after a # that is in no token *)
InToken(i) == \E k \in DOMAIN out : ~IsLayout(k) /\ i \in out[k].from .. out[k].to
InComment(i) == \E j \in 1 .. i :
    text[j] = "#" /\ ~InToken(j) /\ \A k \in j .. i : text[k] \notin {LF, CR}

Gap(i, j) == \A k \in i .. j : text[k] \in Blanks \cup {LF, CR} \/ InComment(k)
HasLineEnd(i, j) == \E k \in i .. j : text[k] \in {LF, CR}
OpenBrackets(k) == Count(<<"(">>, k) - Count(<<")">>, k)

(* The last token that is not of the layout before token n *)
Before(n) == LET ks == {k \in 1 .. n - 1 : ~IsLayout(k)}
             IN  IF ks = {} THEN 0 ELSE CHOOSE k \in ks : \A l \in ks : l <= k

EscapedBackslash == \E i \in 1 .. Len(text) - 1 : text[i] = "\\" /\ text[i + 1] = "\\"

LastIsRight ==
    LET n == Len(out)
        t == out[n]
        b == Before(n)
        after == IF b = 0 THEN 1 ELSE out[b].to + 1
    IN  /\ Lexeme(t.tok, Slice(t.from, t.to))
        /\ \A j \in t.to + 1 .. Len(text) : ~AnyLexeme(Slice(t.from, j))
        /\ Gap(after, t.from - 1)
        /\ b # 0 =>
             (\E k \in b .. n : out[k].tok = <<"NEWLINE">>)
                <=> (HasLineEnd(after, t.from - 1) /\ OpenBrackets(b) <= 0)

(* The reader may look up to four characters ahead and go back.  Whatever  *)
(* it went back over, each token is a lexeme of the text and the longest   *)
(* at its place, the tokens and the space between them are the text, a     *)
(* NEWLINE stands where a line ends outside of brackets, and a text is     *)
(* refused only where what is read is no lexeme and none goes on, or where *)
(* it is a literal without a value (pylt_lex_next, lexer.c:467, 330).  Not *)
(* so where a backslash escapes a backslash: it escapes the next sign too. *)
TokensAreLexemes ==
    ~EscapedBackslash =>
        /\ mode = "between" /\ out # <<>> /\ ~IsLayout(Len(out)) => LastIsRight
        /\ mode = "error" => LET last == At(in) - 1 IN
              \/ \A j \in last .. Len(text) : ~AnyLexeme(Slice(start, j))
              \/ AnyLiteral(Slice(start, last)) /\ Valueless(Slice(start, last))

(***************************************************************************)
(* Lines                                                                   *)
(***************************************************************************)
LineStart(i) == CHOOSE j \in 1 .. i :
    (j = 1 \/ text[j - 1] \in {LF, CR}) /\ \A k \in j .. i - 1 : text[k] \notin {LF, CR}
WidthOf(i, j) == (j - i + 1) + 7 * Cardinality({k \in i .. j : text[k] = "\t"})
Width(k) == LET i == out[k].from IN WidthOf(LineStart(i), i - 1)

(* The widths that are open at a line: those of lines that no narrower     *)
(* line came after                                                         *)
OpenWidths(k) == {Width(j) : j \in {j \in Firsts : j <= k /\ \A i \in Firsts : i \in j .. k => Width(i) >= Width(j)}}

BlocksNest ==
    LET n == Len(out) IN
    /\ n \in Firsts => Count(<<"INDENT">>, n) - Count(<<"DEDENT">>, n) = Cardinality(OpenWidths(n) \ {0})
    /\ n > 1 /\ text # <<>> /\ Last(text) \in {LF, CR} /\ out[n - 1].tok = <<"INDENT">> => n \in Firsts
    /\ mode = "ended" => Count(<<"INDENT">>, n) = Count(<<"DEDENT">>, n)

Ends(kind) == IF kind = <<CR, LF>> THEN {i \in 1 .. Len(text) - 1 : text[i] = CR /\ text[i + 1] = LF}
              ELSE {i \in 1 .. Len(text) : text[i] = kind[1]}
LineEnds == {i \in 1 .. Len(text) : text[i] \in {LF, CR}}

(* All lines end alike *)
EndsLike(kind) == LineEnds = IF kind = <<CR, LF>> THEN Ends(kind) \cup {i + 1 : i \in Ends(kind)} ELSE Ends(kind)

LinesCounted ==
    out # <<>> /\ Last(out).tok # <<"NEWLINE">> =>
        \A kind \in {<<LF>>, <<CR>>, <<CR, LF>>} :
            EndsLike(kind) /\ (kind = <<CR, LF>> => \A k \in DOMAIN out : OpenBrackets(k) <= 0)
                           /\ began # CR
            => Last(out).line = 1 + Cardinality({i \in Ends(kind) : i <= Last(out).to})

(* A line is as deep in blocks as there are wider and wider lines it is    *)
(* under, however they came about (dedents by several levels, or to a      *)
(* width that was not there), only a line opens a block, not a comment or  *)
(* a blank one, and at the end of the file all are closed (lexer.c:505,    *)
(* 695).  Blanks at the end of a file without a line end do open one.      *)
(*                                                                         *)
(* And the line of each token, which errors and tracebacks name, is the    *)
(* one it stands on, in files of either line end, after blank lines and    *)
(* comments, in brackets and long strings, for the second file as for the  *)
(* first (linenumber, lexer.c:486).  CR LF counts twice in brackets, line  *)
(* ends of two kinds may not be counted, nor one that the first read takes *)
(* for the rest of a CR that was never there.                              *)
LinesNest == BlocksNest /\ LinesCounted

(* Every call returns, and the text comes to its end or is refused, unless *)
(* the end of the file falls into a string (lexer.c:285 has no case for    *)
(* it: the loop never ends).                                               *)
ReadingEnds == <>(mode = "error" \/ (mode = "ended" /\ script = <<>>) \/ (mode = "string" /\ in.ch = EOF))
=============================================================================
