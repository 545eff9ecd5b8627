----------------------------- MODULE PyLiteLexer -----------------------------
(***************************************************************************)
(* The lexer (lexer.c).  pylt_lex_next hands out one token per call; the   *)
(* model reads one character, or a fixed few of them, per step.  A         *)
(* character is a one-letter string, EOF the 0 that nextc stores when the  *)
(* file has no more.  Of a keyword, an operator and a bracket the token is *)
(* its text; of the value of a literal only whether it has one is modelled *)
(* (a \x that is none), not what it is.                                    *)
(***************************************************************************)
EXTENDS Integers, FiniteSets, SequencesExt

CONSTANTS
    Scripts,    \* sequences of texts that one interpreter reads one by one
    Keywords,   \* words that are keywords, as sequences of letters
    Garbage,    \* characters that ls->ch may hold before the first read
    EOF

ASSUME ScriptsAreTexts ==
    \A s \in Scripts :
        /\ s \in Seq(Range(s)) /\ s # <<>>
        /\ \A i \in DOMAIN s : s[i] \in Seq(Range(s[i])) /\ EOF \notin Range(s[i])

VARIABLES
    script,         \* the texts to come
    text,           \* the text being read
    in,             \* the reader: [upto, ch, on, buf]
    mode,           \* where in pylt_lex_next the lexer is
    lastch,         \* the character at which the line began
    current_indent, \* width of the line, -1 before it is known
    indent,         \* the stack of open widths, innermost first
    inside_couples, \* open brackets
    linenumber,
    start,          \* where the token being read begins
    str,            \* le.str, le.bytes: what the token holds so far
    head,           \* letters of the prefix, or the base of a number
    quote,          \* the string being read: [sign, long, escape]
    out,            \* history: the tokens handed out
    began           \* history: what ls->ch held when the file began

lexvars == <<script, text, in, mode, lastch, current_indent, indent, inside_couples, linenumber, start, str, head, quote, out, began>>
layout == <<lastch, current_indent, indent>>
source == <<script, text, began>>
literal == <<str, head, quote>>

LF == "\n"
CR == "\r"
Quotes == {"'", "\""}
Blanks == {" ", "\t"}
Dec == {"0", "1", "8"}
Hex == Dec \cup {"a", "b", "e"}
DigitsOf == [x |-> Hex, b |-> {"0", "1"}, o |-> {"0", "1"}]
Letters == {"r", "u", "b", "x", "o", "e", "a", "k"}
IdentLetters == Letters \cup Dec
\* The other characters of a script: operators, #, the backslash, and one that begins no token
Signs == {"#", "(", ")", ",", ":", ".", "~", "<", ">", "/", "*", "=", "+", "%", "@", "&", "|", "^", "-", "!"}
         \cup {"\\", "$"}

\* The end of the file is told apart from all of them.
ASSUME EndIsNoCharacter == EOF \notin {LF, CR} \cup Quotes \cup Blanks \cup IdentLetters \cup Signs

----------------------------------------------------------------------------
(* The reader and its record of characters to read again *)

Char(i) == IF i <= Len(text) THEN text[i] ELSE EOF

Read(r) ==
    IF r.ch = EOF /\ ~r.on /\ r.upto > Len(text) THEN r
    ELSE [r EXCEPT !.upto = @ + 1, !.ch = Char(r.upto + 1)]

Nextc(r) ==
    IF r.on THEN [Read(r) EXCEPT !.buf = Append(@, Read(r).ch)]
    ELSE IF r.buf # <<>> THEN [r EXCEPT !.ch = Head(r.buf), !.buf = Tail(@)]
    ELSE Read(r)

RecordOn(r) == [r EXCEPT !.buf = Append(@, r.ch), !.on = TRUE]
RecordOffDrops(r) == [r EXCEPT !.on = FALSE, !.buf = <<>>]    \* mutant
RecordOff(r) == LET s == [r EXCEPT !.on = FALSE] IN IF s.buf # <<>> THEN Nextc(s) ELSE s
RecordHalt(r) == [r EXCEPT !.on = FALSE, !.buf = <<>>]

(* Position in the text of the current character *)
At(r) == IF r.on THEN r.upto ELSE r.upto - Len(r.buf)

----------------------------------------------------------------------------
(* A file begins: pylt_lex_init, pylt_lex_reset *)

NoQuote == [sign |-> "'", long |-> FALSE, escape |-> FALSE]

Fresh(ch) ==
    /\ in = [upto |-> 0, ch |-> ch, on |-> FALSE, buf |-> <<>>]
    /\ mode = "between" /\ lastch = ch /\ began = ch
    /\ current_indent = -1 /\ indent = <<0>> /\ inside_couples = 0 /\ linenumber = 1
    /\ start = 0 /\ str = <<>> /\ head = {} /\ quote = NoQuote /\ out = <<>>

LexInit ==
    \E s \in Scripts, ch \in Garbage : script = Tail(s) /\ text = Head(s) /\ Fresh(ch)

Reset ==
    /\ mode = "ended" /\ script # <<>>
    /\ text' = Head(script) /\ script' = Tail(script)
    /\ current_indent' = -1 /\ indent' = <<0>> /\ inside_couples' = 0 /\ linenumber' = 1
    /\ in' = [RecordHalt(in) EXCEPT !.upto = 0]
    /\ mode' = "between" /\ out' = <<>> /\ began' = in.ch
    /\ UNCHANGED <<lastch, start, literal>>

----------------------------------------------------------------------------
(* The call returns a token, or an error that ends the parser *)

Issue(r, token, from, to, line) ==
    /\ in' = r
    /\ mode' = IF token = <<"END">> THEN "ended" ELSE "between"
    /\ out' = Append(out, [tok |-> token, from |-> from, to |-> to, line |-> line])
    /\ linenumber' = line

(* A token that ends before the current character of r *)
Return(r, token, from) == Issue(r, token, from, At(r) - 1, linenumber)

Refuse(r) == in' = r /\ mode' = "error" /\ UNCHANGED <<out, linenumber>>

Go(r, m) == in' = r /\ mode' = m /\ UNCHANGED <<linenumber, out>>

LastToken == IF out = <<>> THEN <<"END">> ELSE Last(out).tok

----------------------------------------------------------------------------
(* The start of a call: indentation *)

BeginCall ==
    /\ mode = "between"
    /\ IF current_indent = -1
       THEN /\ lastch' = in.ch /\ current_indent' = 0
            /\ Go(Nextc(in), "indent")
       ELSE Go(in, "level") /\ UNCHANGED <<lastch, current_indent>>
    /\ UNCHANGED <<source, indent, inside_couples, start, literal>>

SkipsPastEOF(ch) == ch \notin {LF, CR}    \* mutant: no test for the end of the file
SkipsLine(ch) == ch \notin {LF, CR, EOF}

IndentComment ==
    /\ mode = "indent" /\ in.ch = "#"
    /\ Go(Nextc(in), "indent_comment")
    /\ UNCHANGED <<source, layout, inside_couples, start, literal>>

CommentChar ==
    /\ mode \in {"indent_comment", "comment"}
    /\ IF SkipsLine(in.ch) THEN Go(Nextc(in), mode)
       ELSE Go(in, IF mode = "comment" THEN "tokens" ELSE "indent")
    /\ UNCHANGED <<source, layout, inside_couples, start, literal>>

CountsLine(ch) == ~(ch = LF /\ lastch = CR)

BlankLine ==
    /\ mode = "indent" /\ in.ch \in {LF, CR}
    /\ current_indent' = 0
    /\ linenumber' = IF CountsLine(in.ch) THEN linenumber + 1 ELSE linenumber
    /\ LET r == Nextc(in) IN in' = IF in.ch = CR /\ r.ch = LF THEN Nextc(r) ELSE r
    /\ UNCHANGED <<source, mode, lastch, indent, inside_couples, start, literal, out>>

IndentBlank ==
    /\ mode = "indent" /\ in.ch \in Blanks
    /\ current_indent' = current_indent + (IF in.ch = "\t" THEN 8 ELSE 1)
    /\ Go(Nextc(in), "indent")
    /\ UNCHANGED <<source, lastch, indent, inside_couples, start, literal>>

LineBegins ==
    /\ mode = "indent" /\ in.ch \notin Blanks \cup {"#", LF, CR}
    /\ Go(in, "level")
    /\ UNCHANGED <<source, layout, inside_couples, start, literal>>

Indent ==
    /\ mode = "level" /\ current_indent > Head(indent)
    /\ indent' = <<current_indent>> \o indent
    /\ Return(in, <<"INDENT">>, At(in))
    /\ UNCHANGED <<source, lastch, current_indent, inside_couples, start, literal>>

(* Mutant: settles for the level below, as EndOfFile does *)
DedentOnce ==
    /\ mode = "level" /\ current_indent < Head(indent)
    /\ indent' = Tail(indent) /\ current_indent' = Head(Tail(indent))
    /\ Return(in, <<"DEDENT">>, At(in))
    /\ UNCHANGED <<source, lastch, inside_couples, start, literal>>

(* One level per call: the next call compares again *)
Dedent ==
    /\ mode = "level" /\ current_indent < Head(indent)
    /\ indent' = Tail(indent)
    /\ Return(in, <<"DEDENT">>, At(in))
    /\ UNCHANGED <<source, lastch, current_indent, inside_couples, start, literal>>

SameLevel ==
    /\ mode = "level" /\ current_indent = Head(indent)
    /\ Go(in, "tokens")
    /\ UNCHANGED <<source, layout, inside_couples, start, literal>>

----------------------------------------------------------------------------
(* The token loop *)

InTokens(chars) == mode = "tokens" /\ in.ch \in chars

(* A case that neither ends a line nor opens or closes a bracket *)
Inline == UNCHANGED <<source, layout, inside_couples>>

Comment ==
    /\ InTokens({"#"})
    /\ Go(Nextc(in), "comment")
    /\ Inline /\ UNCHANGED <<start, literal>>

Blank ==
    /\ InTokens(Blanks)
    /\ Go(Nextc(in), "tokens")
    /\ Inline /\ UNCHANGED <<start, literal>>

(* The line end stays the current character: the next call reads past it *)
Newline ==
    /\ InTokens({LF, CR})
    /\ IF inside_couples > 0
       THEN /\ linenumber' = linenumber + 1 /\ in' = Nextc(in)
            /\ UNCHANGED <<current_indent, mode, out>>
       ELSE /\ current_indent' = -1
            /\ Issue(in, <<"NEWLINE">>, At(in), At(in), linenumber + 1)
    /\ UNCHANGED <<source, lastch, indent, inside_couples, start, literal>>

Bracket ==
    /\ InTokens({"(", ")"})
    /\ inside_couples' = inside_couples + (IF in.ch = "(" THEN 1 ELSE -1)
    /\ Return(Nextc(in), <<in.ch>>, At(in))
    /\ UNCHANGED <<source, layout, start, literal>>

Single ==
    /\ InTokens({",", ":", ".", "~"})
    /\ Return(Nextc(in), <<in.ch>>, At(in))
    /\ Inline /\ UNCHANGED <<start, literal>>

(* c, c=, cc and cc= *)
Doubled ==
    /\ InTokens({"<", ">", "/", "*"})
    /\ LET c == in.ch
           r1 == Nextc(in)
           r2 == Nextc(r1)
       IN  IF r1.ch = "=" THEN Return(r2, <<c, "=">>, At(in))
           ELSE IF r1.ch # c THEN Return(r1, <<c>>, At(in))
           ELSE IF r2.ch = "=" THEN Return(Nextc(r2), <<c, c, "=">>, At(in))
           ELSE Return(r2, <<c, c>>, At(in))
    /\ Inline /\ UNCHANGED <<start, literal>>

(* c and c=, and the arrow *)
WithEqual ==
    /\ InTokens({"=", "+", "%", "@", "&", "|", "^", "-"})
    /\ LET r == Nextc(in)
       IN  IF r.ch = "=" \/ (in.ch = "-" /\ r.ch = ">")
           THEN Return(Nextc(r), <<in.ch, r.ch>>, At(in))
           ELSE Return(r, <<in.ch>>, At(in))
    /\ Inline /\ UNCHANGED <<start, literal>>

NotEqual ==
    /\ InTokens({"!"})
    /\ start' = At(in)
    /\ IF Nextc(in).ch = "=" THEN Return(Nextc(Nextc(in)), <<"!", "=">>, At(in)) ELSE Refuse(Nextc(in))
    /\ Inline /\ UNCHANGED literal

(* An unfinished line ends first, then its blocks, then the file *)
EndOfFile ==
    /\ InTokens({EOF})
    /\ IF LastToken \notin {<<"NEWLINE">>, <<"DEDENT">>}
       THEN Return(in, <<"NEWLINE">>, At(in)) /\ UNCHANGED <<current_indent, indent>>
       ELSE IF Head(indent) > 0
       THEN /\ indent' = Tail(indent) /\ current_indent' = Head(Tail(indent))
            /\ Return(in, <<"DEDENT">>, At(in))
       ELSE Return(in, <<"END">>, At(in)) /\ UNCHANGED <<current_indent, indent>>
    /\ UNCHANGED <<source, lastch, inside_couples, start, literal>>

BadCharacter ==
    /\ mode = "tokens"
    /\ in.ch \in {"\\", "$"}
    /\ start' = At(in) /\ Refuse(in)
    /\ Inline /\ UNCHANGED literal

----------------------------------------------------------------------------
(* Numbers *)

Zero ==
    /\ InTokens({"0"})
    /\ start' = At(in)
    /\ LET r == Nextc(in)
           digit == Nextc(r).ch
       IN  IF r.ch \in DOMAIN DigitsOf
           THEN IF digit \in DigitsOf[r.ch]
                THEN Go(Nextc(r), "based") /\ str' = <<>> /\ head' = DigitsOf[r.ch]
                ELSE Refuse(Nextc(r)) /\ UNCHANGED <<str, head>>
           ELSE IF r.ch \in Dec \cup {"."}
                THEN Go(r, "digits") /\ str' = <<"0">> /\ UNCHANGED head
                ELSE Return(r, <<"INT">>, At(in)) /\ str' = <<"0">> /\ UNCHANGED head
    /\ Inline /\ UNCHANGED quote

Number ==
    /\ InTokens(Dec \ {"0"})
    /\ start' = At(in) /\ str' = <<in.ch>>
    /\ Go(Nextc(in), "digits")
    /\ Inline /\ UNCHANGED <<head, quote>>

Digit ==
    /\ \/ mode = "based" /\ in.ch \in head
       \/ mode \in {"digits", "fraction"} /\ in.ch \in Dec
    /\ str' = Append(str, in.ch) /\ Go(Nextc(in), mode)
    /\ Inline /\ UNCHANGED <<start, head, quote>>

Point ==
    /\ mode = "digits" /\ in.ch = "."
    /\ str' = Append(str, in.ch) /\ Go(Nextc(in), "fraction")
    /\ Inline /\ UNCHANGED <<start, head, quote>>

NumberEnds ==
    /\ \/ mode = "based" /\ in.ch \notin head
       \/ mode = "digits" /\ in.ch \notin Dec \cup {"."}
       \/ mode = "fraction" /\ in.ch \notin Dec
    /\ Return(in, IF mode = "fraction" THEN <<"FLOAT">> ELSE <<"INT">>, start)
    /\ Inline /\ UNCHANGED <<start, literal>>

----------------------------------------------------------------------------
(* Names, keywords, and the prefix that may begin a string *)

TokenOfWord(w) == IF w \in Keywords THEN w ELSE <<"NAME">>

NameBegins ==
    /\ InTokens(Letters \ {"r", "b", "u"})
    /\ start' = At(in) /\ str' = <<>>
    /\ Go(in, "name")
    /\ Inline /\ UNCHANGED <<head, quote>>

NameChar ==
    /\ mode = "name"
    /\ str' = Append(str, in.ch)
    /\ LET r == Nextc(in)
       IN  IF r.ch \in IdentLetters THEN Go(r, "name") ELSE Return(r, TokenOfWord(str'), start)
    /\ Inline /\ UNCHANGED <<start, head, quote>>

HeadBegins ==
    /\ InTokens({"r", "b", "u"} \cup Quotes)
    /\ start' = At(in) /\ head' = {}
    /\ Go(RecordOn(in), "head")
    /\ Inline /\ UNCHANGED <<str, quote>>

ExcludesNone(c) == {}    \* mutant: letters of a prefix may repeat

(* Letters that cannot come after the ones of the prefix read so far *)
Excludes(c) == IF c = "r" THEN {"r"} ELSE {"u", "b"}

HeadLetter ==
    /\ mode = "head" /\ in.ch \in {"r", "u", "b"}
    /\ head \cap Excludes(in.ch) = {}
    /\ head' = head \cup {in.ch} /\ Go(Nextc(in), "head")
    /\ Inline /\ UNCHANGED <<start, str, quote>>

(* No string: what was read of the prefix is read again as a name *)
HeadFails ==
    /\ mode = "head" /\ in.ch \notin Quotes
    /\ in.ch \in {"r", "u", "b"} => head \cap Excludes(in.ch) # {}
    /\ str' = <<>> /\ Go(RecordOff(in), "name")
    /\ Inline /\ UNCHANGED <<start, head, quote>>

----------------------------------------------------------------------------
(* Strings and bytes *)

(* Three signs begin a long string; of fewer, the ones after the first are *)
(* read again.                                                             *)
StringBegins ==
    /\ mode = "head" /\ in.ch \in Quotes
    /\ LET r1 == RecordOn(Nextc(RecordHalt(in)))
           r2 == Nextc(r1)
           two == r1.ch = in.ch
           long == two /\ r2.ch = in.ch
       IN  /\ quote' = [sign |-> in.ch, long |-> long, escape |-> FALSE]
           /\ Go(IF long THEN RecordHalt(Nextc(r2)) ELSE RecordOff(IF two THEN r2 ELSE r1), "string")
    /\ str' = <<>>
    /\ Inline /\ UNCHANGED <<start, head>>

Kind == IF "b" \in head THEN <<"BYTES">> ELSE <<"STRING">>

(* An odd number of backslashes comes before position i *)
Escaped(s, i) == \E j \in 1 .. i - 1 :
    /\ (i - j) % 2 = 1
    /\ \A k \in j .. i - 1 : s[k] = "\\"
    /\ j = 1 \/ s[j - 1] # "\\"

(* pylt_obj_str_new, pylt_obj_bytes_new: an escape \x without two digits.  *)
BadEscape(s) == \E i \in 1 .. Len(s) - 1 :
    /\ s[i] = "\\" /\ ~Escaped(s, i) /\ s[i + 1] = "x"
    /\ ~(i + 3 <= Len(s) /\ s[i + 2] \in Hex /\ s[i + 3] \in Hex)

(* At its end the object is made; where there is none the text is refused. *)
EndString(r) ==
    IF "r" \notin head /\ BadEscape(str) THEN Refuse(r) ELSE Return(r, Kind, start)

(* A sign that no backslash escapes ends the string: one, or three in a    *)
(* row; one or two of the three are part of it.                            *)
StringSign ==
    /\ mode = "string" /\ in.ch = quote.sign /\ ~quote.escape
    /\ LET s == in.ch
           r1 == Nextc(in)
           r2 == Nextc(r1)
       IN  IF ~quote.long THEN EndString(r1) /\ UNCHANGED str
           ELSE IF r1.ch # s THEN Go(r1, "string") /\ str' = Append(str, s)
           ELSE IF r2.ch # s THEN Go(r2, "string") /\ str' = str \o <<s, s>>
           ELSE EndString(Nextc(r2)) /\ UNCHANGED str
    /\ Inline /\ UNCHANGED <<start, head, quote>>

StringNewline ==
    /\ mode = "string" /\ in.ch \in {LF, CR}
    /\ quote' = [quote EXCEPT !.escape = FALSE]
    /\ linenumber' = linenumber + 1
    /\ LET r == Nextc(in) IN
       IF quote.long
       THEN /\ str' = Append(str, LF) /\ mode' = mode
            /\ in' = IF in.ch = CR /\ r.ch = LF THEN Nextc(r) ELSE r
       ELSE mode' = "error" /\ UNCHANGED <<in, str>>
    /\ Inline /\ UNCHANGED <<start, head, out>>

(* The flag is set by a backslash, an escaped one too.  At the end of the  *)
(* file the loop goes on for ever, and the buffer grows: the model leaves  *)
(* out what it grows by.                                                   *)
StringChar ==
    /\ mode = "string" /\ in.ch \notin {LF, CR}
    /\ in.ch = quote.sign => quote.escape
    /\ quote' = [quote EXCEPT !.escape = in.ch = "\\"]
    /\ str' = IF in.ch = EOF THEN str ELSE Append(str, in.ch)
    /\ Go(Nextc(in), "string")
    /\ Inline /\ UNCHANGED <<start, head>>

----------------------------------------------------------------------------
Scan ==
    \/ BeginCall \/ IndentComment \/ CommentChar \/ BlankLine \/ IndentBlank
    \/ LineBegins \/ Indent \/ Dedent \/ SameLevel
    \/ Comment \/ Blank \/ Newline \/ Bracket \/ Single \/ Doubled \/ WithEqual
    \/ NotEqual \/ EndOfFile \/ BadCharacter
    \/ Zero \/ Number \/ Digit \/ Point \/ NumberEnds
    \/ NameBegins \/ NameChar \/ HeadBegins \/ HeadLetter \/ HeadFails
    \/ StringBegins \/ StringSign \/ StringNewline \/ StringChar

LexNext == Scan \/ Reset
LexSpec == LexInit /\ [][LexNext]_lexvars

(* The record never holds more than three of the eight characters that     *)
(* _record.buf has room for (lexer.h, "set limit" is to do), and what is   *)
(* to be read is what the text has left, recorded or not.  Outside of a    *)
(* name or a literal nothing is recorded and nothing left to be replayed.  *)
RecordReplays ==
    LET n == Len(in.buf) IN
    /\ n <= 3
    /\ \A k \in 1 .. n : in.buf[k] = Char(in.upto - n + k)
    /\ in.upto > 0 => in.ch = Char(At(in))
    /\ in.on \/ n > 0 => mode \in {"head", "name", "string"}
=============================================================================
