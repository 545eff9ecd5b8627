----------------------------- MODULE MCFrontEnd -----------------------------
(***************************************************************************)
(* Texts for the lexer, a few characters each, and statements for the      *)
(* parser.  The two have no state in common here (the tokens of a          *)
(* statement are given): a behaviour runs one of them, and the other stays *)
(* parked.                                                                 *)
(***************************************************************************)
EXTENDS PyLiteTokens, PyLiteEval, TLC

VARIABLE part       \* the machine that runs

mcvars == <<lexvars, evars, part>>

-----------------------------------------------------------------------------
(* The lexer *)

(* Sequences of at most n elements of S *)
UpTo(S, n) == UNION {[1 .. i -> S] : i \in 0 .. n}

Line == {<<>>, <<"x">>, <<" ", "x">>, <<" ", " ", "x">>, <<" ", "#">>, <<"\t", "x">>}
Ended(lines, kind) == FlattenSeq([i \in DOMAIN lines |-> lines[i] \o kind])

Layouts == {Ended(ls, <<LF>>) : ls \in [1 .. 4 -> Line]}
Endings == UNION {{Ended(ls, <<CR>>), Ended(ls, <<CR, LF>>), FlattenSeq(<<ls[1], <<LF>>, ls[2], <<LF>>, ls[3]>>)} : ls \in [1 .. 3 -> Line]}
InBrackets == UpTo({"x", " ", LF, "(", ")", "#"}, 4)
Strings == UpTo({"'", "\"", "r", "b", "\\", "x", LF}, 4)
LongStrings == {<<"'", "'", "'">> \o s \o <<"'", "'", "'">> : s \in UpTo({"'", "x", "\\", CR, LF}, 4)}
Escapes == {p \o <<"'", "\\", "x">> \o s \o <<"'">> : p \in {<<>>, <<"r">>, <<"b">>, <<"b", "r">>}, s \in UpTo({"a", "8", "x", "\\"}, 3)}
Heads == {s \o <<"'", "x", "'", "x">> : s \in UpTo({"r", "b", "u", "x"}, 4)}
Numbers == UpTo({"0", "8", "x", "b", "."}, 4)
Symbols == UpTo({"<", "*", "=", "-", ">", "!"}, 4) \cup [1 .. 2 -> {",", "~", "+", "%", "$", "/", "x"}]
Words == {<<"b", "r", "e", "a", "k">> \o s : s \in UpTo({"x", "'", " "}, 2)}

(* A second file after one that ends in a bracket, without a line end, in a block *)
Seconds == {<<s, t>> : s \in {<<"(", "x", LF>>, <<"x", LF, " ", "x">>, <<"x", CR>>, <<"b", "u">>},
                       t \in {<<LF, LF, "x">>, <<"x", LF, " ", "x", LF>>, <<"'", "x", "'">>}}

MCScripts ==
    {<<t>> : t \in Layouts \cup Endings \cup InBrackets \cup Strings \cup LongStrings \cup Escapes \cup Heads \cup Numbers \cup Symbols \cup Words}
    \cup Seconds
MCKeywords == {<<"b", "r", "e", "a", "k">>, <<"o", "r">>}
MCGarbage == {"x", CR}

-----------------------------------------------------------------------------
(* The parser *)

n(x) == <<"name", x>>
one == <<"const", "1">>
none == <<"none">>
call(x) == <<"call", n(x), <<>>, <<>>>>

(* Operators: every pair of levels, on either side *)
BinaryOps == {"or", "and", "<", "in", "not in", "is not", "|", "^", "&", "<<", "-", "*", "**"}
UnaryOps == {"not", "neg"}
Combine(X, Y) == {<<o, x>> : o \in UnaryOps, x \in Y} \cup {<<o, x, y>> : o \in BinaryOps, x \in X, y \in Y}
Left == Combine({n("a")}, {call("b")})
Right == Combine({n("b")}, {n("c")})
Operations == Combine(Left \cup {call("a")}, Right \cup {one})

(* Brackets in brackets *)
Contexts(x, y) == {
    <<"tuple", <<x>>>>, <<"tuple", <<x, y>>>>, <<"list", <<x, y>>>>, <<"set", <<x, y>>>>, <<"set", <<x>>>>,
    <<"dict", <<<<x, y>>>>>>, <<"dict", <<<<y, x>>, <<one, y>>>>>>,
    <<"attr", x, "b">>, <<"item", x, y>>, <<"item", y, x>>,
    <<"slice", x, none, none, none>>, <<"slice", y, x, none, y>>, <<"slice", y, y, x, y>>, <<"slice", y, none, x, none>>,
    <<"call", x, <<>>, <<>>>>, <<"call", y, <<x, y>>, <<>>>>, <<"call", y, <<y>>, <<<<"a", x>>, <<"b", y>>>>>>,
    <<"lambda", x>>, <<"neg", x>>, <<"+", x, y>>, <<"and", x, y>>}
Empties == {<<"tuple", <<>>>>, <<"list", <<>>>>, <<"set", <<one>>>>, <<"dict", <<>>>>}
Displays == UNION {Contexts(x, n("c")) : x \in UNION {Contexts(y, n("b")) : y \in Empties \cup {n("a"), one, call("a")}}}

(* Targets *)
Simple == {n("a"), n("b"), <<"attr", n("a"), "b">>, <<"attr", call("b"), "a">>, <<"item", n("a"), n("b")>>,
           <<"item", <<"item", n("a"), one>>, call("b")>>, <<"item", <<"attr", n("b"), "a">>, <<"+", n("b"), n("c")>>>>,
           <<"item", n("a"), <<"+", <<"tuple", <<n("b")>>>>, n("c")>>>>, <<"slice", n("a"), n("b"), one, none>>}
Targets == Simple \cup {one, call("a"), <<"neg", n("a")>>} \cup
           UNION {{<<k, <<x>>>>, <<k, <<x, y>>>>, <<k, <<y, x, n("c")>>>>} :
                     k \in {"tuple", "list"}, x \in Simple, y \in {n("c"), <<"item", n("a"), one>>}}
           \cup {<<"tuple", <<<<"tuple", <<n("a"), n("b")>>>>, n("c")>>>>}
Assignables == {n("a"), call("b"), <<"+", n("a"), n("b")>>, <<"lambda", n("a")>>, <<"tuple", <<n("b"), n("a")>>>>,
                <<"list", <<n("b"), n("a")>>>>, <<"tuple", <<call("a"), one, n("b")>>>>, <<"tuple", <<n("b")>>>>}
Chained == {n("a"), n("b"), <<"tuple", <<n("a"), n("b")>>>>, <<"list", <<n("b"), n("c")>>>>,
            <<"attr", n("a"), "b">>, <<"tuple", <<n("b"), n("a"), n("c")>>>>}

S(kind, targets, value) == [kind |-> kind, targets |-> targets, value |-> value]

MCStatements ==
    {S("expr", <<>>, v) : v \in Operations \cup Displays}
    \cup {S("=", <<t>>, v) : t \in Targets, v \in Assignables}
    \cup {S("=", ts, v) : ts \in [1 .. 2 -> Chained] \cup [1 .. 3 -> {n("a"), n("b")}], v \in Assignables}
    \cup {S(o, <<t>>, v) : o \in {"+=", "*="}, t \in Simple \cup {one, <<"tuple", <<n("a"), n("b")>>>>},
                           v \in {one, <<"or", n("a"), n("b")>>, call("c")}}
    \cup {S("del", ts, one) : ts \in [1 .. 1 -> Targets] \cup [1 .. 2 -> Simple]}

-----------------------------------------------------------------------------
LexParked ==
    /\ script = <<>> /\ text = <<>> /\ in = [upto |-> 0, ch |-> LF, on |-> FALSE, buf |-> <<>>]
    /\ mode = "ended" /\ lastch = LF /\ current_indent = 0 /\ indent = <<0>> /\ inside_couples = 0
    /\ linenumber = 1 /\ start = 0 /\ str = <<>> /\ head = {} /\ quote = <<>> /\ out = <<>> /\ began = LF
EvalParked ==
    /\ stmt = S("expr", <<>>, one) /\ code = <<>> /\ ip = 1 /\ status = "text"
    /\ vm = [stack |-> <<>>, env |-> Env0, log |-> <<>>, popped |-> <<"none">>]

(* What the first read finds matters only to the first line *)
Init == \/ part = "lexer" /\ LexInit /\ (began = CR => Len(text) < 3) /\ EvalParked
        \/ part = "parser" /\ LexParked /\ EvalInit
Lexing == part = "lexer" /\ LexNext /\ UNCHANGED <<evars, part>>
Parsing == part = "parser" /\ EvalNext /\ UNCHANGED <<lexvars, part>>

(* A call of the lexer is one C function, and the parser calls it until    *)
(* the text is read.                                                       *)
Spec == Init /\ [][Lexing \/ Parsing]_mcvars /\ WF_mcvars(Lexing)
=============================================================================
