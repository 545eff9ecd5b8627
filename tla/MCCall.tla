------------------------------- MODULE MCCall -------------------------------
(***************************************************************************)
(* Call expressions: every head, up to two arguments, keywords and **,     *)
(* with calls, methods, unpacking and errors nested in each position.      *)
(***************************************************************************)
EXTENDS PyLiteCallSource

Val(v) == [t |-> "val", v |-> v]
Unknown == [t |-> "unknown"]
Attr(e, n) == [t |-> "attr", e |-> e, n |-> n]
Call(head, args, kws, map) ==
    [t |-> "call", head |-> head, args |-> args, kws |-> kws, map |-> map]
Plain(e) == [star |-> FALSE, e |-> e]
Star(e) == [star |-> TRUE, e |-> e]
Kw(name, e) == [name |-> name, e |-> e]

One == Number("one")
Two == Number("two")
F == Val(Fn("f"))
G == Val(Fn("g"))
Both == List(<<One, Two>>)
Calls == List(<<Fn("f"), Fn("g")>>)
Map == Dict(Name("b") :> One @@ Name("c") :> Two)
MCLiterals ==
    {One, Two, Fn("f"), Fn("g"), Both, Calls, List(<<>>), Map, Name("a"), Name("b"), Name("ab")}
MCSpelling == [n \in {"a", "b"} |-> <<Name(n)>>] @@ "ab" :> <<Name("a"), Name("b")>>

(* Families of expressions are sequences, so that a program is its index.  *)
Each(Op1(_), s) == <<>> \o [i \in 1..Len(s) |-> Op1(s[i])]
Pairs(Op2(_, _), s, t) ==
    <<>> \o
    [i \in 1 .. Len(s) * Len(t) |->
        Op2(s[((i - 1) \div Len(t)) + 1], t[((i - 1) % Len(t)) + 1])]

Called == Call(G, <<Plain(Val(One))>>, <<>>, <<>>)
CalledMethod == Call(Attr(Val(One), "method"), <<Plain(Val(Two))>>, <<>>, <<>>)
Nested ==
    <<Called, CalledMethod, Call(G, <<Star(Val(Both))>>, <<>>, <<>>), Attr(Val(Two), "prop")>>
Failing == <<Unknown, Attr(Val(One), "nothing"), Call(Val(One), <<>>, <<>>, <<>>)>>
Heads ==
    <<F, Attr(Val(One), "method"), Attr(Called, "method"), Attr(Val(One), "own"),
      Called, Val(One), Unknown>>
Args ==
    Each(Plain, <<Val(One), G, Attr(Val(Two), "method")>> \o Nested \o Failing)
    \o Each(Star, <<Val(Both), Val(Calls), Val(List(<<>>)), Val(Name("ab")), Val(Two), Called>>)
Kws ==
    <<<<>>, <<Kw("b", Val(One)), Kw("b", Val(Two))>>>>
    \o Each(LAMBDA e : <<Kw("a", Val(One)), Kw("b", e)>>, Nested \o <<Unknown>>)
Maps == <<<<>>, <<Val(Map)>>, <<Val(One)>>, <<Called>>, <<Unknown>>>>

Positional == <<<<>>>> \o Each(LAMBDA x : <<x>>, Args) \o Pairs(LAMBDA x, y : <<x, y>>, Args, Args)
Named == Pairs(LAMBDA k, m : <<k, m>>, Kws, Maps)
Few ==
    <<<<>>, <<Plain(Called)>>, <<Star(Val(Both))>>,
      <<Plain(Val(One)), Star(Val(Both))>>, <<Star(Val(Calls)), Plain(Val(Two))>>>>

Expressions ==
    Pairs(LAMBDA h, a : Call(h, a, <<>>, <<>>), Heads, Positional)
    \o Pairs(LAMBDA ha, km : Call(ha[1], ha[2], km[1], km[2]),
             Pairs(LAMBDA h, a : <<h, a>>, Heads, Few), Named)
----------------------------------------------------------------------------
(* The counts of the parser, and the slot of the callee that waits for     *)
(* operands that it has not counted: the callee of the next call.          *)
DepthOf(code) ==
    LET d[j \in 0..Len(code)] == IF j = 0 THEN 0 ELSE d[j - 1] + Counts(code[j])
    IN  d

HotOf(code, depth) ==
    LET IsCall(j) == code[j].op = "CALL" \/ (code[j].op = "GET_ATTR" /\ code[j].v = Name("prop") /\ code[j].x = 0)
        Uncounted(j) == \/ code[j].op = "UNPACK_ARG"
                        \/ code[j].op = "GET_ATTR" /\ code[j].x = 1 /\ code[j].v # Name("own")
                                                                  /\ code[j].v # Name("nothing")
        Next1(c) == CHOOSE j \in c + 1 .. Len(code) : IsCall(j) /\ \A l \in c + 1 .. j - 1 : ~ IsCall(l)
    IN  [c \in 0..Len(code) |->
            IF \E j \in 1..c : Uncounted(j) /\ \A l \in j + 1 .. c : ~ IsCall(l)
            THEN LET j == Next1(c) IN depth[j - 1] - code[j].x - code[j].n
            ELSE 0] 

Compiled ==
    LET es == Expressions
    IN  [p \in DOMAIN es |->
            LET code == Compile(es[p])
                depth == DepthOf(code) @@ <<>>
            IN  [code |-> code, depth |-> depth, hot |-> HotOf(code, depth) @@ <<>>]] @@ <<>>

MCProgram == Compiled

Meanings ==
    LET es == Expressions
    IN  [p \in DOMAIN es |-> Meaning(es[p])] @@ <<>>

(* A call gets the callee, the arguments and the keywords that are written *)
(* for it, and one that cannot be made raises (parser.c:438-530,           *)
(* vm.c:664-709).                                                          *)
CallsAsMeant ==
    /\ status = "done" => stack = <<Meanings[id]>>
    /\ status \in {"raised", "astray"} => Meanings[id] = Raises
DisciplinedAsMeant == Disciplined(Program[id]) => CallsAsMeant

(* A call of a method with a call for its argument.                        *)

CallInArgs == Call(Attr(Val(One), "method"), <<Plain(Called)>>, <<>>, <<>>)
InArgsInit == Init /\ Expressions[id] = CallInArgs
InArgsSpec == InArgsInit /\ [][Next]_vars
=============================================================================
