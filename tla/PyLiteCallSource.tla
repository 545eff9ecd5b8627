-------------------------- MODULE PyLiteCallSource --------------------------
(***************************************************************************)
(* Call expressions: the code that the parser emits for them               *)
(* (src/src/parser.c, parse_try_suffix) and what they mean.                *)
(*                                                                         *)
(* An expression is a record with a tag t:                                 *)
(*   [t: "val", v]      a constant or a known name                         *)
(*   [t: "unknown"]     a name that nothing defines                        *)
(*   [t: "attr", e, n]  e.n, n what the lookup finds: a "method" of e's    *)
(*                      class, a function of its "own", a property ("prop")*)
(*                      or "nothing"                                       *)
(*   [t: "call", head, args, kws, map]                                     *)
(*                      args a sequence of [star, e], kws of [name, e],    *)
(*                      map <<>> or <<e>> for **e                          *)
(***************************************************************************)
EXTENDS PyLiteCall, SequencesExt

(* The code.                                                               *)
Ins(op, n, v, x) == <<[op |-> op, n |-> n, v |-> v, x |-> x]>>
Op(op, n) == Ins(op, n, Name(""), 0)
Const(v) == Ins("LOAD", 0, v, 0)
When(b, code) == IF b THEN code ELSE <<>>

(* A call right behind an attribute makes its GET_ATTR push self, too.     *)
MethodTrigger(code) ==
    IF Last(code).op = "GET_ATTR" THEN [code EXCEPT ![Len(code)].x = 1] ELSE code

RECURSIVE Compile(_)
Compile(e) ==
    CASE e.t = "val" -> Const(e.v)
      [] e.t = "unknown" -> Op("LOAD_VAL", 0)
      [] e.t = "attr" -> Compile(e.e) \o Ins("GET_ATTR", 0, Name(e.n), 0)
      [] e.t = "call" ->
            MethodTrigger(Compile(e.head))
            \o FlattenSeq([j \in DOMAIN e.args |->
                   Compile(e.args[j].e) \o When(e.args[j].star, Op("UNPACK_ARG", 0))])
            \o FlattenSeq([j \in DOMAIN e.kws |->
                   Const(Name(e.kws[j].name)) \o Compile(e.kws[j].e)])
            \o When(e.kws # <<>>, Op("NEW_DICT", Len(e.kws)))
            \o FlattenSeq([j \in DOMAIN e.map |-> Compile(e.map[j])])
            \o When(e.kws # <<>> /\ e.map # <<>>, Op("DICT_COMBINE", 0))
            \o Ins("CALL", Len(SelectSeq(e.args, LAMBDA a : ~ a.star)), Name(""),
                   IF e.kws = <<>> /\ e.map = <<>> THEN 0 ELSE 1)
----------------------------------------------------------------------------
(* What an expression means: a value, or Raises.                           *)
Raises == [k |-> "raises"]
AnyRaises(vs) == \E j \in DOMAIN vs : vs[j] = Raises

RECURSIVE Meaning(_)
Operands(a) ==
    LET v == Meaning(a.e)
    IN  CASE v # Raises /\ ~ a.star -> List(<<v>>)
          [] Iterable(v) -> List(Elements(v))
          [] OTHER -> Raises

CallMeaning(e) ==
    LET head == Meaning(e.head)
        self == IF e.head.t = "attr" /\ e.head.n = "method" THEN <<Meaning(e.head.e)>> ELSE <<>>
        args == [j \in DOMAIN e.args |-> Operands(e.args[j])]
        kws == [j \in DOMAIN e.kws |-> Meaning(e.kws[j].e)]
        mapped == [j \in DOMAIN e.map |-> Meaning(e.map[j])]
        named == [x \in {Name(e.kws[j].name) : j \in DOMAIN e.kws} |->
                     kws[CHOOSE j \in DOMAIN e.kws :
                            /\ Name(e.kws[j].name) = x
                            /\ \A l \in DOMAIN e.kws : Name(e.kws[l].name) = x => l <= j]]
    IN  IF \/ AnyRaises(<<head>> \o args \o kws \o mapped)
           \/ head.k # "fn"
           \/ mapped # <<>> /\ mapped[1].k # "dict"
        THEN Raises
        ELSE Result(head.n,
                    self \o FlattenSeq([j \in DOMAIN args |-> args[j].items]),
                    IF mapped = <<>> THEN named ELSE Updated(named, mapped[1].map))

Meaning(e) ==
    CASE e.t = "val" -> e.v
      [] e.t = "unknown" -> Raises
      [] e.t = "attr" ->
            LET v == Meaning(e.e)
            IN  CASE v = Raises \/ e.n = "nothing" -> Raises
                  [] e.n = "prop" -> Result("getter", <<v>>, NoMap)
                  [] OTHER -> Fn(e.n)
      [] e.t = "call" -> CallMeaning(e)
=============================================================================
