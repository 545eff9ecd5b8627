---------------------------- MODULE PyLiteSource ----------------------------
(***************************************************************************)
(* What the statements of PyLiteCompile mean: the reference that compiled  *)
(* code is compared with.  A statement denotes a set of behaviours, each a *)
(* sequence of observable events and the way the statement ends:           *)
(* normally, by break, continue or return, by an exception, or "cut" when  *)
(* the next event would be beyond the bound of m events.                   *)
(***************************************************************************)
EXTENDS Integers, Sequences

CONSTANTS
    Bodies,         \* the functions of the program: id |-> block
    Arity,          \* id |-> number of parameters
    Subclass(_, _), \* one exception class is the other or derives from it
    TypeErr, RuntimeErr, AssertionErr, NameErr

LOCAL End(o, v) == [o |-> o, v |-> v]
Behaves(tr, o, v) == {[tr |-> tr, out |-> End(o, v)]}
Ends(o, v) == Behaves(<<>>, o, v)

(* The behaviours of A, each that ends with one of outs continued by K of  *)
(* the number of events left and of the way it ended.                      *)
After(A, m, outs, K(_, _)) ==
    {a \in A : a.out.o \notin outs} \cup
    UNION {{[tr |-> a.tr \o b.tr, out |-> b.out] : b \in K(m - Len(a.tr), a.out)} :
              a \in {x \in A : x.out.o \in outs}}

(* An event of unknown outcome: K(1) on true or one more item, else K(0).  *)
Asks(e, l, m, K(_)) ==
    IF m = 0 THEN Ends("cut", 0)
    ELSE UNION {{[tr |-> <<<<e, l, b>>>> \o x.tr, out |-> x.out] : x \in K(b)} : b \in {0, 1}}

RECURSIVE Meaning(_, _), BlockMeaning(_, _), Loop(_, _, _), Arms(_, _, _)

BlockMeaning(block, m) ==
    IF block = <<>> THEN Ends("norm", 0)
    ELSE After(Meaning(Head(block), m), m, {"norm"},
               LAMBDA left, out : BlockMeaning(Tail(block), left))

Loop(e, s, m) ==
    Asks(e, s.l, m, LAMBDA b :
        IF b = 0 THEN Ends("norm", 0)
        ELSE LET round == BlockMeaning(s.body, m - 1)
                 again == After(round, m - 1, {"norm", "cont"},
                                LAMBDA left, out : Loop(e, s, left))
             IN  After(again, m - 1, {"brk"}, LAMBDA left, out : Ends("norm", 0)))

Arms(s, i, m) ==
    IF i > Len(s.arms) THEN BlockMeaning(s.else, m)
    ELSE Asks("cond", s.l + i - 1, m, LAMBDA b :
            IF b = 1 THEN BlockMeaning(s.arms[i], m - 1) ELSE Arms(s, i + 1, m - 1))

(* The first except whose classes cover the exception; else it goes on.    *)
Handle(s, v, m) ==
    LET covers == {i \in 1..Len(s.except) :
                      \E j \in 1..Len(s.except[i].types) : Subclass(v, s.except[i].types[j])}
    IN  IF covers = {} THEN Ends("exc", v)
        ELSE BlockMeaning(s.except[CHOOSE i \in covers : \A k \in covers : i <= k].body, m)

(* finally runs whatever happened, and what happened stands unless the     *)
(* finally block itself ends in another way.                               *)
TryMeaning(s, m) ==
    LET tried == After(BlockMeaning(s.body, m), m, {"exc"},
                       LAMBDA left, out : Handle(s, out.v, left))
    IN  After(tried, m, {"norm", "brk", "cont", "ret", "exc"},
              LAMBDA left, out :
                  After(BlockMeaning(s.finally, left), left, {"norm"},
                        LAMBDA l2, o2 : Ends(out.o, out.v)))

(* 1 + f(...): a function that falls off its end or returns nothing gives  *)
(* None, which cannot be added.                                            *)
CallMeaning(s, m) ==
    IF Arity[s.f] # s.n THEN Ends("exc", TypeErr)
    ELSE After(BlockMeaning(Bodies[s.f], m), m, {"norm", "ret"},
               LAMBDA left, out :
                   IF out.o = "ret" /\ out.v = 1 THEN Ends("norm", 0)
                   ELSE Ends("exc", TypeErr))

Meaning(s, m) ==
    CASE s.t = "print" -> IF m = 0 THEN Ends("cut", 0)
                          ELSE Behaves(<<<<"out", s.l, 1>>>>, "norm", 0)
      [] s.t = "call" -> CallMeaning(s, m)
      [] s.t = "add" -> IF s.v.k = "undefined" THEN Ends("exc", NameErr)
                        ELSE IF s.v.k = "int" THEN Ends("norm", 0) ELSE Ends("exc", TypeErr)
      [] s.t = "assert" -> Asks("cond", s.l, m, LAMBDA b :
                               IF b = 1 THEN Ends("norm", 0) ELSE Ends("exc", AssertionErr))
      [] s.t = "break" -> Ends("brk", 0)
      [] s.t = "continue" -> Ends("cont", 0)
      [] s.t = "return" -> Ends("ret", s.n)
      [] s.t = "raise" -> IF s.v.k \in {"type", "exc"} THEN Ends("exc", s.v.n)
                          ELSE Ends("exc", RuntimeErr)
      [] s.t = "if" -> Arms(s, 1, m)
      [] s.t = "while" -> Loop("cond", s, m)
      [] s.t = "for" -> IF s.over = "seq" THEN Loop("iter", s, m) ELSE Ends("exc", TypeErr)
      [] s.t = "try" -> TryMeaning(s, m)
=============================================================================
