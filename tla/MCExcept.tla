------------------------------ MODULE MCExcept ------------------------------
(***************************************************************************)
(* Exceptions.  The tame programs are those whose handling is as meant:    *)
(* the exception is raised by a raise statement or an assertion in the     *)
(* frame of the try, no for loop separates the two, control leaves a try   *)
(* only at its end or by an exception that a handler of that try catches,  *)
(* or none does, handlers do not raise, and the frame vector does not grow *)
(* while a handler is armed.  In the wild ones the exception crosses a     *)
(* frame, or the vector grows, or a for loop is over an int.               *)
(***************************************************************************)
EXTENDS MCPyLite

(* Exception classes 1 to 5 are builtin, 6 is raised by nothing.           *)
MCOther == {6}
Type(t) == [k |-> "type", n |-> t]
Instance(t) == [k |-> "exc", n |-> t]

Raisers(l) == <<
    RaiseOf(Type(TypeError)), RaiseOf(Instance(NameError)),
    RaiseOf([k |-> "none", n |-> 0]), RaiseOf([k |-> "int", n |-> 0]),
    Check(l, 0), Check(l, 1), If(l, <<<<RaiseOf(Type(NameError))>>>>, <<>>) >>

Tried(l) ==
    Each(LAMBDA s : <<s>>, Raisers(Part(l, 1)))
    \o Each(LAMBDA s : <<Show(Part(l, 1)), s, Show(Part(l, 7))>>, Raisers(Part(l, 4)))
    \o Each(LAMBDA s : <<While(Part(l, 1), <<s>>)>>, Raisers(Part(l, 2)))
    \o << <<Show(Part(l, 1))>>, <<For(Part(l, 1), <<Break>>), Show(Part(l, 2))>> >>

(* One except or three, classes alone, in tuples, in both orders.          *)
Excepts(l) == <<
    <<Except(<<BaseException>>, <<Show(Part(l, 4))>>)>>,
    <<Except(<<TypeError>>, <<Show(Part(l, 4))>>)>>,
    <<Except(<<6, TypeError, NameError>>, <<Show(Part(l, 4))>>)>>,
    <<Except(<<6>>, <<Show(Part(l, 4))>>), Except(<<NameError>>, <<>>),
      Except(<<BaseException>>, <<Show(Part(l, 5))>>)>>,
    <<Except(<<AssertionError, RuntimeError>>, <<Show(Part(l, 4)), Show(Part(l, 5))>>),
      Except(<<TypeError>>, <<Show(Part(l, 6))>>)>> >>
Catching(l) == Except(<<BaseException>>, <<Show(Part(l, 5))>>)

TryAt(l) == Pairs(LAMBDA b, e : Try(b, e, <<>>), Tried(l), Excepts(l))

InModule ==
    Each(LAMBDA s : <<s, Show(2)>>, TryAt(1))
    \o Each(LAMBDA s : <<While(3, <<s>>), Show(2)>>, TryAt(1))
    \o Each(LAMBDA s : <<For(3, <<s, Show(4)>>), s, Show(2)>>, TryAt(1))
    \o Each(LAMBDA b : <<Try(<<Try(b, <<Catching(1)>>, <<>>), Show(6)>>,
                             <<Except(<<TypeError>>, <<Show(7)>>)>>, <<>>),
                         RaiseOf(Type(TypeError))>>, Tried(1))
    \o << <<Try(<<Show(1)>>, <<Except(<<TypeError>>, <<Show(3)>>)>>, <<Show(4)>>), Show(5)>>,
          <<Try(<<Show(1)>>, <<>>, <<Show(4)>>), Show(5)>> >>
(* A try in a called function.  A call of function 4, two frames deep,     *)
(* makes the frame vector grow while no handler is armed.                  *)
Trying == <<3, 6, 7>>
Warmed == Each(LAMBDA f : <<Call(4, 0), For(3, <<Call(f, IF f = 6 THEN 1 ELSE 0), Show(4)>>)>>,
               Trying)

(* A call in a try, of a function that does not fail or that handles its   *)
(* own exception, before and after the frame vector has grown.             *)
CallsInTry ==
    Each(LAMBDA b : <<Try(b, <<Catching(1)>>, <<>>), Show(2)>>,
         << <<Call(1, 0), RaiseOf(Type(TypeError))>>, <<While(3, <<Call(1, 0), Check(4, 0)>>)>> >>)
    \o Each(LAMBDA b : <<Call(4, 0), Try(b, <<Except(<<NameError>>, <<>>), Catching(1)>>, <<>>),
                         Show(2)>>,
            << <<Call(3, 0), Check(3, 1)>>, <<While(3, <<Call(3, 0)>>), RaiseOf(Type(TypeError))>> >>)
TameBlocks == InModule \o Warmed \o CallsInTry

WildBlocks ==
    Each(LAMBDA f : <<Call(f, 0), Show(2)>>, <<3, 7, 8>>)
    \o Each(LAMBDA f : <<Call(4, 0), Call(f, 0), Show(2)>>, <<2, 8>>)
    \o Each(LAMBDA b : <<Try(b, <<Except(<<6>>, <<Show(3)>>), Catching(1)>>, <<>>), Show(2)>>,
             << <<Call(2, 0)>>, <<Show(9), Call(8, 0)>>, <<Call(4, 0), RaiseOf(Type(TypeError))>>,
                <<Call(6, 1)>>, <<ForIn("int", 3, <<Show(4)>>)>> >>)

AllBlocks == TameBlocks \o WildBlocks
MCBlocks == AllBlocks
TamePrograms == 1 .. Len(TameBlocks)
MCTame == TamePrograms

(* What the tame programs rely on when they call a function.  Functions 1  *)
(* and 3 are called in a try; the frame vector starts with room for two,   *)
(* and function 4 leaves it with room for the function it calls.           *)
MCSignatures ==
    LET Sig(d, u, r, l) == [depth |-> d, under |-> u, room |-> r, leave |-> l]
    IN  (0 :> Sig(1, FALSE, 2, 0) @@ 1 :> Sig(2, TRUE, 2, 2) @@ 3 :> Sig(2, TRUE, 3, 3)
         @@ 4 :> Sig(2, FALSE, 2, 3) @@ 5 :> Sig(3, FALSE, 3, 3)
         @@ 6 :> Sig(2, FALSE, 3, 3) @@ 7 :> Sig(2, FALSE, 3, 3)
         @@ [f \in MCFunctions |-> Sig(0, FALSE, 0, 0)])

----------------------------------------------------------------------------
(* The exception is raised in a called function.                           *)
FromCallee == << <<Try(<<Call(2, 0)>>, <<Catching(1)>>, <<>>), Show(2)>> >>

MCLibrary == <<
    [arity |-> 0, block |-> <<Return(1)>>],
    [arity |-> 0, block |-> <<RaiseOf(Type(TypeError))>>],
    [arity |-> 0, block |-> <<Try(<<RaiseOf(Type(TypeError))>>, <<Catching(1)>>, <<>>),
                              Return(1)>>],
    [arity |-> 0, block |-> <<Call(5, 0), Return(1)>>],
    [arity |-> 0, block |-> <<Return(1)>>],
    [arity |-> 1, block |->
        <<While(601, <<Try(<<Show(602), If(603, <<<<RaiseOf(Instance(NameError))>>>>, <<>>)>>,
                           <<Except(<<TypeError, NameError>>, <<Show(604)>>)>>, <<Show(605)>>)>>),
          Return(1)>>],
    [arity |-> 0, block |-> <<Try(<<Check(701, 1)>>, <<Except(<<6>>, <<>>)>>, <<>>), Return(1)>>],
    [arity |-> 0, block |-> <<Try(<<Call(2, 0)>>, <<Catching(8)>>, <<>>), Return(1)>>]
  >>
=============================================================================
