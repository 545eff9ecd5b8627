---------------------------- MODULE MCStatements ----------------------------
(***************************************************************************)
(* Statements without exception handlers: loops nested two deep with break *)
(* and continue and if chains in them, every placement of the leaves       *)
(* below; and functions that return a value, return nothing or fall off    *)
(* their end, return from inside a while, loop, recurse, fail and call     *)
(* others three deep, called in the midst of an expression and inside the  *)
(* loops of the module, with the right and the wrong number of arguments.  *)
(***************************************************************************)
EXTENDS MCPyLite

Leaves(l) == <<Show(l), Break, Continue>>

(* One leaf, or a leaf after a print, or a print that is never reached.    *)
LeafBlocks(l) ==
    Each(LAMBDA s : <<s>>, Leaves(Part(l, 1)))
    \o Each(LAMBDA s : <<Show(Part(l, 1)), s>>, Leaves(Part(l, 4)))
    \o <<<<Break, Show(Part(l, 4))>>, <<Continue, Show(Part(l, 4))>>>>
LeafBlock(l) == Each(LAMBDA s : <<s>>, Leaves(l))

Inner(l) ==
    Each(LAMBDA b : While(l, b), LeafBlocks(l))
    \o Each(LAMBDA b : For(l, b), LeafBlocks(l))
    \o Each(LAMBDA b : If(l, <<b>>, <<>>), LeafBlocks(l))
    \o Pairs(LAMBDA b, e : If(l, <<b>>, e), LeafBlock(Part(l, 1)), LeafBlock(Part(l, 4)))
    \o Pairs(LAMBDA bs, e : If(l, bs, e),
             Pairs(LAMBDA b, c : <<b, c>>, LeafBlock(Part(l, 1)), LeafBlock(Part(l, 4))),
             LeafBlock(Part(l, 7)))

Bodies2(l) ==
    Each(LAMBDA s : <<s>>, Inner(Part(l, 1)))
    \o Each(LAMBDA s : <<s, Show(Part(l, 4))>>, Inner(Part(l, 1)))
    \o Each(LAMBDA s : <<Show(Part(l, 1)), s>>, Inner(Part(l, 4)))

ControlBlocks ==
    LET body == Bodies2(1)
    IN  Each(LAMBDA b : <<While(1, b), Show(2)>>, body)
        \o Each(LAMBDA b : <<For(1, b), Show(2)>>, body)
----------------------------------------------------------------------------
MCLibrary == <<
    [arity |-> 0, block |-> <<Return(1)>>],
    [arity |-> 0, block |-> <<Show(202)>>],
    [arity |-> 1, block |-> <<If(301, <<<<Return(1)>>>>, <<>>), Return(0)>>],
    [arity |-> 0, block |-> <<While(401, <<Return(1)>>), Show(402)>>],
    [arity |-> 0, block |-> <<For(501, <<If(502, <<<<Break>>, <<Continue>>>>, <<Show(503)>>)>>),
                              Return(1)>>],
    [arity |-> 0, block |-> <<For(601, <<Call(1, 0)>>), Return(1)>>],
    [arity |-> 2, block |-> <<Call(3, 1), Show(702), Return(1)>>],
    [arity |-> 0, block |-> <<Check(801, 1), Call(7, 2), Check(802, 0), Return(1)>>],
    [arity |-> 0, block |-> <<If(901, <<<<Call(9, 0)>>>>, <<>>), Return(1)>>],
    [arity |-> 1, block |-> <<While(101, <<RaiseOf([k |-> "exc", n |-> 2])>>), Return(1)>>],
    [arity |-> 0, block |-> <<RaiseOf([k |-> "type", n |-> 5])>>],
    [arity |-> 0, block |-> <<RaiseOf([k |-> "none", n |-> 0])>>],
    [arity |-> 0, block |-> <<RaiseOf([k |-> "int", n |-> 0])>>],
    [arity |-> 0, block |-> <<Add(Unknown)>>]
  >>

(* A function of the library is called by name, whether it takes that many *)
(* arguments or not.                                                       *)
Calls ==
    Pairs(Call, [f \in 1..Len(MCLibrary) |-> f], <<0, 1, 2>>) \o
    <<Add([k |-> "seq", n |-> 0]), Add([k |-> "int", n |-> 1])>>

CallBlocks ==
    Each(LAMBDA s : <<Show(1), s, Show(2)>>, Calls)
    \o Each(LAMBDA s : <<For(3, <<s, Show(4)>>), Show(5)>>, Calls)
    \o Each(LAMBDA s : <<While(6, <<For(7, <<s>>)>>), Show(8)>>, Calls)

MCBlocks == ControlBlocks \o CallBlocks

(* Every program is tame: without handlers nothing is asked of the depth   *)
(* of a call, nor of the room in the frame vector.                         *)
MCTame == DOMAIN Compiled
MCSignatures == [f \in MCFunctions |-> [depth |-> 0, under |-> FALSE, room |-> 0, leave |-> 0]]
=============================================================================
