--------------------------- MODULE PyLiteVerified ---------------------------
(***************************************************************************)
(* The contract between the code generator (src/src/parser.c) and the      *)
(* bytecode loop (src/src/vm.c).  The loop checks nothing: it relies on    *)
(* the generator for every operand it pops, every jump it takes, every     *)
(* cast to an iterator and every handler it enters.  A shape states what   *)
(* the generator keeps track of only in the heads of its authors: for      *)
(* every instruction, how many operands the current call has on the stack, *)
(* which of them have a known value (the iterators of the enclosing for    *)
(* loops, what has just been loaded), which handlers the call has armed    *)
(* and how large the frame vector is at least.                             *)
(*                                                                         *)
(* The tame programs are those that have a shape.  It allows an exception  *)
(* only where the loop handles it as meant: in the frame of the handler    *)
(* that catches it, with the operands the handler expects, and while the   *)
(* frame vector has room, because a vector that grows leaves the addresses *)
(* in the armed handlers stale.                                            *)
(***************************************************************************)
EXTENDS PyLiteVM

CONSTANTS
    Tame,       \* the programs that have a shape
    Shape       \* tame program |-> [code object |-> a record]: depth (how many frames
                \* there are when it runs, 0: any number), under (callers may have
                \* handlers armed), leave (what cap is at least when it returns) and
                \* at, for each pc: height (negative: not reached), known (pairs of a
                \* position and its value), armed (handlers) and room (what cap is at least)

Positions(c) == 0 .. Len(c) - 1
Depth(p, f) == Shape[p][f].depth
Under(p, f) == Shape[p][f].under
Leave(p, f) == Shape[p][f].leave
H(p, f, pc) == Shape[p][f].at[pc].height
Known(p, f, pc) == Shape[p][f].at[pc].known
Armed(p, f, pc) == Shape[p][f].at[pc].armed
Room(p, f, pc) == Shape[p][f].at[pc].room

Armable == [typ : Types, pc : Int]

ShapeType(p) ==
    \A f \in Functions :
        /\ Depth(p, f) \in Nat /\ Under(p, f) \in BOOLEAN /\ Leave(p, f) \in Nat
        /\ \A pc \in Positions(Program[p].code[f]) :
              /\ H(p, f, pc) \in Int /\ Known(p, f, pc) \subseteq Nat \X Value
              /\ Armed(p, f, pc) \in Seq(Armable) /\ Room(p, f, pc) \in Nat

(* Control may be at pc2 with h2 operands, of which kn2 are known.         *)
Flows(p, f, pc2, h2, kn2) ==
    pc2 \in Positions(Program[p].code[f]) /\ H(p, f, pc2) = h2 /\ Known(p, f, pc2) \subseteq kn2

(* What neither the handlers armed nor the frame vector is touched by.     *)
Keeps(p, f, pc, pc2) ==
    Armed(p, f, pc2) = Armed(p, f, pc) /\ Room(p, f, pc2) <= Room(p, f, pc)

(* A handler may be armed, here or in a caller.                            *)
Hot(p, f, pc) == Under(p, f) \/ Armed(p, f, pc) # <<>>

(* One more frame can be had without growing the frame vector.             *)
Roomy(p, f, pc) == Depth(p, f) # 0 /\ Depth(p, f) < Room(p, f, pc)

(* An exception of class t may be raised with h2 operands left: the newest *)
(* handler of this frame that catches it expects one more.  Where none     *)
(* catches it, none of a caller may.                                       *)
Newer(a, t, j) == \A k \in 1 .. Len(a) : a[k].typ \in Ancestors[t] => k <= j
Fails(p, f, pc, t, h2, kn2) ==
    LET a == Armed(p, f, pc) IN
    /\ Hot(p, f, pc) => Roomy(p, f, pc)
    /\ (\A j \in 1 .. Len(a) : a[j].typ \notin Ancestors[t]) => ~ Under(p, f)
    /\ \A j \in 1 .. Len(a) :
          a[j].typ \in Ancestors[t] /\ Newer(a, t, j) =>
              /\ Flows(p, f, a[j].pc, h2 + 1, kn2 \cup {<<h2 + 1, Exc(t)>>})
              /\ Keeps(p, f, pc, a[j].pc)

(* The function g may be called.                                           *)
MayCall(p, f, pc, g) ==
    /\ H(p, g, 0) = 0
    /\ Depth(p, g) # 0 => Depth(p, f) # 0 /\ Depth(p, g) = Depth(p, f) + 1
    /\ Hot(p, f, pc) => Under(p, g) /\ Roomy(p, f, pc)
    /\ Room(p, g, 0) > Room(p, f, pc) => Depth(p, f) # 0 /\ Room(p, g, 0) <= Depth(p, f) + 1
    /\ Room(p, f, pc + 1) > Room(p, f, pc) => Room(p, f, pc + 1) <= Leave(p, g)

WellShaped(p, f, pc) ==
    LET i == Program[p].code[f][pc + 1]
        h == H(p, f, pc)
        kn == Known(p, f, pc)
        armed == Armed(p, f, pc)
        Below(n) == {e \in kn : e[1] <= h - n}
        Go(pc2, h2, kn2) == Flows(p, f, pc2, h2, kn2) /\ Keeps(p, f, pc, pc2)
        Fail(t, n) == Fails(p, f, pc, t, h - n, Below(n))
        Sure(k, kinds) == \E e \in kn : e[1] = h - k /\ e[2].k \in kinds
        May(k, v) == \A e \in kn : e[1] = h - k => e[2] = v
        Fn(g) == [k |-> "fn", n |-> g]
        Made(n) == {<<h - n, Exc(e[2].n)>> : e \in {x \in kn : x[1] = h - n /\ x[2].k = "type"}}
    IN  /\ h >= Needs(i)
        /\ i.op = "LOAD" =>
              IF i.v.k = "undefined" THEN Fail(NameError, 0)
              ELSE Go(pc + 1, h + 1, Below(0) \cup {<<h + 1, i.v>>})
        /\ i.op = "LOADANY" => Go(pc + 1, h + 1, Below(0))
        /\ i.op \in {"SET_VAL", "NOP"} => Go(pc + 1, h, Below(0))
        /\ i.op = "POP" => Go(pc + 1, h - 1, Below(1))
        /\ i.op = "OPERATOR" => /\ Go(pc + 1, h - 1, Below(2))
                                /\ (Sure(0, {"int"}) /\ Sure(1, {"int"})) \/ Fail(TypeError, 2)
        /\ i.op = "NEW_ITER" => /\ Sure(0, {"seq"})
                                /\ Go(pc + 1, h, Below(1) \cup {<<h, [k |-> "iter", n |-> i.n]>>})
        /\ i.op = "FORITER" => /\ Sure(0, {"iter"})
                               /\ Go(pc + 1, h + 1, Below(0))
                               /\ Go(pc + 1 + i.n, h, Below(0))
        /\ i.op = "TEST" => Go(pc + 1, h - 1, Below(1)) /\ Go(pc + 1 + i.n, h - 1, Below(1))
        /\ i.op = "JMP" => Go(pc + 1 + i.n, h, Below(0))
        /\ i.op = "JMP_BACK" => Go(pc + 1 - i.n, h, Below(0))
        /\ i.op = "ASSERT" => /\ Go(pc + 1, h - i.n - 1, Below(i.n + 1))
                              /\ Fail(AssertionError, i.n + 1)
        /\ i.op = "CALL" =>
              /\ Flows(p, f, pc + 1, h - i.n, Below(i.n + 1) \cup Made(i.n))
              /\ Armed(p, f, pc + 1) = armed
              /\ \/ \E e \in kn : /\ e[1] = h - i.n /\ e[2].k \in Callable
                                  /\ e[2].k = "fn" => Program[p].arity[e[2].n] = i.n
                 \/ Fail(TypeError, 0)
              /\ Sure(i.n, {"fn"}) \/ Keeps(p, f, pc, pc + 1)
              /\ \A g \in Functions \ {Main} :
                    Program[p].arity[g] = i.n /\ May(i.n, Fn(g)) => MayCall(p, f, pc, g)
        /\ i.op = "RET" => /\ f # Main /\ i.n \in {0, 1} /\ h = i.n
                           /\ armed = <<>> /\ Leave(p, f) <= Room(p, f, pc)
        /\ i.op = "HALT" => f = Main /\ h = 0 /\ armed = <<>>
        /\ i.op = "EXPT_SETUP" =>
              /\ Flows(p, f, pc + 1, h - 1, Below(1)) /\ Room(p, f, pc + 1) <= Room(p, f, pc)
              /\ \E e \in kn : /\ e[1] = h /\ e[2].k = "type"
                               /\ Armed(p, f, pc + 1) =
                                     Append(armed, [typ |-> e[2].n, pc |-> pc + 1 + i.n])
        /\ i.op = "EXPT_POPN" =>
              /\ Flows(p, f, pc + 1, h, Below(0)) /\ Room(p, f, pc + 1) <= Room(p, f, pc)
              /\ i.n <= Len(armed)
              /\ Armed(p, f, pc + 1) = SubSeq(armed, 1, Len(armed) - i.n)
        /\ i.op = "RAISE" =>
              IF i.n = 0 THEN Fail(RuntimeError, 0)
              ELSE /\ \A t \in Types : May(0, [k |-> "type", n |-> t]) \/ May(0, Exc(t)) => Fail(t, i.n)
                   /\ Sure(0, {"type", "exc"}) \/ Fail(RuntimeError, i.n)

Verified(p) ==
    /\ ShapeType(p)
    /\ H(p, Main, 0) = 0 /\ Depth(p, Main) \in {0, 1} /\ ~ Under(p, Main) /\ Room(p, Main, 0) <= 2
    /\ \A f \in Functions :
          /\ 0 \in Positions(Program[p].code[f])
          /\ H(p, f, 0) >= 0 => Known(p, f, 0) = {} /\ Armed(p, f, 0) = <<>>
          /\ \A pc \in Positions(Program[p].code[f]) : H(p, f, pc) >= 0 => WellShaped(p, f, pc)

ASSUME ShapeAssumption == Tame \subseteq DOMAIN Program /\ \A p \in Tame : Verified(p)
----------------------------------------------------------------------------
(* The inductive invariant.                                                *)
HAt(a) == H(id, a.fn, a.pc)
KnownAt(a) == Known(id, a.fn, a.pc)
ArmedAt(a) == Armed(id, a.fn, a.pc)
RoomAt(a) == Room(id, a.fn, a.pc)

(* The handlers that frame i has armed are those of hs.                    *)
ArmedBy(i, hs) ==
    \A j \in 1 .. Len(hs) :
        handlers[frames[i].hbase + j] =
            [typ |-> hs[j].typ, frame |-> [buf |-> buf, idx |-> i],
             ip |-> [fn |-> frames[i].fn, pc |-> hs[j].pc]]

Suspended(i) ==
    LET a == frames[i].saved IN
    /\ a.fn = frames[i].fn /\ a.pc \in Positions(Code[a.fn])
    /\ HAt(a) >= 1
    /\ frames[i + 1].base = frames[i].base + HAt(a) - 1
    /\ \A e \in KnownAt(a) : /\ 1 <= e[1] /\ e[1] < HAt(a)
                             /\ stack[frames[i].base + e[1]] = e[2]
    /\ ArmedBy(i, ArmedAt(a)) /\ frames[i + 1].hbase = frames[i].hbase + Len(ArmedAt(a))
    /\ RoomAt(a) <= cap \/ RoomAt(a) <= Leave(id, frames[i + 1].fn)

(* The frame on top can go on at a with the operand stack s.               *)
ActiveAt(a, s) ==
    /\ a.fn = Top.fn /\ a.pc \in Positions(Code[a.fn])
    /\ HAt(a) >= 0
    /\ Len(s) = Top.base + HAt(a)
    /\ \A e \in KnownAt(a) : /\ 1 <= e[1] /\ e[1] <= HAt(a)
                             /\ s[Top.base + e[1]] = e[2]
    /\ ArmedBy(Len(frames), ArmedAt(a)) /\ Len(handlers) = Top.hbase + Len(ArmedAt(a))
    /\ RoomAt(a) <= cap

(* A pending exception is caught by the frame on top, or by nothing.       *)
CaughtOnTop ==
    \A j \in Matching : (\A k \in Matching : k <= j) =>
        /\ j > Top.hbase /\ HAt(handlers[j].ip) >= 1
        /\ ActiveAt(handlers[j].ip, Append(stack, Exc(error)))

FramesNested ==
    /\ frames[1].base = 0 /\ frames[1].hbase = 0
    /\ \A i \in 1..Len(frames) : (frames[i].fn = Main) <=> (i = 1)
    /\ \A i, j \in 1..Len(frames) :
          i <= j => /\ 0 <= frames[i].base /\ frames[i].base <= frames[j].base
                    /\ frames[i].hbase <= frames[j].hbase

(* Where the frames are is what the shape says of their functions.         *)
FramesPlaced ==
    /\ Len(frames) <= cap
    /\ \A i \in 1..Len(frames) :
          /\ Depth(id, frames[i].fn) # 0 => i = Depth(id, frames[i].fn)
          /\ ~ Under(id, frames[i].fn) => frames[i].hbase = 0

Sound ==
    /\ NeverWild /\ CleanAtHalt /\ FramesNested /\ FramesPlaced
    /\ status = "run" => \A i \in 1 .. Len(frames) - 1 : Suspended(i)
    /\ Running => ActiveAt(ip, stack)
    /\ Pending => CaughtOnTop

IInv == TypeOK /\ (id \in Tame => Sound)
----------------------------------------------------------------------------
(* Tame programs never run into undefined behaviour: whatever they raise   *)
(* and catch, every operand, jump and handler is where the loop looks for  *)
(* it (vm.c:373-407).                                                      *)
TameNeverWild == id \in Tame => NeverWild

(* Tame programs catch an exception in the frame that armed the handler,   *)
(* and go on with the code of that frame.                                  *)
TameCaught == [][(id \in Tame) => CatchKeepsFrame]_vars
=============================================================================
