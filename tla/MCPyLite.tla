------------------------------ MODULE MCPyLite ------------------------------
(***************************************************************************)
(* What the bounded instances of PyLiteVM share: programs given as trees,  *)
(* compiled by PyLiteCompile, run by PyLiteVM and compared, event by       *)
(* event, with their meaning in PyLiteSource.                              *)
(***************************************************************************)
EXTENDS PyLiteVerified, PyLiteCompile

CONSTANTS
    Blocks,     \* the module bodies, one program for each
    Library,    \* the functions they may call: id |-> [arity, block]

    MCTypes     \* exception classes besides the builtin ones

MCFunctions == {0} \cup DOMAIN Library
Arities == [f \in MCFunctions |-> IF f = 0 THEN 0 ELSE Library[f].arity] @@ <<>>
BaseException == 9
MCAllTypes == {1, 2, 3, 4, 5, BaseException} \cup MCTypes
MCAncestors == [t \in MCAllTypes |-> {t, BaseException}]

(* A function that TLC would otherwise evaluate anew at every application; *)
(* for the same reason the definitions below first name what they read.    *)
Table(f) == f @@ <<>>

LibraryCode == Table([f \in DOMAIN Library |-> CompileFunction(Library[f].block)])

Compiled ==
    LET blocks == Blocks
        library == LibraryCode
        arities == Arities
    IN  Table([p \in DOMAIN blocks |->
            [arity |-> arities,
             code |-> (0 :> CompileModule(blocks[p])) @@ library]])

Source == INSTANCE PyLiteSource WITH
    Bodies <- [f \in DOMAIN Library |-> Library[f].block],
    Arity <- Arities,
    Subclass <- LAMBDA t, u : u \in MCAncestors[t],
    TypeErr <- TypeError, RuntimeErr <- RuntimeError,
    AssertionErr <- AssertionError, NameErr <- NameError

Meanings ==
    LET blocks == Blocks
    IN  Table([p \in DOMAIN blocks |-> Source!BlockMeaning(blocks[p], MaxTrace)])

(* The compiled program does what the source program means: its events are *)
(* those of a behaviour of the source so far, and when it stops it stops   *)
(* where and as that behaviour does, by HALT or with the traceback of the  *)
(* same exception (parser.c and vm.c together).                            *)
Conforms ==
    \E b \in Meanings[id] :
        /\ IsPrefix(trace, b.tr)
        /\ status = "halt" => trace = b.tr /\ b.out.o = "norm"
        /\ status = "traceback" => trace = b.tr /\ b.out = [o |-> "exc", v |-> error]
----------------------------------------------------------------------------
(* Trees.  l names a statement; its parts are named by its extensions.     *)
Part(l, i) == 10 * l + i
Show(l) == [t |-> "print", l |-> l]
Break == [t |-> "break"]
Continue == [t |-> "continue"]
Return(n) == [t |-> "return", n |-> n]
Call(f, n) == [t |-> "call", f |-> f, n |-> n]
Add(v) == [t |-> "add", v |-> v]
Unknown == [k |-> "undefined", n |-> 0]
RaiseOf(v) == [t |-> "raise", v |-> v]
Check(l, n) == [t |-> "assert", l |-> l, n |-> n]
If(l, arms, else) == [t |-> "if", l |-> l, arms |-> arms, else |-> else]
While(l, body) == [t |-> "while", l |-> l, body |-> body]
ForIn(kind, l, body) == [t |-> "for", l |-> l, over |-> kind, body |-> body]
For(l, body) == ForIn("seq", l, body)
Try(body, except, finally) ==
    [t |-> "try", body |-> body, except |-> except, finally |-> finally]
Except(types, body) == [types |-> types, body |-> body]

(* Families of trees are sequences, so that a program is its index.        *)
Each(Op(_), s) == <<>> \o [i \in 1..Len(s) |-> Op(s[i])]
Pairs(Op(_, _), s, t) ==
    <<>> \o
    [i \in 1 .. Len(s) * Len(t) |->
        Op(s[((i - 1) \div Len(t)) + 1], t[((i - 1) % Len(t)) + 1])]
----------------------------------------------------------------------------
(* The shape of code, found by following control from the first            *)
(* instruction; PyLiteVerified says what a shape must satisfy.  What is    *)
(* not seen in the code of one function is given: for each function its    *)
(* depth, under, leave, and room when it starts.                           *)
CONSTANT Signatures

(* Where control may go from a, a place with what is known of it.          *)
LOCAL Leads(i, a, given) ==
    LET Keep(n) == {e \in a.known : e[1] <= a.height - n}
        Go(to, n, kn) == [a EXCEPT !.pc = to, !.height = n, !.known = kn]
        Next1(n, kn) == Go(a.pc + 1, n, kn)
        Jump(n, kn) == Go(a.pc + 1 + i.n, n, kn)
        Operand(k) == {e[2] : e \in {x \in a.known : x[1] = a.height - k}}
        Catch(t, n) ==
            LET matching == {j \in 1 .. Len(a.armed) : a.armed[j].typ \in given.ancestors[t]}
            IN  {Go(a.armed[j].pc, a.height - n + 1, Keep(n) \cup {<<a.height - n + 1, Exc(t)>>}) :
                    j \in {x \in matching : \A y \in matching : y <= x}}
        Called == {v \in Operand(i.n) : v.k = "fn"}
    IN  CASE i.op = "LOAD" ->
                IF i.v.k = "undefined" THEN Catch(NameError, 0)
                ELSE {Next1(a.height + 1, Keep(0) \cup {<<a.height + 1, i.v>>})}
          [] i.op = "LOADANY" -> {Next1(a.height + 1, Keep(0))}
          [] i.op = "POP" -> {Next1(a.height - 1, Keep(1))}
          [] i.op = "OPERATOR" -> {Next1(a.height - 1, Keep(2))} \cup
                IF \A k \in {0, 1} : \E v \in Operand(k) : v.k = "int" THEN {} ELSE Catch(TypeError, 2)
          [] i.op = "NEW_ITER" -> {Next1(a.height, Keep(1) \cup {<<a.height, [k |-> "iter", n |-> i.n]>>})}
          [] i.op = "FORITER" -> {Next1(a.height + 1, Keep(0)), Jump(a.height, Keep(0))}
          [] i.op = "TEST" -> {Next1(a.height - 1, Keep(1)), Jump(a.height - 1, Keep(1))}
          [] i.op = "JMP" -> {Jump(a.height, Keep(0))}
          [] i.op = "JMP_BACK" -> {Go(a.pc + 1 - i.n, a.height, Keep(0))}
          [] i.op = "ASSERT" -> {Next1(a.height - i.n - 1, Keep(i.n + 1))} \cup Catch(AssertionError, i.n + 1)
          [] i.op = "CALL" ->
                {IF Called = {}
                 THEN Next1(a.height - i.n, Keep(i.n + 1) \cup
                         {<<a.height - i.n, Exc(v.n)>> : v \in {x \in Operand(i.n) : x.k = "type"}})
                 ELSE [Next1(a.height - i.n, Keep(i.n + 1)) EXCEPT !.room = Max(
                         {a.room} \cup {given.signatures[v.n].leave : v \in Called})]}
                \cup IF \E v \in Operand(i.n) :
                           v.k \in Callable /\ (v.k = "fn" => given.arities[v.n] = i.n)
                     THEN {} ELSE Catch(TypeError, 0)
          [] i.op = "EXPT_SETUP" ->
                {[Next1(a.height - 1, Keep(1)) EXCEPT
                    !.armed = Append(@, [typ |-> v.n, pc |-> a.pc + 1 + i.n])] : v \in Operand(0)}
          [] i.op = "EXPT_POPN" ->
                {[Next1(a.height, Keep(0)) EXCEPT !.armed = SubSeq(@, 1, Len(@) - i.n)]}
          [] i.op = "RAISE" ->
                IF i.n > 0 /\ \E v \in Operand(0) : v.k \in {"type", "exc"}
                THEN UNION {Catch(v.n, i.n) : v \in Operand(0)} ELSE Catch(RuntimeError, i.n)
          [] i.op \in {"RET", "HALT"} -> {}
          [] OTHER -> {Next1(a.height, Keep(0))}

(* Of a place that control reaches in two ways, what both agree on.        *)
LOCAL Meet(a, b) ==
    [a EXCEPT !.known = a.known \cap b.known, !.room = Min({a.room, b.room})]

RECURSIVE Follow(_, _, _, _)
LOCAL Follow(code, given, found, todo) ==
    IF todo = {} THEN found
    ELSE LET a == CHOOSE x \in todo : TRUE
             seen == a.pc \in DOMAIN found
             now == IF seen THEN Meet(found[a.pc], a) ELSE a
         IN  IF a.pc \notin 0 .. Len(code) - 1 \/ (seen /\ found[a.pc] = now)
             THEN Follow(code, given, found, todo \ {a})
             ELSE Follow(code, given, (a.pc :> now) @@ found,
                         (todo \ {a}) \cup Leads(code[a.pc + 1], now, given))

Nowhere == [height |-> -1, known |-> {}, armed |-> <<>>, room |-> 0]
ShapeOf(code, f, given) ==
    LET start == [pc |-> 0, height |-> 0, known |-> {}, armed |-> <<>>,
                  room |-> given.signatures[f].room]
        found == Follow(code, given, <<>>, {start})
    IN  Table([pc \in 0 .. Len(code) - 1 |-> IF pc \in DOMAIN found THEN found[pc] ELSE Nowhere])

RECURSIVE Reached(_, _)
LOCAL Reached(codes, fs) ==
    LET more == fs \cup {v.n : v \in {i.v : i \in UNION {Range(codes[f]) : f \in fs}} \cap
                                     [k : {"fn"}, n : DOMAIN codes]}
    IN  IF more = fs THEN fs ELSE Reached(codes, more)

(* A function that is not called is not reached.                           *)
Shapes ==
    LET compiled == Compiled
        library == LibraryCode
        signatures == Signatures
        given == [signatures |-> signatures, arities |-> Arities, ancestors |-> MCAncestors]
        shapes == Table([f \in DOMAIN library |-> ShapeOf(library[f], f, given)])
    IN  Table([p \in Tame |->
        LET codes == compiled[p].code
            reached == Reached(codes, {0})
        IN  Table([f \in DOMAIN signatures |->
                [at |-> IF f = 0 THEN ShapeOf(codes[0], 0, given)
                        ELSE IF f \in reached THEN shapes[f]
                        ELSE Table([pc \in 0 .. Len(codes[f]) - 1 |-> Nowhere])]
                @@ signatures[f]])])

(* The values of the constants.                                            *)
MCProgram == LET compiled == Compiled IN compiled
MCShape == LET shapes == Shapes IN shapes
MCAncestorsOf == MCAncestors
=============================================================================
