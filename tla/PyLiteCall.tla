----------------------------- MODULE PyLiteCall -----------------------------
(***************************************************************************)
(* How the operands of a call come together on the operand stack           *)
(* (src/src/vm.c).  BC_CALL knows the number of operands that can be       *)
(* counted in the source.  The others, the self of a method and what *x    *)
(* unpacks, are counted by ctx->params_offset when the code runs; the next *)
(* BC_CALL adds the count and clears it, whichever call that is.           *)
(*                                                                         *)
(* A call ends here when it has collected callee, arguments and keywords   *)
(* (PyLiteBinding goes on from there): its value is the record of them,    *)
(* which is neither callable nor iterable nor a mapping.  A list stands    *)
(* for whatever keeps its elements in their order.  The keys of a dict,    *)
(* which *x would give in the order of their hashes, are left out:         *)
(* UNPACK_ARG of a dict has no step here.                                  *)
(***************************************************************************)
EXTENDS Integers, Sequences

CONSTANTS
    Literals,       \* the values that programs name
    Spelling,       \* the characters of each name, a sequence of names
    Program         \* id |-> [code, depth, hot]: before each instruction, the
                    \* operands that the parser has counted, and the slot of
                    \* the callee that waits for uncounted ones, or 0

Number(n) == [k |-> "int", n |-> n]
Fn(n) == [k |-> "fn", n |-> n]
Name(n) == [k |-> "str", n |-> n]
List(s) == [k |-> "list", items |-> s]
Dict(m) == [k |-> "dict", map |-> m]
Property == [k |-> "prop"]
Result(f, args, m) == [k |-> "result", fn |-> f, args |-> args, map |-> m]
NoMap == <<>>
Updated(m, u) == [x \in DOMAIN m \cup DOMAIN u |-> IF x \in DOMAIN u THEN u[x] ELSE m[x]]

(* An instruction: opcode, extra operand, exarg, and the constant that the *)
(* operand designates (for GET_ATTR, what the lookup of the name finds).   *)
Opcodes == {"LOAD", "LOAD_VAL", "GET_ATTR", "UNPACK_ARG", "NEW_DICT", "DICT_COMBINE", "CALL"}
Found == {Name(n) : n \in {"method", "own", "prop", "nothing"}}
IsInstruction(i) ==
    /\ i.op \in Opcodes /\ i.n \in Nat /\ i.x \in {0, 1}
    /\ i.op = "GET_ATTR" => i.v \in Found
    /\ i.op = "LOAD" => i.v \in Literals

(* What an instruction pops, and its effect as the parser counts it.       *)
Needs(i) ==
    CASE i.op \in {"LOAD", "LOAD_VAL"} -> 0
      [] i.op \in {"GET_ATTR", "UNPACK_ARG"} -> 1
      [] i.op = "NEW_DICT" -> 2 * i.n
      [] i.op = "DICT_COMBINE" -> 2
      [] i.op = "CALL" -> i.x + i.n + 1
Counts(i) == IF i.op = "UNPACK_ARG" THEN -1 ELSE 1 - Needs(i)

(* What an iterator over a list or a str gives.  The elements of a literal *)
(* are literals.                                                           *)
Iterable(v) == v.k \in {"list", "str"}
Elements(v) == IF v.k = "list" THEN v.items ELSE Spelling[v.n]
ASSUME LiteralAssumption == \A v \in Literals : Iterable(v) => Elements(v) \in Seq(Literals)

(* Programs are expressions: one operand is left, and the parser has seen  *)
(* to the operands of every instruction.                                   *)
IsProgram(p) ==
    /\ Len(p.code) \in Nat
    /\ p.depth \in [0..Len(p.code) -> Nat]
    /\ p.hot \in [0..Len(p.code) -> Nat]
    /\ p.depth[0] = 0 /\ p.depth[Len(p.code)] = 1
    /\ \A c \in 0 .. Len(p.code) - 1 :
          /\ IsInstruction(p.code[c + 1])
          /\ p.depth[c] >= Needs(p.code[c + 1])
          /\ p.depth[c + 1] = p.depth[c] + Counts(p.code[c + 1])

ASSUME ProgramAssumption ==
    LET programs == Program
    IN  \A p \in DOMAIN programs : IsProgram(programs[p])

VARIABLES
    id,             \* the program
    pc,             \* ctx->ip
    stack,          \* ctx->stack
    offset,         \* ctx->params_offset
    status          \* "run", "done", "raised", and "astray": a callee that is
                    \* none of the program's, or a cast of what is no dict

vars == <<id, pc, stack, offset, status>>
----------------------------------------------------------------------------
Code == Program[id].code
Now == Code[pc + 1]
At(op) == status = "run" /\ pc < Len(Code) /\ Now.op = op
Height == Len(stack)
Peek(j) == stack[Height - j]                    \* kv_topn
Popped(n) == SubSeq(stack, 1, Height - n)       \* kv_popn
Goes == pc' = pc + 1 /\ UNCHANGED <<id, status>>
Stops(s) == status' = s /\ UNCHANGED <<id, pc>>

Init ==
    /\ id \in DOMAIN Program
    /\ pc = 0 /\ stack = <<>> /\ offset = 0
    /\ status = "run"

(* The instruction has popped n operands when it fails.  pl_error makes    *)
(* the exception by a call of its own, which adds the offset like any      *)
(* other: unless that is 0, one of the operands below is the callee.       *)
Error(n) ==
    /\ Stops(IF offset = 0 THEN "raised" ELSE "astray")
    /\ stack' = Popped(n) /\ UNCHANGED offset

Load == At("LOAD") /\ Goes /\ stack' = Append(stack, Now.v) /\ UNCHANGED offset

LoadUnknown == At("LOAD_VAL") /\ Error(0)

Finds(S) == Now.v \in {Name(n) : n \in S}

GetMissing == At("GET_ATTR") /\ Finds({"nothing"}) /\ Error(1)

(* A function of the object itself, or a method that is not called here.   *)
GetFunction ==
    /\ At("GET_ATTR") /\ (Finds({"own"}) \/ (Finds({"method"}) /\ Now.x = 0))
    /\ stack' = Append(Popped(1), Fn(Now.v.n))
    /\ Goes /\ UNCHANGED offset

GetMethod ==
    /\ At("GET_ATTR") /\ Finds({"method", "prop"}) /\ Now.x = 1
    /\ stack' = Popped(1) \o <<IF Finds({"prop"}) THEN Property ELSE Fn(Now.v.n), Peek(0)>>
    /\ offset' = 1
    /\ Goes

CallsWithKept(s, n, m) ==       \* mutant: params_offset is not cleared
    LET callee == s[Len(s) - n - offset]
        Base == SubSeq(s, 1, Len(s) - n - offset - 1)
        Arguments == SubSeq(s, Len(s) - n - offset + 1, Len(s))
    IN  /\ UNCHANGED offset
        /\ IF callee.k = "fn"
           THEN stack' = Append(Base, Result(callee.n, Arguments, m)) /\ Goes
           ELSE stack' = s /\ Stops("raised")

(* BC_CALL on the operands s, n of them counted by the parser.             *)
CallsWith(s, n, m) ==
    LET all == n + offset
        callee == s[Len(s) - all]
    IN  /\ offset' = 0
        /\ \/ /\ callee.k = "fn"
              /\ stack' = Append(SubSeq(s, 1, Len(s) - all - 1),
                                 Result(callee.n, SubSeq(s, Len(s) - all + 1, Len(s)), m))
              /\ Goes
           \/ /\ callee.k # "fn"            \* TypeError, made with offset 0
              /\ stack' = s
              /\ Stops("raised")

(* A property is called at once, by a jump into BC_CALL.                   *)
GetProperty ==
    /\ At("GET_ATTR") /\ Finds({"prop"}) /\ Now.x = 0
    /\ CallsWith(Popped(1) \o <<Fn("getter"), Peek(0)>>, 1, NoMap)

UnpackForgetsSelf ==            \* mutant: the count is assigned, not added
    /\ At("UNPACK_ARG") /\ Iterable(Peek(0))
    /\ stack' = Popped(1) \o Elements(Peek(0))
    /\ offset' = Len(Elements(Peek(0)))
    /\ Goes
Unpack ==
    /\ At("UNPACK_ARG") /\ Iterable(Peek(0))
    /\ stack' = Popped(1) \o Elements(Peek(0))
    /\ offset' = offset + Len(Elements(Peek(0)))
    /\ Goes

UnpackRefused ==
    At("UNPACK_ARG") /\ ~Iterable(Peek(0)) /\ Peek(0).k # "dict" /\ Error(1)

(* The mapping of n pairs; of equal keys the last one counts.              *)
DictOf(pairs, n) ==
    LET Key(j) == pairs[2 * j - 1]
        LastOf(x) == CHOOSE j \in 1..n : Key(j) = x /\ \A l \in j + 1 .. n : Key(l) # x
    IN  [x \in {Key(j) : j \in 1..n} |-> pairs[2 * LastOf(x)]]

NewDict ==
    /\ At("NEW_DICT")
    /\ LET n == Now.n
       IN  stack' = Append(Popped(2 * n),
                           Dict(DictOf(SubSeq(stack, Height - 2 * n + 1, Height), n)))
    /\ Goes /\ UNCHANGED offset

DictCombine ==
    /\ At("DICT_COMBINE") /\ Peek(0).k = "dict"
    /\ stack' = Append(Popped(2), Dict(Updated(Peek(1).map, Peek(0).map)))
    /\ Goes /\ UNCHANGED offset
CombineRefused == At("DICT_COMBINE") /\ Peek(0).k # "dict" /\ Error(2)

CallPlain == At("CALL") /\ Now.x = 0 /\ CallsWith(stack, Now.n, NoMap)
CallMapped ==
    /\ At("CALL") /\ Now.x = 1 /\ Peek(0).k = "dict"
    /\ CallsWith(Popped(1), Now.n, Peek(0).map)

(* What ** gives alone is cast to a dict, whatever it is.                  *)
CallMisread ==
    /\ At("CALL") /\ Now.x = 1 /\ Peek(0).k # "dict"
    /\ Stops("astray") /\ stack' = Popped(1) /\ offset' = 0

End ==
    /\ status = "run" /\ pc = Len(Code)
    /\ Stops("done") /\ UNCHANGED <<stack, offset>>

Step ==
    \/ Load \/ LoadUnknown \/ GetMissing \/ GetFunction \/ GetMethod \/ GetProperty
    \/ Unpack \/ UnpackRefused \/ NewDict \/ DictCombine \/ CombineRefused
    \/ CallPlain \/ CallMapped \/ CallMisread \/ End

Next == Step \/ (status # "run" /\ UNCHANGED vars)
Spec == Init /\ [][Next]_vars
----------------------------------------------------------------------------
Depth == Program[id].depth
Hot == Program[id].hot

(* Code in which nothing comes between the counting of a self or of        *)
(* unpacked operands and the call that they belong to, the one whose       *)
(* callee was already there.                                               *)
Disciplined(p) ==
    LET code == p.code
        depth == p.depth
        hot == p.hot
        Slot(i, d) == d - i.x - i.n
    IN  /\ hot[0] = 0 /\ hot[Len(code)] = 0
        /\ \A c \in 0 .. Len(code) - 1 :
              LET i == code[c + 1]
              IN  CASE i.op = "CALL" -> hot[c] \in {0, Slot(i, depth[c])} /\ hot[c + 1] = 0
                    [] i.op = "UNPACK_ARG" ->
                            hot[c + 1] \in 1 .. depth[c + 1] /\ hot[c] \in {0, hot[c + 1]}
                    [] i.op = "GET_ATTR" /\ (i.x = 1 \/ i.v = Name("prop")) ->
                            /\ hot[c] = 0
                            /\ hot[c + 1] = IF i.x = 1 /\ i.v # Name("own") /\ i.v # Name("nothing")
                                            THEN depth[c] ELSE 0
                    [] OTHER -> hot[c + 1] = hot[c]

(* The shape of the state: a stack, on which lists and names are made of   *)
(* literals.                                                               *)
IsOperand(v) == Iterable(v) => Elements(v) \in Seq(Literals)
IsStack(s) ==
    /\ s \in Seq({s[j] : j \in DOMAIN s})
    /\ \A j \in DOMAIN s : IsOperand(s[j])

TypeOK ==
    /\ id \in DOMAIN Program
    /\ pc \in 0 .. Len(Code)
    /\ IsStack(stack)
    /\ offset \in Nat
    /\ status \in {"run", "done", "raised", "astray"}

(* Every instruction of every program finds its operands, those that were  *)
(* counted at run time included: params_offset never exceeds what was      *)
(* pushed for it (vm.c:500, 873) and a BC_CALL takes no more than that     *)
(* (vm.c:667).                                                             *)
OperandsThere == status = "run" => Height >= Depth[pc] + offset

(* In disciplined code the two counts give the height exactly, so that a   *)
(* BC_CALL finds the callee in the slot where the parser counted it; where *)
(* no call waits for uncounted operands, params_offset is 0, and nothing   *)
(* but the value is left at the end (vm.c:667-671, parser.c:525).          *)
HeightCounted ==
    Disciplined(Program[id]) =>
        /\ status \in {"run", "done"} => Height = Depth[pc] + offset
        /\ status \in {"run", "done"} /\ Hot[pc] = 0 => offset = 0
        /\ status = "done" => Height = 1
=============================================================================
