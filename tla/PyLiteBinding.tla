--------------------------- MODULE PyLiteBinding ---------------------------
(***************************************************************************)
(* How BC_CALL hands its operands to a function: func_call_check of        *)
(* src/src/vm.c, which completes the arguments on the operand stack, and   *)
(* the assignment of the parameters that follows it.  One behaviour is one *)
(* call, of a function or of a class or object with __new__ or __call__,   *)
(* with any signature that parse_func_params (src/src/parser.c) accepts:   *)
(* required parameters before those with defaults, except behind *args, at *)
(* most one *args, and no **kwargs (parse_func makes a required parameter  *)
(* of that).  The tables of C functions follow the same order, and only    *)
(* they have types.  Names are not repeated.                               *)
(*                                                                         *)
(* The function keeps a C pointer, args, to the first operand of the call  *)
(* while it pushes further ones; the stack may move when it grows.         *)
(***************************************************************************)
EXTENDS Integers, Sequences

CONSTANTS
    Names,          \* of parameters
    Objects,        \* what is passed
    Callee,         \* the object called
    Ints,           \* the objects that a typed parameter of a C function takes
    MaxParams,      \* bound: parameters of a function
    MaxArgs,        \* bound: positional arguments of the call
    MaxBelow        \* bound: operands of the caller below the callee

ASSUME BindingAssumption ==
    /\ Callee \in Objects /\ Ints \subseteq Objects
    /\ MaxParams \in Nat /\ MaxArgs \in Nat /\ MaxBelow \in Nat

Kinds == {"required", "default", "rest"}
Param == [name : Names, kind : Kinds, typed : BOOLEAN]

(* What a slot of the stack can hold.  A default fits the type of its      *)
(* parameter.  Memory that was given back holds anything.                  *)
Garbage == [garbage |-> TRUE]
DefaultOf(x) == [default |-> x]
Tuple(s) == [rest |-> s]
Cell == Objects \cup [default : Names] \cup [rest : Seq(Objects \cup {Garbage})]

VARIABLES
    params,         \* info->params, info->defaults and info->type_codes
    plain,          \* the callee is itself a function: no self is inserted
    below, given,   \* ghosts: operands of the caller, positional arguments
    mapping,        \* ghost: name |-> object, the keyword arguments
    pc,             \* "enter", "check", "loop", "types", "ready"; "bound" and
                    \* "refused" are where the call of the function is over
    stack, buf,     \* ctx->stack and which allocation holds it
    args,           \* the pointer: the allocation it points into
    kwargs,         \* what is left of the mapping
    hasKw,          \* kwargs is not NULL
    i, argsI, num,  \* the locals i, args_i and params_num
    locals          \* the parameters of the new frame

vars == <<params, plain, below, given, mapping, pc, stack, buf, args, kwargs, hasKw,
          i, argsI, num, locals>>
call == <<params, plain, below, given, mapping, hasKw>>

Base == Len(below)
Length == Len(params)
Height == Len(stack)
Passed == IF plain THEN given ELSE <<Callee>> \o given
Named(S) == UNION {[N -> Objects] : N \in SUBSET S}
Without(f, x) == [y \in DOMAIN f \ {x} |-> f[y]]
UpTo(S, n) == UNION {[1..k -> S] : k \in 0..n}

TypeOK ==
    /\ params \in Seq(Param) /\ plain \in BOOLEAN
    /\ below \in Seq(Objects) /\ given \in Seq(Objects)
    /\ hasKw \in BOOLEAN
    /\ mapping \in Named(Names) /\ kwargs \in Named(Names)
    /\ pc \in {"enter", "check", "loop", "types", "ready", "bound", "refused"}
    /\ stack \in Seq(Cell) /\ buf \in Nat /\ args \in Nat
    /\ i \in Nat /\ argsI \in Nat /\ num \in Nat
    /\ locals \in [DOMAIN locals -> Cell]

Signature(ps) ==
    \A j, k \in 1..Len(ps) :
        /\ j # k => ps[j].name # ps[k].name /\ ~ (ps[j].kind = "rest" /\ ps[k].kind = "rest")
        /\ j < k /\ ps[j].kind = "default" /\ ps[k].kind = "required" =>
              \E r \in 1 .. k - 1 : ps[r].kind = "rest"

Init ==
    /\ params \in UpTo(Param, MaxParams) /\ Signature(params)
    /\ \A k \in 1..Length : params[k].kind = "rest" => ~ params[k].typed
    /\ plain \in BOOLEAN
    /\ below \in UpTo(Objects, MaxBelow) /\ given \in UpTo(Objects, MaxArgs)
    /\ hasKw \in BOOLEAN /\ mapping \in Named(Names) /\ (~ hasKw => mapping = <<>>)
    /\ pc = "enter"
    /\ stack = below \o <<Callee>> \o given
    /\ buf = 0 /\ args = 0 /\ kwargs = mapping
    /\ i = 0 /\ argsI = 0 /\ num = Len(given)
    /\ locals = <<>>
----------------------------------------------------------------------------
(* kv_pushptr *)
Push(x) == stack' = Append(stack, x) /\ buf' \in {buf, buf + 1}
At(p) == pc = p /\ UNCHANGED call
Refuse ==                       \* func_call_ret: the stack is left as it is
    pc' = "refused" /\ UNCHANGED <<stack, buf, args, kwargs, i, argsI, num, locals>>

(* A callee that is no function becomes the first argument, self or cls of *)
(* its __call__ or __new__: the others move up.                            *)
Enter ==
    /\ At("enter")
    /\ IF plain THEN UNCHANGED <<stack, buf, num>>
       ELSE /\ stack' = [k \in 1 .. Height + 1 |->
                            IF k <= Height - num THEN stack[k]
                            ELSE IF k = Height - num + 1 THEN Callee ELSE stack[k - 1]]
            /\ buf' \in {buf, buf + 1}
            /\ num' = num + 1
    /\ pc' = "check"
    /\ UNCHANGED <<args, kwargs, i, argsI, locals>>

(* Without defaults, *args and keywords only the number matters.           *)
Simple == ~ hasKw /\ \A k \in 1..Length : params[k].kind = "required"

CheckSimple ==
    /\ At("check") /\ Simple
    /\ \/ num = Length /\ pc' = "types"
          /\ UNCHANGED <<stack, buf, args, kwargs, i, argsI, num, locals>>
       \/ num # Length /\ Refuse

CheckParamsStale ==             \* mutant: the pointer is as old as the call
    /\ At("check") /\ ~ Simple
    /\ args' = 0
    /\ pc' = "loop"
    /\ UNCHANGED <<stack, buf, kwargs, i, argsI, num, locals>>

CheckParams ==
    /\ At("check") /\ ~ Simple
    /\ args' = buf
    /\ pc' = "loop"
    /\ UNCHANGED <<stack, buf, kwargs, i, argsI, num, locals>>

(* One round of the loop, for the parameter i + 1.                         *)
This == params[i + 1]
Round(kind) == At("loop") /\ i < Length /\ This.kind = kind /\ i' = i + 1
                          /\ UNCHANGED <<pc, args, locals>>
Left == argsI # num

TakePositional ==
    /\ Round("required") \/ Round("default")
    /\ Left
    /\ argsI' = argsI + 1
    /\ UNCHANGED <<stack, buf, kwargs, num>>

(* A required parameter takes its argument out of the mapping.             *)
TakeKeyword ==
    /\ Round("required") /\ ~ Left
    /\ This.name \in DOMAIN kwargs
    /\ Push(kwargs[This.name])
    /\ kwargs' = Without(kwargs, This.name)
    /\ UNCHANGED <<argsI, num>>

Missing ==
    /\ At("loop") /\ i < Length /\ This.kind = "required" /\ ~ Left
    /\ This.name \notin DOMAIN kwargs
    /\ Refuse

TakeDefaultAlways ==            \* mutant: the keyword is not looked at
    /\ Round("default") /\ ~ Left
    /\ Push(DefaultOf(This.name))
    /\ UNCHANGED <<kwargs, argsI, num>>

TakeDefault ==
    /\ Round("default") /\ ~ Left
    /\ Push(IF This.name \in DOMAIN kwargs THEN kwargs[This.name] ELSE DefaultOf(This.name))
    /\ UNCHANGED <<kwargs, argsI, num>>

(* The rest is copied through the pointer.  The slots it points to are     *)
(* those of the operands, provided that they are where they were.          *)
Memory(k) == IF args = buf THEN stack[Height - num + k] ELSE Garbage

TakeRest ==
    /\ Round("rest") /\ Left
    /\ stack' = Append(SubSeq(stack, 1, Height - (num - argsI)),
                       Tuple([k \in 1 .. num - argsI |-> Memory(argsI + k)]))
    /\ buf' \in {buf, buf + 1}
    /\ num' = argsI
    /\ UNCHANGED <<kwargs, argsI>>

TakeNoRest ==
    /\ Round("rest") /\ ~ Left
    /\ Push(Tuple(<<>>))
    /\ UNCHANGED <<kwargs, argsI, num>>

LoopEnds ==
    /\ At("loop") /\ i = Length
    /\ \/ ~ Left /\ pc' = "types"
          /\ UNCHANGED <<stack, buf, args, kwargs, i, argsI, num, locals>>
       \/ Left /\ Refuse

Operand(k) == stack[Height - Length + k]        \* kv_topn(stack, length - k)
Fits(k) == ~ params[k].typed \/ Operand(k) \in Ints \cup {DefaultOf(params[k].name)}

CheckTypes ==
    /\ At("types")
    /\ \/ (\A k \in 1..Length : Fits(k)) /\ pc' = "ready"
          /\ UNCHANGED <<stack, buf, args, kwargs, i, argsI, num, locals>>
       \/ (\E k \in 1..Length : ~ Fits(k)) /\ Refuse

AssignKeepsCallee ==            \* mutant: the callee is not popped
    /\ At("ready")
    /\ locals' = [x \in {params[k].name : k \in 1..Length} |->
                     Operand(CHOOSE k \in 1..Length : params[k].name = x)]
    /\ stack' = SubSeq(stack, 1, Height - Length)
    /\ pc' = "bound"
    /\ UNCHANGED <<buf, args, kwargs, i, argsI, num>>

(* The parameters are assigned by position from the top of the stack, and  *)
(* they and the callee are popped.                                         *)
Assign ==
    /\ At("ready")
    /\ locals' = [x \in {params[k].name : k \in 1..Length} |->
                     Operand(CHOOSE k \in 1..Length : params[k].name = x)]
    /\ stack' = SubSeq(stack, 1, Height - (Length + 1))
    /\ pc' = "bound"
    /\ UNCHANGED <<buf, args, kwargs, i, argsI, num>>

Step ==
    \/ Enter \/ CheckSimple \/ CheckParams
    \/ TakePositional \/ TakeKeyword \/ Missing \/ TakeDefault \/ TakeRest \/ TakeNoRest
    \/ LoopEnds \/ CheckTypes \/ Assign

Next == Step \/ (pc \in {"bound", "refused"} /\ UNCHANGED vars)
Spec == Init /\ [][Next]_vars
----------------------------------------------------------------------------
(* What a call means: a parameter gets the argument at its place, or the   *)
(* keyword argument of its name, or its default; *args the arguments from  *)
(* its place on, and what follows it no positional argument.               *)
After(k) == \E r \in 1..k : params[r].kind = "rest"     \* k is *args or behind it
Filled(k) == ~ After(k) /\ k <= Len(Passed)
Given(k) == params[k].kind = "rest" \/ Filled(k) \/ params[k].name \in DOMAIN mapping
            \/ params[k].kind = "default"
Expected(k) ==
    IF params[k].kind = "rest"
    THEN Tuple([j \in 1 .. Len(Passed) - k + 1 |-> Passed[k - 1 + j]])
    ELSE IF Filled(k) THEN Passed[k]
    ELSE IF params[k].name \in DOMAIN mapping THEN mapping[params[k].name]
    ELSE DefaultOf(params[k].name)
Admissible ==
    /\ \A k \in 1..Length : Given(k)
    /\ Len(Passed) > Length => After(Length)
    /\ \A k \in 1..Length :
          params[k].typed => Expected(k) \in Ints \cup {DefaultOf(params[k].name)}

(* The function starts with the parameters that the call means, and the    *)
(* caller's operands are left; a call is refused only if it has no meaning.*)
BindsAsMeant ==
    /\ pc = "bound" => /\ Admissible
                       /\ \A k \in 1..Length : locals[params[k].name] = Expected(k)
    /\ pc = "refused" => ~ Admissible

(* Whatever happened, the operands of the caller are there, and after a    *)
(* refusal the callee and the arguments above them (vm.c:677 breaks out).  *)
CallerUntouched ==
    /\ \A k \in 1..Base : stack[k] = below[k]
    /\ IF pc = "bound" THEN Height = Base ELSE Height > Base /\ stack[Base + 1] = Callee

(* The pointer into the stack is used only while the stack has not moved   *)
(* since it was taken (vm.c:235 and vm.c:267).                             *)
ArgsFresh == pc = "loop" /\ i < Length /\ This.kind = "rest" /\ Left => args = buf
----------------------------------------------------------------------------
(* The inductive invariant.                                                *)
CallMade ==
    /\ Signature(params)
    /\ \A k \in 1..Length : params[k].kind = "rest" => ~ params[k].typed
    /\ ~ hasKw => DOMAIN mapping = {}

CallerKept ==
    /\ Base + 1 <= Height
    /\ \A k \in 1..Base : stack[k] = below[k]
    /\ stack[Base + 1] = Callee

Operands(s) ==
    Height = Base + 1 + Len(s) /\ \A k \in 1..Len(s) : stack[Base + 1 + k] = s[k]

Entered == Operands(given) /\ num = Len(given) /\ i = 0 /\ argsI = 0 /\ kwargs = mapping
Checked == Operands(Passed) /\ num = Len(Passed) /\ i = 0 /\ argsI = 0 /\ kwargs = mapping

(* As long as positional arguments are left nothing was pushed, and then   *)
(* there is one operand for each parameter that had its turn.              *)
Filling ==
    /\ i <= Length /\ argsI <= num
    /\ Left => /\ i = argsI /\ num = Len(Passed) /\ Operands(Passed)
               /\ args = buf /\ ~ After(i)
    /\ ~ Left => /\ Height = Base + 1 + i
                 /\ \A k \in 1..i : Given(k) /\ stack[Base + 1 + k] = Expected(k)
                 /\ After(i) \/ (num = Len(Passed) /\ num <= i)
    /\ \A k \in i + 1 .. Length :
          /\ (params[k].name \in DOMAIN kwargs) <=> (params[k].name \in DOMAIN mapping)
          /\ params[k].name \in DOMAIN mapping => kwargs[params[k].name] = mapping[params[k].name]

Complete ==
    /\ Height = Base + 1 + Length
    /\ \A k \in 1..Length : Given(k) /\ stack[Base + 1 + k] = Expected(k)
    /\ Len(Passed) > Length => After(Length)

IInv ==
    /\ TypeOK
    /\ CallMade
    /\ pc # "bound" => CallerKept
    /\ pc = "enter" => Entered
    /\ pc = "check" => Checked
    /\ pc = "loop" => Filling
    /\ pc \in {"types", "ready"} => Complete
    /\ pc = "ready" => Admissible
    /\ CallerUntouched
    /\ BindsAsMeant
=============================================================================
