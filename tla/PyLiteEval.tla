----------------------------- MODULE PyLiteEval -----------------------------
(***************************************************************************)
(* A statement, from its text to its effects: it is written out as tokens, *)
(* parsed (PyLiteExpr), and its instructions run by the loop of vm.c over  *)
(* values that remember how they came about.  Next to it, what the         *)
(* statement means, read off its tree.                                     *)
(*                                                                         *)
(* A tree is <<"name", n>>, <<"const", c>>, <<op, x>>, <<op, x, y>>, a     *)
(* display <<"tuple" | "list" | "set", elements>> or <<"dict", items>>,    *)
(* <<"attr", x, n>>, <<"item", x, k>>, <<"slice", x, i, j, k>>,            *)
(* <<"call", f, args, keywords>> or <<"lambda", body>>; a value is a tree  *)
(* over the values that names had at first.                                *)
(***************************************************************************)
EXTENDS PyLiteExpr, FiniteSets

CONSTANT Statements     \* [kind, targets, value], kind "expr", "=", "del", "+=", ...

VARIABLES
    stmt,       \* the statement
    code, ip,   \* its instructions, and the next one
    vm,         \* [stack, env, log, popped]: the names, the calls and stores made
    status      \* "text", "run", "done"; "refused" by the parser; "wild": no operand left

evars == <<stmt, code, ip, vm, status>>

----------------------------------------------------------------------------
(* The text: parentheses where Python needs them, and where the code does  *)
(* (to the right of **, comparisons among each other, lambda and tuples)   *)

LevelOf(op) ==
    CASE op = "or" -> 1 [] op = "and" -> 2 [] op = "not" -> 3
      [] op \in {"<", "<=", "in", "not in", "is", "is not", "=="} -> 4
      [] op = "|" -> 5 [] op = "^" -> 6 [] op = "&" -> 7 [] op \in {"<<", ">>"} -> 8
      [] op \in {"+", "-"} -> 9 [] op \in {"*", "/", "//", "%", "@"} -> 10
      [] op \in {"pos", "neg", "bitnot"} -> 11 [] op = "**" -> 12
      [] op \in {"lambda", "tuple"} -> 0
      [] OTHER -> 13

Spelling(op) ==
    CASE op = "neg" -> <<"-">> [] op = "pos" -> <<"+">> [] op = "bitnot" -> <<"~">>
      [] op = "not in" -> <<"not", "in">> [] op = "is not" -> <<"is", "not">>
      [] OTHER -> <<op>>

Bracketed(l, s, r) == <<l>> \o s \o <<r>>
Separated(ss) == FlattenSeq([i \in DOMAIN ss |-> IF i = 1 THEN ss[i] ELSE <<",">> \o ss[i]])

RECURSIVE Bare(_), Toks(_, _)
Toks(t, level) == IF LevelOf(t[1]) < level THEN Bracketed("(", Bare(t), ")") ELSE Bare(t)

All(ts, level) == [i \in DOMAIN ts |-> Toks(ts[i], level)]
Commas(t) == Separated(All(t[2], 1)) \o (IF t[1] = "tuple" /\ Len(t[2]) = 1 THEN <<",">> ELSE <<>>)

Bare(t) ==
    LET op == t[1]
        l == LevelOf(op)
        x == t[2]
    IN CASE op \in {"name", "const"} -> <<x>>
         [] op = "tuple" -> Commas(t)
         [] op = "list" -> Bracketed("[", Commas(t), "]")
         [] op = "set" -> Bracketed("{", Commas(t), "}")
         [] op = "dict" -> Bracketed("{", Separated([i \in DOMAIN x |-> Toks(x[i][1], 1) \o <<":">> \o Toks(x[i][2], 1)]), "}")
         [] op = "attr" -> Toks(x, 13) \o <<".", t[3]>>
         [] op = "item" -> Toks(x, 13) \o Bracketed("[", Toks(t[3], 1), "]")
         [] op = "slice" ->
              LET part(i) == IF t[i] = <<"none">> THEN <<>> ELSE Toks(t[i], 1)
                  step == IF t[5] = <<"none">> THEN <<>> ELSE <<":">> \o part(5)
              IN  Toks(x, 13) \o Bracketed("[", part(3) \o <<":">> \o part(4) \o step, "]")
         [] op = "call" ->
              Toks(x, 13) \o Bracketed("(", Separated(All(t[3], 1) \o
                  [i \in DOMAIN t[4] |-> <<t[4][i][1], "=">> \o Toks(t[4][i][2], 1)]), ")")
         [] op = "lambda" -> <<"lambda", ":">> \o Toks(x, 1)
         [] op = "**" -> Toks(x, 13) \o <<op>> \o Toks(t[3], IF t[3][1] = "**" THEN 13 ELSE 11)
         [] l \in {3, 11} -> Spelling(op) \o Toks(x, l)
         [] OTHER -> Toks(x, IF l = 4 THEN 5 ELSE l) \o Spelling(op) \o Toks(t[3], l + 1)

StatementToks(s) ==
    LET left == [i \in DOMAIN s.targets |-> Toks(s.targets[i], 0)]
        right == Toks(s.value, 0)
    IN  (CASE s.kind = "expr" -> right
           [] s.kind = "del" -> <<"del">> \o Separated(left)
           [] OTHER -> FlattenSeq([i \in DOMAIN left |-> left[i] \o <<s.kind>>]) \o right)
        \o <<"NEWLINE">>

----------------------------------------------------------------------------
(* The meaning: values, and the calls and stores in the order of Python *)

Env0 == [n \in Names |-> <<"name", n>>]

RECURSIVE Value(_, _), Calls(_, _)
Values(ts, e) == [i \in DOMAIN ts |-> Value(ts[i], e)]
Pairs(x, e) == {<<Value(x[i][1], e), Value(x[i][2], e)>> : i \in DOMAIN x}

Value(t, e) ==
    CASE t[1] = "name" -> e[t[2]]
      [] t[1] \in {"const", "none"} -> t
      [] t[1] = "lambda" -> <<"lambda", Value(t[2], Env0)>>
      [] t[1] \in {"tuple", "list"} -> <<t[1], Values(t[2], e)>>
      [] t[1] = "set" -> <<"set", Range(Values(t[2], e))>>
      [] t[1] = "dict" -> <<"dict", Pairs(t[2], e)>>
      [] t[1] = "attr" -> <<"attr", Value(t[2], e), t[3]>>
      [] t[1] = "call" -> <<"call", Value(t[2], e), Values(t[3], e),
                            {<<t[4][i][1], Value(t[4][i][2], e)>> : i \in DOMAIN t[4]}>>
      [] OTHER -> <<t[1]>> \o [i \in 1 .. Len(t) - 1 |-> Value(t[i + 1], e)]

CallsOfAll(ts, e) == FlattenSeq([i \in DOMAIN ts |-> Calls(ts[i], e)])

(* The calls made while t is evaluated, from left to right *)
Calls(t, e) ==
    CASE t[1] \in {"name", "const", "none", "lambda"} -> <<>>
      [] t[1] \in {"tuple", "list", "set"} -> CallsOfAll(t[2], e)
      [] t[1] = "dict" -> CallsOfAll(FlattenSeq(t[2]), e)
      [] t[1] = "attr" -> Calls(t[2], e)
      [] t[1] = "call" -> Calls(t[2], e) \o CallsOfAll(t[3], e)
                          \o CallsOfAll([i \in DOMAIN t[4] |-> t[4][i][2]], e) \o <<Value(t, e)>>
      [] OTHER -> CallsOfAll(Tail(t), e)

(* The components of a value *)
Component(v, i) == IF v[1] \in {"tuple", "list"} THEN v[2][i] ELSE <<"component", v, i>>

Does(st, t, what) == [st EXCEPT !.log = @ \o CallsOfAll(Tail(t), st.env) \o <<what>>]

(* st is [env, log] *)
RECURSIVE Assigned(_, _, _)
Assigned(st, t, v) ==
    LET e == st.env IN
    CASE t[1] = "name" -> [st EXCEPT !.env[t[2]] = v]
      [] t[1] = "attr" -> [st EXCEPT !.log = @ \o Calls(t[2], e) \o <<<<"setattr", Value(t[2], e), t[3], v>>>>]
      [] t[1] = "item" -> Does(st, t, <<"setitem", Value(t[2], e), Value(t[3], e), v>>)
      [] t[1] = "slice" -> Does(st, t, <<"setslice", Value(t[2], e), Value(t[3], e), Value(t[4], e), Value(t[5], e), v>>)
      [] OTHER -> FoldLeft(LAMBDA s, i : Assigned(s, t[2][i], Component(v, i)), st, [i \in DOMAIN t[2] |-> i])

Deleted(st, t) ==
    LET e == st.env IN
    CASE t[1] = "name" -> [st EXCEPT !.env[t[2]] = <<"none">>]
      [] t[1] = "attr" -> [st EXCEPT !.log = @ \o Calls(t[2], e) \o <<<<"delattr", Value(t[2], e), t[3]>>>>]
      [] t[1] = "item" -> Does(st, t, <<"delitem", Value(t[2], e), Value(t[3], e)>>)
      [] OTHER -> Does(st, t, <<"delslice", Value(t[2], e), Value(t[3], e), Value(t[4], e), Value(t[5], e)>>)

Meaning(s) ==
    LET st == [env |-> Env0, log |-> Calls(s.value, Env0)]
        v == Value(s.value, Env0)
        t == s.targets[1]
    IN CASE s.kind = "expr" -> [st EXCEPT !.log = Append(@, <<"value", v>>)]
         [] s.kind = "=" -> FoldLeft(LAMBDA a, x : Assigned(a, x, v), st, s.targets)
         [] s.kind = "del" -> FoldLeft(Deleted, [st EXCEPT !.log = <<>>], s.targets)
         [] OTHER -> Assigned(st, t, <<AugOps[s.kind], Value(t, Env0), v>>)

----------------------------------------------------------------------------
(* The instructions (pylt_vm_run) on m = [stack, env, log, popped] *)

Top(m, n) == m.stack[Len(m.stack) - n]
Drop(m, n) == [m EXCEPT !.stack = SubSeq(@, 1, Len(@) - n)]
Push(m, v) == [m EXCEPT !.stack = Append(@, v)]
PushAll(m, vs) == [m EXCEPT !.stack = @ \o vs]
Logged(m, what) == [m EXCEPT !.log = Append(@, what)]
LastOf(m, n) == SubSeq(m.stack, Len(m.stack) - n + 1, Len(m.stack))

IsUnary(op) == op \in {"pos", "neg", "bitnot", "not"}

(* How many operands an instruction takes off the stack, and how many more *)
(* it looks at                                                             *)
Pops(i) ==
    CASE i.code \in {"GET_ATTR", "GET_ATTR_", "SET_ATTR", "DEL_ATTR", "POP", "UNPACK_SEQ"} -> 1
      [] i.code \in {"GET_ITEM", "GET_ITEM_", "SET_ITEM", "DEL_ITEM"} -> 2
      [] i.code \in {"GET_SLICE", "GET_SLICE_", "SET_SLICE", "DEL_SLICE"} -> 4
      [] i.code = "OPERATOR" -> IF IsUnary(i.extra) THEN 1 ELSE 2
      [] i.code = "POPN" -> i.extra
      [] i.code = "CALL" -> i.exarg + i.extra + 1
      [] i.code = "NEW_OBJ" -> CASE i.exarg = "DICT" -> 2 * i.extra [] i.exarg = "FUNCTION" -> 6 [] OTHER -> i.extra
      [] OTHER -> 0

LooksAt(i) ==
    CASE i.code = "SET_VAL" -> 1
      [] i.code = "SET_VALX" -> 1 + i.exarg
      [] i.code \in {"SET_ATTR", "SET_ITEM"} -> Pops(i) + 1 + i.exarg
      [] i.code = "SET_SLICE" -> Pops(i) + 1 + i.extra
      [] OTHER -> Pops(i)

KwargsOf(d) == {<<p[1][2], p[2]>> : p \in d[2]}

RECURSIVE Exec(_, _)
Exec(m, i) ==
    LET n == Pops(i)
        d == Drop(m, n)
        a == Top(m, n - 1)          \* the operand pushed first
        args == LastOf(m, n)
    IN CASE i.code = "LOADNONE" -> Push(m, <<"none">>)
         [] i.code = "LOADCONST" -> Push(m, <<"const", i.extra>>)
         [] i.code \in {"LOAD_VAL", "LOAD_VAL_"} -> Push(m, m.env[i.extra])
         [] i.code \in {"SET_VAL", "SET_VALX"} -> [m EXCEPT !.env[i.extra] = Top(m, i.exarg)]
         [] i.code \in {"GET_ATTR", "GET_ATTR_"} -> Push(d, <<"attr", a, i.extra>>)
         [] i.code = "SET_ATTR" -> Logged(d, <<"setattr", a, i.extra, Top(d, i.exarg)>>)
         [] i.code \in {"GET_ITEM", "GET_ITEM_"} -> Push(d, <<"item">> \o args)
         [] i.code = "SET_ITEM" -> Logged(d, <<"setitem">> \o args \o <<Top(d, i.exarg)>>)
         [] i.code \in {"GET_SLICE", "GET_SLICE_"} -> Push(d, <<"slice">> \o args)
         [] i.code = "SET_SLICE" -> Logged(d, <<"setslice">> \o args \o <<Top(d, i.extra)>>)
         [] i.code = "OPERATOR" -> Push(d, <<i.extra>> \o args)
         [] i.code = "NEW_OBJ" ->
              Push(d, CASE i.exarg \in {"TUPLE", "LIST"} -> <<IF i.exarg = "LIST" THEN "list" ELSE "tuple", args>>
                        [] i.exarg = "SET" -> <<"set", Range(args)>>
                        [] i.exarg = "DICT" -> <<"dict", {<<args[2 * k - 1], args[2 * k]>> : k \in 1 .. i.extra}>>
                        [] OTHER -> <<"lambda", Last(FoldLeft(Exec, [m EXCEPT !.env = Env0, !.stack = <<>>], args[3][2]).stack)>>)
         [] i.code = "CALL" ->
              LET v == <<"call", a, SubSeq(args, 2, i.extra + 1), IF i.exarg = 1 THEN KwargsOf(Last(args)) ELSE {}>>
              IN  Logged(Push(d, v), v)
         [] i.code = "UNPACK_SEQ" -> PushAll(d, [k \in 1 .. i.extra |-> Component(a, k)])
         [] i.code = "POP" -> [d EXCEPT !.popped = a]
         [] i.code = "POPN" -> d
         [] i.code = "DEL_NAME" -> [m EXCEPT !.env[i.extra] = <<"none">>]
         [] i.code = "DEL_ATTR" -> Logged(d, <<"delattr", a, i.extra>>)
         [] i.code = "DEL_ITEM" -> Logged(d, <<"delitem">> \o args)
         [] i.code = "DEL_SLICE" -> Logged(d, <<"delslice">> \o args)
         [] OTHER -> m      \* NOP, RET

----------------------------------------------------------------------------
EvalInit ==
    /\ stmt \in Statements
    /\ code = <<>> /\ ip = 1 /\ status = "text"
    /\ vm = [stack |-> <<>>, env |-> Env0, log |-> <<>>, popped |-> <<"none">>]

Parse ==
    /\ status = "text"
    /\ LET p == Statement(StatementToks(stmt)) IN
       /\ code' = p.code
       /\ status' = IF p.ok THEN "run" ELSE "refused"
    /\ UNCHANGED <<stmt, ip, vm>>

Run ==
    /\ status = "run"
    /\ IF ip > Len(code) THEN status' = "done" /\ UNCHANGED <<ip, vm>>
       ELSE IF LooksAt(code[ip]) > Len(vm.stack) THEN status' = "wild" /\ UNCHANGED <<ip, vm>>
       ELSE vm' = Exec(vm, code[ip]) /\ ip' = ip + 1 /\ UNCHANGED status
    /\ UNCHANGED <<stmt, code>>

EvalNext == Parse \/ Run

----------------------------------------------------------------------------
(* Statements that the code is right about *)

SubTrees(t) == IF t[1] \in {"name", "const", "none"} THEN {} ELSE
    CASE t[1] \in {"tuple", "list", "set"} -> Range(t[2])
      [] t[1] = "dict" -> Range(FlattenSeq(t[2]))
      [] t[1] = "attr" -> {t[2]}
      [] t[1] = "call" -> {t[2]} \cup Range(t[3]) \cup {t[4][i][2] : i \in DOMAIN t[4]}
      [] OTHER -> Range(Tail(t))

RECURSIVE Within(_)
Within(t) == {t} \cup UNION {Within(s) : s \in SubTrees(t)}
HasCall(t) == \E s \in Within(t) : s[1] = "call"

(* and, or evaluate their right operand always *)
NoCallSkipped(t) == \A s \in Within(t) : s[1] \in {"and", "or"} => ~HasCall(s[3])

(* In a target, what is in brackets must not itself begin with a bracket:  *)
(* the names in it would count as targets.                                 *)
Begins(t) == t = <<"none">> \/ Head(Toks(t, 1)) \notin {"(", "["}
RECURSIVE Clean(_)
Clean(t) ==
    CASE t[1] = "name" -> TRUE
      [] t[1] = "attr" -> Clean(t[2])
      [] t[1] \in {"item", "slice"} -> Clean(t[2]) /\ \A i \in 3 .. Len(t) : Begins(t[i])
      [] t[1] = "call" -> Clean(t[2]) /\ \A s \in SubTrees(t) \ {t[2]} : Begins(s)
      [] OTHER -> FALSE

Target(t) == Clean(t) /\ t[1] # "call"

IsSequence(t) == t[1] \in {"tuple", "list"}
Flat(t) == IsSequence(t) /\ t[2] # <<>> /\ \A i \in DOMAIN t[2] : t[2][i][1] # "slice" /\ Target(t[2][i])
NamesOnly(t) == t[1] = "name" \/ (IsSequence(t) /\ \A i \in DOMAIN t[2] : t[2][i][1] = "name")
Parts(t) == IF IsSequence(t) THEN t[2] ELSE <<t>>
(* Targets are stored to from right to left: all but one must be names, and *)
(* names that the others do not use                                         *)
Independent(ts) == \A i, j \in DOMAIN ts : i # j =>
    \/ ts[i][1] = "name" /\ ts[i] \notin Within(ts[j])
    \/ ts[j][1] = "name" /\ ts[j] \notin Within(ts[i])
SizeOf(t) == IF IsSequence(t) THEN Len(t[2]) ELSE 0

Tame(s) ==
    LET ts == Range(s.targets) IN
    /\ \A t \in ts \cup {s.value} : NoCallSkipped(t)
    /\ \A t \in ts : Flat(t) \/ Target(t)
    /\ s.kind = "=" => Independent(FlattenSeq([i \in DOMAIN s.targets |-> Parts(s.targets[i])]))
    /\ s.kind = "=" /\ Len(s.targets) > 1 =>
         \A t \in ts : NamesOnly(t) /\ SizeOf(t) = SizeOf(s.targets[1])
    /\ s.kind = "=" /\ IsSequence(s.value) => \A t \in ts : IsSequence(t) => SizeOf(t) = SizeOf(s.value)
    /\ s.kind \notin {"=", "expr", "del"} => \A t \in ts : ~IsSequence(t) /\ ~HasCall(t)
    /\ s.kind = "del" => \A t \in ts : ~IsSequence(t)

(* Precedence, the flag that disables tuples, the level that decides what  *)
(* is a target, and the rewriting of loads into stores act together: an    *)
(* accepted statement makes the calls and stores of its text, with the     *)
(* values and in the order that the text says, and a tame one is accepted  *)
(* (parse_expr to parse_expr10, value_assign_fix, parser.c:1100).          *)
StatementsMean ==
    /\ status = "refused" => ~Tame(stmt)
    /\ status = "done" /\ Tame(stmt) =>
         [env |-> vm.env, log |-> IF stmt.kind = "expr" THEN Append(vm.log, <<"value", vm.popped>>) ELSE vm.log]
             = Meaning(stmt)

(* The instructions of a tame statement find their operands on the stack   *)
(* and leave none: a component that SET_VALX or SET_ITEM takes from within *)
(* the stack is there, and POPN takes off what was unpacked (parser.c:1209). *)
OperandsMatch ==
    /\ status = "wild" => ~Tame(stmt)
    /\ status = "done" /\ Tame(stmt) => vm.stack = <<>>
=============================================================================
