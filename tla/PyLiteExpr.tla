----------------------------- MODULE PyLiteExpr -----------------------------
(***************************************************************************)
(* The parser (parser.c) of expressions, of assignments and of del: from   *)
(* the tokens of a statement to instructions.  Each parse function is an   *)
(* operator from the parser's state to the one it leaves.                  *)
(* A state is a record:                                                    *)
(*   toks     the tokens to come             code     info->code->opcodes  *)
(*   level    lval_check.expr_level          lval     lval_check.enable    *)
(*   canleft  lval_check.can_be_left_val     notup    disable_expr_tuple_.. *)
(*   count    token_count                    num      elements parsed      *)
(*   got      what a parse_try function returned                           *)
(*   ok       no error() yet; an error ends the program, here the tokens   *)
(* Left out: yield, * and ** arguments (PyLiteCallSource), the parameters  *)
(* of a lambda (PyLiteBinding).                                            *)
(***************************************************************************)
EXTENDS Integers, SequencesExt

CONSTANTS Names, Consts     \* tokens

Ins(c, e, x) == [code |-> c, exarg |-> e, extra |-> x]

Begin(toks) ==
    [toks |-> toks, code |-> <<>>, level |-> 0, lval |-> FALSE, canleft |-> TRUE,
     notup |-> FALSE, count |-> 0, num |-> 0, got |-> TRUE, ok |-> TRUE]

Tk(p) == IF p.toks = <<>> THEN "END" ELSE Head(p.toks)
Fail(p) == [p EXCEPT !.ok = FALSE, !.toks = <<>>]
NextTk(p) == IF p.toks = <<>> THEN p ELSE [p EXCEPT !.toks = Tail(@), !.count = @ + 1]
Accept(p, t) == IF Tk(p) = t THEN NextTk(p) ELSE Fail(p)
Emit(p, c, e, x) == [p EXCEPT !.code = Append(@, Ins(c, e, x))]
None(p) == Emit(p, "LOADNONE", 0, 0)
Got(p, b) == [p EXCEPT !.got = b]

(* lval_check_valid, lval_check_judge: only the outermost level counts *)
ValidEverywhere(p) == p.lval          \* mutant: names in brackets are targets too
Valid(p) == p.lval /\ p.level = 1
Judge(p, b) == IF Valid(p) THEN [p EXCEPT !.canleft = b] ELSE p

(* The form of an instruction that an assignment may turn into a store *)
LeftForm(p, c) == IF Valid(p) THEN c \o "_" ELSE c

(* The parse functions call each other by their names in Grammar, at the   *)
(* end                                                                     *)
RECURSIVE Grammar(_, _, _)
ParseExpr(p) == Grammar("parse_expr", p, 0)
TryExpr(p) == Grammar("parse_try_expr", p, 0)
Climb(p, n) == Grammar("parse_expr1 to parse_expr9", p, n)
Power(p) == Grammar("parse_expr10", p, 0)
TryT(p) == Grammar("parse_try_t", p, 0)
Suffix(p) == Grammar("parse_try_suffix", p, 0)

(* An expression that has to be there *)
Must(q) == IF q.got THEN q ELSE Fail(q)

WithoutTuple(p) == [p EXCEPT !.notup = TRUE]
RestoreNever(q, p) == q               \* mutant: tuples stay disabled
Restore(q, p) == [q EXCEPT !.notup = p.notup]

----------------------------------------------------------------------------
(* Displays *)

(* EXPR , EXPR ... up to what is no expression *)
RECURSIVE Elements(_, _)
Elements(p, n) ==
    LET q == TryExpr(p)
    IN  IF ~q.got THEN [q EXCEPT !.num = n]
        ELSE IF Tk(q) = "," THEN Elements(NextTk(q), n + 1)
        ELSE [q EXCEPT !.num = n + 1]

RECURSIVE ListElements(_, _)
ListElements(p, n) ==
    IF Tk(p) = "]" THEN [NextTk(p) EXCEPT !.num = n]
    ELSE LET q == ParseExpr(p)
         IN  IF Tk(q) = "," THEN ListElements(NextTk(q), n + 1)
             ELSE IF Tk(q) = "]" THEN ListElements(q, n + 1) ELSE Fail(q)

RECURSIVE DictItems(_, _)
DictItems(p, n) ==
    IF Tk(p) # "," THEN [p EXCEPT !.num = n]
    ELSE LET q == TryExpr(NextTk(p))
         IN  IF q.got THEN DictItems(ParseExpr(Accept(q, ":")), n + 1) ELSE [q EXCEPT !.num = n]

Braces(p) ==
    IF Tk(p) = "}" THEN Emit(NextTk(p), "NEW_OBJ", "DICT", 0)
    ELSE LET q == ParseExpr(WithoutTuple(p))
             set == IF Tk(q) = "," THEN Elements(NextTk(q), 1) ELSE [q EXCEPT !.num = 1]
             dict == DictItems(ParseExpr(NextTk(q)), 1)
         IN  CASE Tk(q) \in {",", "}"} -> Restore(Emit(Accept(set, "}"), "NEW_OBJ", "SET", set.num), p)
               [] Tk(q) = ":" -> Restore(Emit(Accept(dict, "}"), "NEW_OBJ", "DICT", dict.num), p)
               [] OTHER -> Fail(q)

BaseType(p) ==
    IF Tk(p) \in Consts THEN Got(Judge(Emit(NextTk(p), "LOADCONST", 0, Tk(p)), FALSE), TRUE)
    ELSE IF Tk(p) = "[" THEN
        LET q == ListElements(WithoutTuple(NextTk(p)), 0)
        IN  Got(Restore(Emit(q, "NEW_OBJ", "LIST", q.num), p), TRUE)
    ELSE IF Tk(p) = "{" THEN Got(Braces(NextTk(p)), TRUE)
    ELSE Got(p, FALSE)

----------------------------------------------------------------------------
(* What may follow a term: .NAME, [item], [slice], (arguments) *)

Attr(p) == Accept(Emit(Judge(p, TRUE), LeftForm(p, "GET_ATTR"), 0, Tk(p)), Tk(p))

SliceStep(p) == IF Tk(p) = "]" THEN None(NextTk(p)) ELSE Accept(ParseExpr(p), "]")

(* After [X: *)
SliceEnd(p) ==
    IF Tk(p) = "]" THEN None(None(NextTk(p)))
    ELSE IF Tk(p) = ":" THEN SliceStep(NextTk(None(p)))
    ELSE LET q == ParseExpr(p)
         IN  IF Tk(q) = "]" THEN None(NextTk(q))
             ELSE SliceStep(IF Tk(q) = ":" THEN NextTk(q) ELSE q)

Subscript(p) ==
    LET q == IF Tk(p) = ":" THEN None(p) ELSE ParseExpr(p)
        r == IF Tk(q) = ":" THEN SliceEnd(NextTk(q)) ELSE Accept(q, "]")
    IN  Emit(Judge(r, TRUE), LeftForm(r, IF Tk(q) = ":" THEN "GET_SLICE" ELSE "GET_ITEM"), 0, 0)

(* NAME = EXPR , ...: the name has been loaded as a value before the = *)
RECURSIVE KeywordArgs(_, _)
KeywordArgs(p, n) ==
    IF Tk(p) # "," \/ Tk(NextTk(p)) \notin Names
    THEN [(IF Tk(p) = "," THEN NextTk(p) ELSE p) EXCEPT !.num = n]
    ELSE LET q == NextTk(p)
         IN  KeywordArgs(ParseExpr(Accept(Emit(NextTk(q), "LOADCONST", 0, Tk(q)), "=")), n + 1)

RECURSIVE Arguments(_, _)
Arguments(p, n) ==
    LET q == ParseExpr(p)
        r == IF Tk(q) = "," THEN NextTk(q) ELSE q
        named == Tk(p) \in Names /\ q.count = p.count + 1
        top == Len(q.code)
        first == ParseExpr([NextTk(q) EXCEPT !.code[top] = [@ EXCEPT !.code = "LOADCONST"]])
        kw == KeywordArgs(first, 1)
    IN  IF ~q.ok THEN q
        ELSE IF Tk(q) = "=" THEN
            IF named THEN Emit(Emit(Accept(kw, ")"), "NEW_OBJ", "DICT", kw.num), "CALL", 1, n)
            ELSE Fail(q)
        ELSE IF Tk(r) = ")" THEN Emit(NextTk(r), "CALL", 0, n + 1)
        ELSE Arguments(r, n + 1)

(* An attribute that is called may be a method *)
Call(p) ==
    LET top == Len(p.code)
        method == p.code[top].code \in {"GET_ATTR", "GET_ATTR_"}
        q == WithoutTuple(IF method THEN [p EXCEPT !.code[top] = [@ EXCEPT !.exarg = 1]] ELSE p)
    IN  Judge(Restore(IF Tk(q) = ")" THEN Emit(NextTk(q), "CALL", 0, 0) ELSE Arguments(q, 0), p), FALSE)

Followed(p) ==
    CASE Tk(p) = "." -> IF Tk(NextTk(p)) \in Names THEN Suffix(Attr(NextTk(p))) ELSE Fail(p)
      [] Tk(p) = "[" -> Suffix(Subscript(NextTk(p)))
      [] Tk(p) = "(" -> Suffix(Call(NextTk(p)))
      [] OTHER -> p

----------------------------------------------------------------------------
(* Terms *)

(* ( ), ( EXPR ), ( EXPR , ... ) *)
Parens(p) ==
    IF Tk(p) = ")" THEN Emit(NextTk(p), "NEW_OBJ", "TUPLE", 0)
    ELSE LET q == ParseExpr(p)
             r == Elements(NextTk(q), 1)
         IN  Accept(IF Tk(q) = "," THEN Emit(r, "NEW_OBJ", "TUPLE", r.num) ELSE q, ")")

(* The body is compiled to a code of its own *)
Lambda(p) ==
    LET q == ParseExpr([Accept(p, ":") EXCEPT !.code = <<>>])
        body == Append(q.code, Ins("RET", 0, 1))
        consts == <<"LAMBDA", body, <<>>, "None", "None">>
    IN  [q EXCEPT !.code = p.code \o <<Ins("LOADNONE", 0, 0)>>
                             \o [i \in 1 .. 5 |-> Ins("LOADCONST", 0, consts[i])]
                             \o <<Ins("NEW_OBJ", "FUNCTION", 0)>>]

Operand(p, n) == Must(Climb(p, n))
Operator(p, op) == Judge(Emit(p, "OPERATOR", 0, op), FALSE)
UnaryOp == [t \in {"+", "-", "~"} |-> CASE t = "+" -> "pos" [] t = "-" -> "neg" [] OTHER -> "bitnot"]

Term(p) ==
    LET tk == Tk(p)
        q == NextTk(p)
        t == CASE tk \in Names -> Emit(q, LeftForm(p, "LOAD_VAL"), 0, tk)
               [] tk = "(" -> Parens(q)
               [] tk \in DOMAIN UnaryOp -> Operator(Operand(q, 10), UnaryOp[tk])
               [] tk = "not" -> Operator(Operand(q, 3), "not")
               [] tk = "lambda" -> Judge(Lambda(q), FALSE)
               [] OTHER -> BaseType(Got(p, TRUE))
    IN  IF tk \in Names \cup DOMAIN UnaryOp \cup {"(", "not", "lambda"} \/ t.got
        THEN Got(Suffix(t), TRUE) ELSE t

----------------------------------------------------------------------------
(* Levels of operators: 10 binds tightest *)

(* parse_expr10: T, or T ** T *)
PowerOf(p) ==
    LET q == TryT(p)
    IN  IF q.got /\ Tk(q) = "**" THEN Operator(Must(TryT(NextTk(q))), "**") ELSE q

(* parse_expr9 to parse_expr4 *)
Arithmetic == <<{}, {}, {}, {"|"}, {"^"}, {"&"}, {"<<", ">>"}, {"+", "-"}, {"*", "@", "/", "//", "%"}>>

(* parse_expr2, parse_expr1: both operands are evaluated *)
Logic == <<{"or"}, {"and"}>>

(* parse_expr3: the operator and the tokens it is made of *)
Comparison(p) ==
    LET t == Tk(p)
        u == Tk(NextTk(p))
    IN  CASE t \in {"<", "<=", ">", ">=", "!=", "==", "in"} -> <<t>>
          [] t = "is" -> IF u = "not" THEN <<"is", "not">> ELSE <<"is">>
          [] t = "not" -> <<"not", "in">>
          [] OTHER -> <<>>

OpName(toks) == IF Len(toks) = 2 THEN toks[1] \o " " \o toks[2] ELSE toks[1]

OperatorAt(p, n) ==
    IF n = 3 THEN Comparison(p)
    ELSE IF Tk(p) \in (IF n < 3 THEN Logic[n] ELSE Arithmetic[n]) THEN <<Tk(p)>> ELSE <<>>

(* The rest of level n: operator, operand of the level above, and again *)
RECURSIVE Rest(_, _)
Rest(p, n) ==
    LET op == OperatorAt(p, n)
        q == IF Len(op) = 2 THEN Accept(NextTk(p), op[2]) ELSE NextTk(p)
    IN  IF op = <<>> THEN p ELSE Rest(Operator(Operand(q, n + 1), OpName(op)), n)

RECURSIVE Rests(_, _, _)
Rests(p, from, n) == IF from < n THEN p ELSE Rests(Rest(p, from), from - 1, n)

Levels(p, n) == LET q == Power(p) IN IF q.got THEN Rests(q, 9, n) ELSE q

(* A comma makes a tuple, where tuples are not disabled *)
TupleOrExpr(p) ==
    LET q == Climb(p, 1)
        r == Elements(WithoutTuple(NextTk(q)), 1)
    IN  IF ~q.got \/ q.notup \/ Tk(q) # "," THEN q
        ELSE Got([Emit(r, "NEW_OBJ", "TUPLE", r.num) EXCEPT !.notup = FALSE], TRUE)

(* Brackets do not count as a level: what is in them may be a target *)
Expr(p) ==
    LET up == IF Tk(p) \in {"[", "("} THEN 0 ELSE 1
    IN  [Must(TryExpr([p EXCEPT !.level = @ + up])) EXCEPT !.level = @ - up]

Grammar(rule, p, n) ==
    CASE rule = "parse_expr" -> Expr(p)
      [] rule = "parse_try_expr" -> TupleOrExpr(p)
      [] rule = "parse_expr10" -> PowerOf(p)
      [] rule = "parse_try_t" -> Term(p)
      [] rule = "parse_try_suffix" -> Followed(p)
      [] OTHER -> Levels(p, n)

----------------------------------------------------------------------------
(* Assignment *)

StoreForm == [c \in {"GET_ITEM_", "GET_ATTR_", "GET_SLICE_"} |->
    CASE c = "GET_ITEM_" -> "SET_ITEM" [] c = "GET_ATTR_" -> "SET_ATTR" [] OTHER -> "SET_SLICE"]

LastBefore(code, i) == LET js == {j \in 1 .. i - 1 : code[j].code = "LOAD_VAL_"}
                       IN  IF js = {} THEN 0 ELSE CHOOSE j \in js : \A k \in js : k <= j

(* value_assign_fix, from instruction i down: the loads of the targets     *)
(* become stores.  size is the length of the sequence to unpack, si the    *)
(* component that comes next.                                              *)
RECURSIVE Fix(_, _, _, _)
Fix(code, i, size, si) ==
    IF i = 0 THEN [code |-> code, size |-> size]
    ELSE LET c == code[i].code
             offset == IF size # 0 THEN si ELSE 0
             load == LastBefore(code, i)
             stored == [code EXCEPT ![i] = [@ EXCEPT !.code = StoreForm[c], !.exarg = offset]]
         IN  CASE c \in DOMAIN StoreForm ->
                    Fix(IF load = 0 THEN stored ELSE [stored EXCEPT ![load] = [@ EXCEPT !.code = "LOAD_VAL"]],
                        IF load = 0 THEN 0 ELSE load - 1, size, si + 1)
               [] c = "LOAD_VAL_" ->
                    Fix([code EXCEPT ![i] = Ins(IF size # 0 THEN "SET_VALX" ELSE "SET_VAL", offset, @.extra)],
                        i - 1, size, si + 1)
               [] c = "NEW_OBJ" ->
                    Fix([code EXCEPT ![i] = [@ EXCEPT !.code = "NOP"]], i - 1, code[i].extra, 0)
               [] OTHER -> Fix(code, i - 1, size, si)

(* The values of a display stay on the stack, other values are unpacked *)
Unpacked(p, size) ==
    LET top == Last(p.code) IN
    IF top.code = "NEW_OBJ" /\ top.exarg \in {"TUPLE", "LIST"}
    THEN IF top.extra = size THEN [p EXCEPT !.code = Front(@)] ELSE Fail(p)
    ELSE Emit(p, "UNPACK_SEQ", 0, size)

(* parse_value_assign, one turn for each =: what has been compiled so far  *)
(* is put away, and after the next expression, r, comes back as stores     *)
RECURSIVE Assign(_, _)
AssignTo(p, r, lastsize) ==
    LET fixed == Fix(p.code, Len(p.code), 0, 0)
        q == IF Tk(r) # "=" /\ fixed.size # 0 THEN Unpacked(r, fixed.size) ELSE r
        s == [q EXCEPT !.code = @ \o fixed.code]
    IN  IF ~p.canleft \/ ~r.ok \/ lastsize \notin {0, fixed.size} THEN Fail(p)
        ELSE IF Tk(s) = "=" THEN Assign(s, fixed.size)
        ELSE IF fixed.size # 0 THEN Emit(s, "POPN", 0, fixed.size) ELSE Emit(s, "POP", 0, 0)
Assign(p, lastsize) == AssignTo(p, ParseExpr([NextTk(p) EXCEPT !.code = <<>>]), lastsize)

AugOps == [t \in {"+=", "*="} |-> IF t = "+=" THEN "+" ELSE "*"]

(* parse_inplace_op: the target is evaluated as a value and again to store *)
Inplace(p) ==
    LET q == ParseExpr(NextTk(p))
        fixed == Fix(p.code, Len(p.code), 0, 0)
    IN  IF p.canleft
        THEN Emit([q EXCEPT !.code = Append(@, Ins("OPERATOR", 0, AugOps[Tk(p)])) \o fixed.code], "POP", 0, 0)
        ELSE Fail(p)

----------------------------------------------------------------------------
(* del *)

DelForm == [c \in {"LOAD_VAL", "GET_ATTR", "GET_ITEM", "GET_SLICE"} |->
    CASE c = "LOAD_VAL" -> "DEL_NAME" [] c = "GET_ATTR" -> "DEL_ATTR"
      [] c = "GET_ITEM" -> "DEL_ITEM" [] OTHER -> "DEL_SLICE"]

DelTarget(q) ==
    IF q.ok /\ Last(q.code).code \in DOMAIN DelForm
    THEN [q EXCEPT !.code[Len(q.code)] = [@ EXCEPT !.code = DelForm[@]]]
    ELSE Fail(q)
DelItem(p) ==
    IF Tk(p) \in Names THEN DelTarget(Suffix(Emit(NextTk(p), "LOAD_VAL", 0, Tk(p)))) ELSE Fail(p)

RECURSIVE DelItems(_)
DelItems(p) ==
    IF Tk(p) # "," THEN p
    ELSE IF Tk(NextTk(p)) = "NEWLINE" THEN NextTk(p) ELSE DelItems(DelItem(NextTk(p)))

Closing == [b \in {"[", "("} |-> IF b = "[" THEN "]" ELSE ")"]

Del(p) ==
    LET b == Tk(p) IN
    IF b \notin DOMAIN Closing THEN DelItems(DelItem(p))
    ELSE IF Tk(NextTk(p)) = Closing[b] THEN NextTk(NextTk(p))
    ELSE Accept(DelItems(DelItem(NextTk(p))), Closing[b])

----------------------------------------------------------------------------
(* parse_simple_stmt: del, and the statements that begin with an expression *)
AfterExpr(p) ==
    IF Tk(p) = "=" THEN Assign(p, 0)
    ELSE IF Tk(p) \in DOMAIN AugOps THEN Inplace(p)
    ELSE Emit(p, "POP", 0, 0)

Statement(toks) ==
    Accept(IF Head(toks) = "del" THEN Del(NextTk(Begin(toks)))
           ELSE AfterExpr(ParseExpr([Begin(toks) EXCEPT !.lval = TRUE])), "NEWLINE")
=============================================================================
