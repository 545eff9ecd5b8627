--------------------------- MODULE PyLiteCompile ---------------------------
(***************************************************************************)
(* The code that src/src/parser.c emits for statements: one pass, without  *)
(* a syntax tree, patching jump operands behind itself.  The tree here     *)
(* stands for the order in which the parser meets the statements; the      *)
(* patches and their arithmetic are those of the source.                   *)
(*                                                                         *)
(* A statement is a record with a tag t:                                   *)
(*   [t: "print", l]                print(l), an observable leaf           *)
(*   [t: "call", f, n]              1 + f(n arguments)                     *)
(*   [t: "add", v]                  1 + v, v a value or an unknown name    *)
(*   [t: "assert", l, n]            assert c, n = 1 with a message         *)
(*   [t: "break"], [t: "continue"], [t: "return", n], [t: "raise", v]      *)
(*   [t: "if", l, arms, else]       arms the blocks of if and every elif;  *)
(*                                  else the block of else, <<>> if none   *)
(*   [t: "while", l, body]                                                 *)
(*   [t: "for", l, over, body]      over the kind of value iterated, "seq" *)
(*                                  if it is iterable                      *)
(*   [t: "try", body, except, finally]                                     *)
(*                                  except a sequence of [types, body]     *)
(* and l names the condition, the iterator or the text printed.            *)
(***************************************************************************)
EXTENDS Integers, Sequences, SequencesExt

LOCAL NoValue == [k |-> "none", n |-> 0]
LOCAL Val(kind, n) == [k |-> kind, n |-> n]

(* write_ins: OPCODE_SIZE is Len, OPCODE_GET(i) the element i + 1.         *)
WriteConst(c, op, v) == Append(c, [op |-> op, n |-> 0, v |-> v])
Write(c, op, n) == Append(c, [op |-> op, n |-> n, v |-> NoValue])
SetExtra(c, i, n) == [c EXCEPT ![i + 1].n = n]
AddExtra(c, i, n) == [c EXCEPT ![i + 1].n = @ + n]

(* A test of unknown outcome: the condition and the TEST that follows it.  *)
WriteTest(c, l) == Write(Write(c, "LOADANY", l), "TEST", 0)

ContinueLeaves(c, start, depth) ==      \* mutant: continue leads past JMP_BACK
    [i \in 1..Len(c) |->
        IF i - 1 >= start /\ c[i].n = depth + 1 /\ c[i].op \in {"PH_BREAK", "PH_CONTINUE"}
        THEN [c[i] EXCEPT !.op = "JMP", !.n = Len(c) - (i - 1)] ELSE c[i]]

(* A break or continue is written as a placeholder that holds the loop     *)
(* depth; the loop of that depth turns it into a jump when it ends.        *)
LoopControlReplace(c, start, depth) ==
    [i \in 1..Len(c) |->
        IF i - 1 < start \/ c[i].n # depth + 1 THEN c[i]
        ELSE CASE c[i].op = "PH_BREAK" ->
                    [c[i] EXCEPT !.op = "JMP", !.n = Len(c) - (i - 1)]
               [] c[i].op = "PH_CONTINUE" ->
                    [c[i] EXCEPT !.op = "JMP", !.n = Len(c) - (i - 1) - 1]
               [] OTHER -> c[i]]

(* Simple statements (parse_simple_stmt).                                  *)
WriteSimple(s, c, depth) ==
    CASE s.t = "print" ->
            Write(Write(WriteConst(WriteConst(c, "LOAD", Val("print", s.l)),
                                   "LOAD", Val("int", 0)), "CALL", 1), "POP", 0)
      [] s.t = "call" ->
            LET args == FoldLeft(LAMBDA b, i : WriteConst(b, "LOAD", Val("int", 1)),
                                 WriteConst(WriteConst(c, "LOAD", Val("int", 1)),
                                            "LOAD", Val("fn", s.f)),
                                 [i \in 1..s.n |-> i])
            IN  Write(Write(Write(args, "CALL", s.n), "OPERATOR", 0), "POP", 0)
      [] s.t = "add" ->
            Write(Write(WriteConst(WriteConst(c, "LOAD", Val("int", 1)), "LOAD", s.v),
                        "OPERATOR", 0), "POP", 0)
      [] s.t = "assert" ->
            LET cond == Write(c, "LOADANY", s.l)
                msg == IF s.n = 1 THEN WriteConst(cond, "LOAD", NoValue) ELSE cond
            IN  Write(msg, "ASSERT", s.n)
      [] s.t = "break" -> Write(c, "PH_BREAK", depth)
      [] s.t = "continue" -> Write(c, "PH_CONTINUE", depth)
      [] s.t = "return" ->
            IF s.n = 0 THEN Write(c, "RET", 0)
            ELSE Write(WriteConst(c, "LOAD", Val("int", 1)), "RET", 1)
      [] s.t = "raise" ->
            IF s.v.k = "none" THEN Write(c, "RAISE", 0)
            ELSE IF s.v.k = "exc"       \* raise E('...')
            THEN Write(Write(WriteConst(WriteConst(c, "LOAD", Val("type", s.v.n)),
                                        "LOAD", Val("int", 1)), "CALL", 1), "RAISE", 1)
            ELSE Write(WriteConst(c, "LOAD", s.v), "RAISE", 1)

RECURSIVE Generate(_, _, _)
WriteBlock(block, c, depth) ==
    FoldLeft(LAMBDA b, s : Generate(s, b, depth), c, block)

(* The jump or test before pos is aimed at the end of c, or past it.       *)
Aim(c, pos, past) == SetExtra(c, pos - 1, Len(c) - pos + past)

(* An arm of if, with its test; a further arm behind the one whose test is *)
(* before pos, which now also skips the new jump; an else block.           *)
WriteArm(block, l, c, depth) ==
    Aim(WriteBlock(block, WriteTest(c, l), depth), Len(c) + 2, 0)
WriteSkip(c, pos) == Write(AddExtra(c, pos - 1, 1), "JMP", 0)
WriteElif(block, l, c, pos, depth) ==
    Aim(WriteArm(block, l, WriteSkip(c, pos), depth), Len(c) + 1, 1)
WriteElse(block, c, pos, depth) ==
    IF block = <<>> THEN c
    ELSE Aim(WriteBlock(block, WriteSkip(c, pos), depth), Len(c) + 1, 0)

(* The chain of jumps at the ends of the arms: each one first leads behind *)
(* the jump of the next arm and is redirected to the end of the statement. *)
RECURSIVE Relink(_, _, _)
Relink(c, at, final) ==
    IF at = final THEN c
    ELSE Relink(SetExtra(c, at - 1, final - at), at + c[at].n, final)
LinkArms(c, first) == Relink(c, first + c[first].n, Len(c))

WriteIf(s, c, depth) ==
    LET Elif(st, k) ==
            [code |-> WriteElif(s.arms[k], s.l + k - 1, st.code, st.pos, depth),
             pos |-> Len(st.code) + 3]
        Else(st) == WriteElse(s.else, st.code, st.pos, depth)
        first == Len(c) + 2
    IN  LinkArms(Else(FoldLeft(Elif,
                               [code |-> WriteArm(s.arms[1], s.l, c, depth), pos |-> first],
                               [k \in 1 .. Len(s.arms) - 1 |-> k + 1])),
                 first)

(* start is the position of the condition, or of FORITER.                  *)
EndWhile(c, start) ==
    Aim(Write(c, "JMP_BACK", Len(c) - start + 1), start + 2, 0)
WriteWhile(s, c, depth) ==
    EndWhile(LoopControlReplace(WriteBlock(s.body, WriteTest(c, s.l), depth + 1),
                                Len(c) + 1, depth),
             Len(c))

EndFor(c, start) ==
    Write(Write(Write(Aim(c, start + 1, 1),
                      "JMP_BACK", Len(c) - start + 1), "POP", 0), "NOP", 0)
WriteFor(s, c, depth) ==        \* DEL_FORCE, the NOP at the end, does nothing
    LET start == Len(c) + 2
        step == Write(Write(Write(Write(WriteConst(c, "LOAD", Val(s.over, s.l)), "NEW_ITER", s.l),
                                  "FORITER", 0), "SET_VAL", 0), "POP", 0)
    IN  EndFor(LoopControlReplace(WriteBlock(s.body, step, depth + 1), start, depth), start)

(* try: one LOAD_VAL, EXPT_SETUP pair is written before the body and the   *)
(* code after it is moved when more are needed.  boxes holds a jump        *)
(* position and a class for every class that an except names.              *)
WriteExcept(st, e, depth) ==
    [code |-> WriteBlock(e.body, Write(Write(st.code, "JMP", 0), "POP", 0), depth),
     boxes |-> st.boxes \o [i \in 1..Len(e.types) |->
                               [pos |-> Len(st.code), typ |-> e.types[i]]]]

ArmTry(c, boxes, setup) ==
    LET n == Len(boxes)
        offset == (n - 1) * 2
        moved == SubSeq(c, 1, setup + 1)
                 \o [i \in 1..offset |-> [op |-> "NOP", n |-> 0, v |-> NoValue]]
                 \o SubSeq(c, setup + 2, Len(c))
        Arm(b, i) ==                \* the i-th pair, for the i-th box from the end
            LET box == boxes[n - i]
                at == setup + 2 * i
            IN  [b EXCEPT ![at].op = "LOAD", ![at].v = Val("type", box.typ),
                          ![at + 1].op = "EXPT_SETUP",
                          ![at + 1].n = box.pos - setup + offset - 2 * i,
                          ![box.pos + offset + 1].n = Len(b) - box.pos - offset - 1]
    IN  Write(IF n = 0
              THEN [c EXCEPT ![setup].op = "NOP", ![setup + 1].op = "NOP"]
              ELSE FoldLeft(Arm, moved, [i \in 1..n |-> i - 1]),
              "EXPT_POPN", n)

WriteTry(s, c, depth) ==
    LET Start(b) == Write(WriteConst(b, "LOAD", NoValue), "EXPT_SETUP", 0)
        Armed(st) == ArmTry(st.code, st.boxes, Len(c) + 1)
    IN  WriteBlock(s.finally,
                   Armed(FoldLeft(LAMBDA st, e : WriteExcept(st, e, depth),
                                  [code |-> WriteBlock(s.body, Start(c), depth), boxes |-> <<>>],
                                  s.except)),
                   depth)

Generate(s, c, depth) ==
    CASE s.t = "if" -> WriteIf(s, c, depth)
      [] s.t = "while" -> WriteWhile(s, c, depth)
      [] s.t = "for" -> WriteFor(s, c, depth)
      [] s.t = "try" -> WriteTry(s, c, depth)
      [] OTHER -> WriteSimple(s, c, depth)

CompileModule(block) == Write(WriteBlock(block, <<>>, 0), "HALT", 0)
CompileFunction(block) == Write(WriteBlock(block, <<>>, 0), "RET", 0)
=============================================================================
