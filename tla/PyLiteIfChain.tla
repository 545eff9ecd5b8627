--------------------------- MODULE PyLiteIfChain ---------------------------
(***************************************************************************)
(* How parse_try_compound_stmt (src/src/parser.c) links the arms of        *)
(*     if ..: .. elif ..: .. else: ..                                      *)
(* in one pass.  The jump at the end of an arm is first aimed at the jump  *)
(* of the next arm; when the statement is complete, a walk follows these   *)
(* jumps and aims each at the end.  Positions are the 0-based indices of   *)
(* the source, and tmp, tmp2, tmp3 its variables.                          *)
(***************************************************************************)
EXTENDS Integers, Sequences

CONSTANTS
    MaxArms,        \* bound: if and elif arms
    MaxBody,        \* bound: instructions in a block; pass emits none
    BareElif        \* statements with an elif and no else are parsed

ASSUME BoundsAssumption ==
    MaxArms \in Nat \ {0} /\ MaxBody \in Nat /\ BareElif \in BOOLEAN

VARIABLES
    ps,         \* what the parser is at: "if", "arms", "link", "walk", "done";
                \* "wild" after an access outside the code
    code,       \* the opcodes emitted: [op, n]
    tmp, tmp2, tmp3, final,
    tests,      \* ghost: positions of the TEST of every arm
    jumps       \* ghost: positions of the JMP at the end of every arm

vars == <<ps, code, tmp, tmp2, tmp3, final, tests, jumps>>

Opcode == [op : {"OTHER", "TEST", "JMP"}, n : Nat]      \* no jump leads backwards
Size(c) == Len(c)
Emit(op) == [op |-> op, n |-> 0]
Block(n) == [i \in 1..n |-> Emit("OTHER")]
SetExtra(c, i, n) == [c EXCEPT ![i + 1].n = n]

TypeOK ==
    /\ ps \in {"if", "arms", "link", "walk", "done", "wild"}
    /\ code \in Seq(Opcode)
    /\ tmp \in Int /\ tmp2 \in Int /\ tmp3 \in Int /\ final \in Int
    /\ tests \in Seq(Nat) /\ jumps \in Seq(Nat)

Init ==
    /\ ps = "if"
    /\ \E n \in 0..MaxBody : code = Block(n)    \* the code before the statement
    /\ tmp = 0 /\ tmp2 = 0 /\ tmp3 = 0 /\ final = 0
    /\ tests = <<>> /\ jumps = <<>>

(* The condition, its TEST and the block.  at is tmp, after the TEST.      *)
WriteArm(c, n, at) ==
    LET test == c \o <<Emit("OTHER"), Emit("TEST")>>
        body == test \o Block(n)
    IN  /\ at = Size(test)
        /\ tests' = Append(tests, at - 1)
        /\ code' = SetExtra(body, at - 1, Size(body) - at)

ParseIf ==
    /\ ps = "if"
    /\ \E n \in 0..MaxBody :
          /\ tmp' = Size(code) + 2 /\ tmp3' = tmp'
          /\ WriteArm(code, n, tmp')
    /\ ps' = "arms" /\ tmp2' = 0
    /\ UNCHANGED <<final, jumps>>

(* The TEST before now skips the new JMP too; the JMP itself is aimed one  *)
(* past the end of the arm, behind a JMP that the next arm would write.    *)
ElifAimed(past) ==
    /\ ps = "arms" /\ Len(tests) < MaxArms
    /\ \E n \in 0..MaxBody :
         LET skip == SetExtra(code, tmp - 1, code[tmp].n + 1)
             jmp == Append(skip, Emit("JMP"))
             size == Size(jmp) + 2 + n
         IN  /\ tmp' = Size(jmp) + 2
             /\ tmp2' = Size(jmp)
             /\ WriteArm(SetExtra(jmp, Size(jmp) - 1, size - Size(jmp) + past), n, tmp')
    /\ jumps' = Append(jumps, Size(code))
    /\ UNCHANGED <<ps, tmp3, final>>
ElifAimedShort == ElifAimed(0)          \* mutant: at the end of the arm
ElifAimedFar == ElifAimed(2)            \* mutant: two past it
ParseElif == ElifAimed(1)

ParseElse ==
    /\ ps = "arms"
    /\ \E n \in 0..MaxBody :
         LET skip == SetExtra(code, tmp - 1, code[tmp].n + 1)
             jmp == Append(skip, Emit("JMP"))
             body == jmp \o Block(n)
         IN  /\ tmp' = Size(jmp)
             /\ code' = SetExtra(body, Size(jmp) - 1, Size(body) - Size(jmp))
    /\ jumps' = Append(jumps, Size(code))
    /\ ps' = "link"
    /\ UNCHANGED <<tmp2, tmp3, final, tests>>

NoElse ==
    /\ ps = "arms" /\ (BareElif \/ Len(tests) = 1)
    /\ code' = IF tmp2 = 0 THEN code ELSE SetExtra(code, tmp - 1, Size(code) - tmp)
    /\ ps' = "link"
    /\ UNCHANGED <<tmp, tmp2, tmp3, final, tests, jumps>>

StartWalk ==
    /\ ps = "link"
    /\ final' = Size(code)
    /\ tmp3' = tmp3 + code[tmp3].n
    /\ ps' = "walk"
    /\ UNCHANGED <<code, tmp, tmp2, tests, jumps>>

(* The operand read and written is that of the instruction before tmp3.    *)
InCode == tmp3 \in 1 .. Size(code)

WalkStays ==                            \* mutant: tmp3 does not move on
    /\ ps = "walk" /\ tmp3 # final
    /\ IF InCode
       THEN /\ tmp2' = tmp3 + code[tmp3].n
            /\ code' = SetExtra(code, tmp3 - 1, final - tmp3)
            /\ UNCHANGED <<ps, tmp3>>
       ELSE ps' = "wild" /\ UNCHANGED <<code, tmp2, tmp3>>
    /\ UNCHANGED <<tmp, final, tests, jumps>>

WalkStep ==
    /\ ps = "walk" /\ tmp3 # final
    /\ IF InCode
       THEN /\ tmp2' = tmp3 + code[tmp3].n
            /\ code' = SetExtra(code, tmp3 - 1, final - tmp3)
            /\ tmp3' = tmp2'
            /\ UNCHANGED ps
       ELSE ps' = "wild" /\ UNCHANGED <<code, tmp2, tmp3>>
    /\ UNCHANGED <<tmp, final, tests, jumps>>

WalkEnds ==
    /\ ps = "walk" /\ tmp3 = final
    /\ ps' = "done"
    /\ UNCHANGED <<code, tmp, tmp2, tmp3, final, tests, jumps>>

Step == ParseIf \/ ParseElif \/ ParseElse \/ NoElse \/ StartWalk \/ WalkStep \/ WalkEnds
Next == Step \/ (ps \in {"done", "wild"} /\ UNCHANGED vars)
Spec == Init /\ [][Next]_vars /\ WF_vars(Step)
----------------------------------------------------------------------------
Target(i) == i + 1 + code[i + 1].n

(* The walk reads and writes operands of emitted code only (the loop at    *)
(* parser.c:1526 has no bound but final_pos).                              *)
WalkInCode == ps # "wild"

(* In the finished statement every arm ends with a jump to the end, and a  *)
(* failed test leads to the next arm's condition, past the jump before it, *)
(* to the else block or to the end.                                        *)
ArmsLinked ==
    ps = "done" =>
        /\ \A k \in 1..Len(jumps) : code[jumps[k] + 1].op = "JMP" /\ Target(jumps[k]) = Size(code)
        /\ \A k \in 1..Len(tests) :
              Target(tests[k]) = IF k <= Len(jumps) THEN jumps[k] + 1 ELSE Size(code)

(* The walk patches nothing but the jumps of this statement: an operand of *)
(* a block that happens to be on its way would be overwritten.             *)
WalkPatchesJumps ==
    [][ps = "walk" => \A i \in 1..Size(code) :
          code'[i] # code[i] => i - 1 \in {jumps[k] : k \in 1..Len(jumps)}]_vars

(* The walk ends.                                                          *)
WalkTerminates == ps = "walk" ~> ps = "done"
=============================================================================
