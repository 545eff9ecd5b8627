------------------------ MODULE PyLiteVerified_proofs ------------------------
(***************************************************************************)
(* The bytecode loop keeps its types, whatever it runs, and runs code that *)
(* has a shape safely, whatever the program, its conditions, the length of *)
(* its loops, the depth of its calls and the exceptions it raises: it      *)
(* never pops what is not there, it catches an exception in the frame of   *)
(* the handler, it gives every caller its operands back, and it halts with *)
(* everything put away.                                                    *)
(***************************************************************************)
EXTENDS PyLiteVerified, FiniteSetTheorems, WellFoundedInduction, TLAPS

(* A non-empty set of small numbers has a largest one.                     *)
LEMMA Largest ==
    ASSUME NEW n \in Nat, NEW S \in SUBSET (1 .. n), S # {}
    PROVE  \E m \in S : \A k \in S : k <= m
<1> DEFINE less == {ss \in Nat \X Nat : ss[1] < ss[2]}
           T == {n - m : m \in S}
<1>1. IsWellFoundedOn(less, Nat)
  BY NatLessThanWellFounded DEF OpToRel
<1>2. T \subseteq Nat /\ T # {}
  <2>1. \A m \in S : n - m \in Nat
    OBVIOUS
  <2>2. PICK m \in S : TRUE
    OBVIOUS
  <2>3. n - m \in T
    BY <2>2
  <2>4. QED
    BY <2>1, <2>3
<1>3. PICK x \in T : \A y \in T : ~ (<<y, x>> \in less)
  <2> HIDE DEF less, T
  <2>1. QED
    BY <1>1, <1>2, WFMin
<1>4. PICK m \in S : x = n - m
  BY <1>3
<1>5. ASSUME NEW k \in S PROVE k <= m
  <2>1. n - k \in T /\ n - k \in Nat /\ x \in Nat
    BY <1>2, <1>4
  <2>2. ~ (n - k < x)
    BY <1>3, <2>1
  <2>3. QED
    BY <1>4, <2>2
<1>6. QED
  BY <1>5
----------------------------------------------------------------------------
(* Where control can go and what an instruction carries.                   *)
LEMMA Operands ==
    ASSUME TypeOK, Defined
    PROVE  /\ Ins \in Instruction
           /\ Ins.n \in Nat /\ Ins.v \in Value /\ Ins.op \in Opcodes
           /\ ip.fn \in Functions /\ ip.pc \in Int /\ Height \in Nat
           /\ Needs(Ins) \in 0 .. Height
           /\ \A pc \in Int : At(pc) \in [fn : Functions, pc : Int]
           /\ NextIp \in [fn : Functions, pc : Int]
           /\ ip.pc + 1 \in Int /\ ip.pc + 1 + Ins.n \in Int /\ ip.pc + 1 - Ins.n \in Int
<1>1. /\ ip \in [fn : Functions, pc : Int] /\ stack \in Seq(Value)
      /\ id \in DOMAIN Program /\ prog = Program[id]
  BY DEF TypeOK
<1>2. Code[ip.fn] \in Seq(Instruction) /\ ip.pc \in 0 .. Len(Code[ip.fn]) - 1
  BY <1>1, ProgramAssumption DEF Code, Defined, Fetchable
<1>3. Ins \in Instruction /\ Height >= Needs(Ins)
  BY <1>1, <1>2 DEF Ins, Defined
<1>4. Needs(Ins) \in Nat /\ Height \in Nat
  BY <1>1, <1>3 DEF Needs, Instruction, Height
<1>5. QED
  BY <1>1, <1>3, <1>4 DEF Instruction, At, NextIp

(* The operand stack without its n topmost values, and with one more.      *)
LEMMA PoppedFacts ==
    ASSUME stack \in Seq(Value), NEW n \in 0 .. Height
    PROVE  /\ Popped(n) \in Seq(Value) /\ Len(Popped(n)) = Height - n
           /\ \A k \in 1 .. Height - n : Popped(n)[k] = stack[k]
           /\ \A v \in Value :
                 /\ Append(Popped(n), v) \in Seq(Value)
                 /\ Len(Append(Popped(n), v)) = Height - n + 1
                 /\ Append(Popped(n), v)[Height - n + 1] = v
                 /\ \A k \in 1 .. Height - n : Append(Popped(n), v)[k] = stack[k]
<1>1. Height \in Nat /\ Height - n \in 0 .. Height
  BY DEF Height
<1>2. /\ Popped(n) \in Seq(Value) /\ Len(Popped(n)) = Height - n
      /\ \A k \in 1 .. Height - n : Popped(n)[k] = stack[k]
  BY <1>1 DEF Popped, Height
<1>3. PICK m \in Nat : m = Height - n
  BY <1>1
<1> DEFINE p == Popped(n)
<1> HIDE DEF p
<1>4. ASSUME NEW v \in Value
      PROVE  /\ Append(p, v) \in Seq(Value) /\ Len(Append(p, v)) = m + 1
             /\ Append(p, v)[m + 1] = v /\ \A k \in 1 .. m : Append(p, v)[k] = stack[k]
  <2>1. p \in Seq(Value) /\ Len(p) = m /\ \A k \in 1 .. m : p[k] = stack[k]
    BY <1>2, <1>3 DEF p
  <2>2. QED
    BY <2>1
<1>5. QED
  BY <1>2, <1>3, <1>4 DEF p

LEMMA PoppedNone == ASSUME stack \in Seq(Value) PROVE Popped(0) = stack
BY DEF Popped, Height

LEMMA ValueFacts ==
    /\ \A b \in {0, 1} : IntVal(b) \in Value
    /\ None \in Value /\ Null \in Value
    /\ \A t \in Types : Exc(t) \in Value
    /\ \A n \in Nat : [k |-> "iter", n |-> n] \in Value
BY ConstAssumption DEF IntVal, None, Null, Exc, Value, Kinds

LEMMA PeekValue ==
    ASSUME TypeOK, NEW k \in Nat, k < Height
    PROVE  /\ Peek(k) \in Value /\ Peek(k).n \in Nat
           /\ Peek(k).k \in {"type", "exc"} => Peek(k).n \in Types
           /\ Peek(k).k = "fn" => Peek(k).n \in Functions \ {Main}
<1>1. Peek(k) \in Value
  BY DEF TypeOK, Peek, Height
<1>2. QED
  BY <1>1 DEF Value

LEMMA BuiltinTypes ==
    /\ NameError \in Types /\ TypeError \in Types /\ AssertionError \in Types
    /\ RuntimeError \in Types
BY ConstAssumption DEF Builtin

LEMMA GrowTypes == ASSUME TypeOK, GrowFrames PROVE cap' \in Nat /\ buf' \in Nat
BY DEF GrowFrames, TypeOK

LEMMA QuietTypes == ASSUME TypeOK, Quiet PROVE trace' \in Seq(Event)
BY DEF TypeOK, Quiet

LEMMA EmitTypes ==
    ASSUME TypeOK, NEW e \in {"cond", "iter", "out"}, NEW l \in Nat, NEW b \in {0, 1},
           Emit(e, l, b)
    PROVE  trace' \in Seq(Event)
BY DEF TypeOK, Emit, Event
----------------------------------------------------------------------------
(* What the steps within a frame have in common: each pops n operands and  *)
(* goes on at pc; or pushes a value, too; or raises.                       *)
Within ==
    /\ Running /\ Defined
    /\ UNCHANGED <<id, prog, status, frames, handlers>> /\ trace' \in Seq(Event)
Pops(n, pc) ==
    /\ Within /\ UNCHANGED <<cap, buf, error>>
    /\ n \in 0 .. Height /\ stack' = Popped(n)
    /\ pc \in Int /\ ip' = At(pc)
Pushes(n, v, pc) ==
    /\ Within /\ UNCHANGED <<cap, buf, error>>
    /\ n \in 0 .. Height /\ v \in Value /\ stack' = Append(Popped(n), v)
    /\ pc \in Int /\ ip' = At(pc)
Throws(n, t) ==
    /\ Within /\ error' = t /\ t \in Types /\ (GrowFrames \/ UNCHANGED <<cap, buf>>)
    /\ n \in 0 .. Height /\ stack' = Popped(n)
    /\ ip' = NextIp

LEMMA WithinTypes ==
    ASSUME TypeOK, NEW n, NEW v, NEW pc, NEW t, Pops(n, pc) \/ Pushes(n, v, pc) \/ Throws(n, t)
    PROVE  TypeOK'
<1>1. Within /\ n \in 0 .. Height
  BY DEF Pops, Pushes, Throws
<1>2. stack' \in Seq(Value)
  BY <1>1, PoppedFacts DEF Pops, Pushes, Throws, TypeOK
<1>3. ip' \in [fn : Functions, pc : Int]
  BY <1>1, Operands DEF Pops, Pushes, Throws, Within
<1>4. cap' \in Nat /\ buf' \in Nat /\ error' \in Types \cup {NoError}
  BY GrowTypes DEF Pops, Pushes, Throws, TypeOK
<1>5. QED
  BY <1>1, <1>2, <1>3, <1>4 DEF Within, TypeOK

LEMMA WithinFacts ==
    ASSUME TypeOK, NEW op, Exec(op), UNCHANGED handlers
    PROVE  /\ Ins.op = op
           /\ Quiet /\ UNCHANGED frames => Within
           /\ \A e \in {"cond", "iter", "out"}, l \in Nat, b \in {0, 1} :
                 Emit(e, l, b) /\ UNCHANGED frames => Within
<1>1. Running /\ Defined /\ Ins.op = op /\ UNCHANGED <<id, prog, status, handlers>>
  BY DEF Exec
<1>2. Quiet => trace' \in Seq(Event)
  BY QuietTypes
<1>3. ASSUME NEW e \in {"cond", "iter", "out"}, NEW l \in Nat, NEW b \in {0, 1}, Emit(e, l, b)
      PROVE  trace' \in Seq(Event)
  BY <1>3, EmitTypes
<1>4. QED
  BY <1>1, <1>2, <1>3 DEF Within

(* One lemma for each instruction that stays in its frame.                 *)
LEMMA LoadAct ==
    ASSUME TypeOK, Load
    PROVE  /\ Ins.op = "LOAD"
           /\ \/ Ins.v.k = "undefined" /\ Throws(0, NameError)
              \/ Ins.v.k # "undefined" /\ Pushes(0, Ins.v, ip.pc + 1)
<1>1. Exec("LOAD") /\ Quiet /\ UNCHANGED <<handlers, frames>> /\ ip' = NextIp
  BY DEF Load, SetError, NoRaise
<1>2. Within /\ Ins.op = "LOAD"
  BY <1>1, WithinFacts
<1>3. Ins.v \in Value /\ ip.pc + 1 \in Int /\ 0 \in 0 .. Height /\ Popped(0) = stack
  BY <1>2, Operands, PoppedNone DEF Within, TypeOK
<1>4. QED
  BY <1>1, <1>2, <1>3, BuiltinTypes DEF Load, Throws, Pushes, SetError, NoRaise, NextIp

LEMMA LoadAnyAct ==
    ASSUME TypeOK, LoadAny
    PROVE  Ins.op = "LOADANY" /\ \E v \in Value : Pushes(0, v, ip.pc + 1)
<1>1. PICK b \in {0, 1} : stack' = Append(stack, IntVal(b)) /\ Emit("cond", Ins.n, b)
  BY DEF LoadAny
<1>2. Exec("LOADANY") /\ NoRaise /\ UNCHANGED <<handlers, frames>> /\ ip' = NextIp
  BY DEF LoadAny, NoRaise
<1>3. /\ ip.pc + 1 \in Int /\ 0 \in 0 .. Height /\ Popped(0) = stack /\ Ins.n \in Nat
      /\ IntVal(b) \in Value
  <2>1. /\ ip.pc + 1 \in Int /\ 0 \in 0 .. Height /\ Ins.n \in Nat
    BY <1>2, Operands DEF Exec
  <2>2. Popped(0) = stack
    BY PoppedNone DEF TypeOK
  <2>3. IntVal(b) \in Value
    BY ValueFacts
  <2>4. QED
    BY <2>1, <2>2, <2>3
<1>4. Within /\ Ins.op = "LOADANY"
  BY <1>1, <1>2, <1>3, WithinFacts
<1>5. Pushes(0, IntVal(b), ip.pc + 1)
  BY <1>1, <1>2, <1>3, <1>4 DEF Pushes, NoRaise, NextIp
<1>6. QED
  BY <1>3, <1>4, <1>5

LEMMA PlainAct ==
    ASSUME TypeOK, SetVal \/ Nop \/ Jmp \/ JmpBack
    PROVE  \/ Ins.op \in {"SET_VAL", "NOP"} /\ Pops(0, ip.pc + 1)
           \/ Ins.op = "JMP" /\ Pops(0, ip.pc + 1 + Ins.n)
           \/ Ins.op = "JMP_BACK" /\ Pops(0, ip.pc + 1 - Ins.n)
<1>1. /\ \/ Exec("SET_VAL") \/ Exec("NOP") \/ Exec("JMP") \/ Exec("JMP_BACK")
      /\ NoRaise /\ Quiet /\ UNCHANGED <<stack, handlers, frames>>
  BY DEF SetVal, Nop, Jmp, JmpBack, NoRaise
<1>2. Within /\ Running /\ Defined
  BY <1>1, WithinFacts DEF Exec
<1>3. /\ ip.pc + 1 \in Int /\ ip.pc + 1 + Ins.n \in Int /\ ip.pc + 1 - Ins.n \in Int
      /\ 0 \in 0 .. Height /\ Popped(0) = stack
  BY <1>2, Operands, PoppedNone DEF TypeOK
<1>4. CASE SetVal \/ Nop
  BY <1>1, <1>2, <1>3, <1>4 DEF SetVal, Nop, Exec, Pops, NoRaise, NextIp
<1>5. CASE Jmp
  BY <1>1, <1>2, <1>3, <1>5 DEF Jmp, Exec, Pops, NoRaise
<1>6. CASE JmpBack
  BY <1>1, <1>2, <1>3, <1>6 DEF JmpBack, Exec, Pops, NoRaise
<1>7. QED
  BY <1>4, <1>5, <1>6

LEMMA PopAct == ASSUME TypeOK, Pop PROVE Ins.op = "POP" /\ Pops(1, ip.pc + 1)
<1>1. Exec("POP") /\ NoRaise /\ Quiet /\ UNCHANGED <<handlers, frames>>
  BY DEF Pop, NoRaise
<1>2. Within /\ Ins.op = "POP"
  BY <1>1, WithinFacts
<1>3. ip.pc + 1 \in Int /\ 1 \in 0 .. Height
  BY <1>2, Operands DEF Within, Needs
<1>4. QED
  BY <1>1, <1>2, <1>3 DEF Pop, Pops, NoRaise, NextIp

LEMMA OperatorAct ==
    ASSUME TypeOK, Operator
    PROVE  /\ Ins.op = "OPERATOR"
           /\ \/ \E v \in Value : Pushes(2, v, ip.pc + 1)
              \/ ~ (Peek(0).k = "int" /\ Peek(1).k = "int") /\ Throws(2, TypeError)
<1>1. Exec("OPERATOR") /\ Quiet /\ UNCHANGED <<handlers, frames>> /\ ip' = NextIp
  BY DEF Operator, SetError, NoRaise
<1>2. Within /\ Ins.op = "OPERATOR"
  BY <1>1, WithinFacts
<1>3. ip.pc + 1 \in Int /\ 2 \in 0 .. Height /\ IntVal(1) \in Value
  BY <1>2, Operands, ValueFacts DEF Within, Needs
<1>4. QED
  BY <1>1, <1>2, <1>3, BuiltinTypes DEF Operator, Throws, Pushes, SetError, NoRaise, NextIp

LEMMA NewIterAct ==
    ASSUME TypeOK, NewIter
    PROVE  Ins.op = "NEW_ITER" /\ Pushes(1, IterOf(Peek(0), Ins.n), ip.pc + 1)
<1>1. Exec("NEW_ITER") /\ NoRaise /\ Quiet /\ UNCHANGED <<handlers, frames>>
  BY DEF NewIter, NoRaise
<1>2. Within /\ Ins.op = "NEW_ITER"
  BY <1>1, WithinFacts
<1>3. ip.pc + 1 \in Int /\ 1 \in 0 .. Height /\ Height \in Nat /\ Ins.n \in Nat
  BY <1>2, Operands DEF Within, Needs
<1>4. Peek(0) \in Value
  BY <1>3, PeekValue
<1>5. IterOf(Peek(0), Ins.n) \in Value
  BY <1>3, <1>4, ValueFacts DEF IterOf
<1>6. QED
  BY <1>1, <1>2, <1>3, <1>5 DEF NewIter, Pushes, NoRaise, NextIp

LEMMA ForIterAct ==
    ASSUME TypeOK, ForIter
    PROVE  /\ Ins.op = "FORITER"
           /\ \/ \E v \in Value : Pushes(0, v, ip.pc + 1)
              \/ Pops(0, ip.pc + 1 + Ins.n)
<1>1. Exec("FORITER") /\ NoRaise /\ UNCHANGED <<handlers, frames>>
  BY DEF ForIter, NoRaise
<1>2. /\ ip.pc + 1 \in Int /\ ip.pc + 1 + Ins.n \in Int /\ 0 \in 0 .. Height
      /\ Popped(0) = stack /\ Height >= 1 /\ IntVal(1) \in Value
  BY <1>1, Operands, PoppedNone, ValueFacts DEF Exec, TypeOK, Needs
<1>3. Peek(0).n \in Nat
  <2>1. Height \in Nat /\ 0 < Height
    BY <1>1, <1>2, Operands DEF Exec
  <2>2. QED
    BY <2>1, PeekValue
<1>4. Within /\ Ins.op = "FORITER"
  BY <1>1, <1>3, WithinFacts DEF ForIter
<1>5. \/ stack' = Append(stack, IntVal(1)) /\ ip' = NextIp
      \/ stack' = stack /\ ip' = At(ip.pc + 1 + Ins.n)
  BY DEF ForIter
<1>6. QED
  BY <1>1, <1>2, <1>4, <1>5 DEF Pushes, Pops, NoRaise, NextIp

LEMMA TestAct ==
    ASSUME TypeOK, Test
    PROVE  Ins.op = "TEST" /\ (Pops(1, ip.pc + 1) \/ Pops(1, ip.pc + 1 + Ins.n))
<1>1. Exec("TEST") /\ NoRaise /\ Quiet /\ UNCHANGED <<handlers, frames>>
  BY DEF Test, NoRaise
<1>2. Within /\ Ins.op = "TEST"
  BY <1>1, WithinFacts
<1>3. ip.pc + 1 \in Int /\ ip.pc + 1 + Ins.n \in Int /\ 1 \in 0 .. Height
  BY <1>2, Operands DEF Within, Needs
<1>4. stack' = Popped(1) /\ (ip' = At(ip.pc + 1 + Ins.n) \/ ip' = NextIp)
  BY DEF Test
<1>5. QED
  BY <1>1, <1>2, <1>3, <1>4 DEF Pops, NoRaise, NextIp

LEMMA AssertAct ==
    ASSUME TypeOK, AssertTrue
    PROVE  /\ Ins.op = "ASSERT"
           /\ Pops(Ins.n + 1, ip.pc + 1) \/ Throws(Ins.n + 1, AssertionError)
<1>1. /\ Exec("ASSERT") /\ Quiet /\ UNCHANGED <<handlers, frames>> /\ ip' = NextIp
      /\ stack' = Popped(Ins.n + 1) /\ (SetError(AssertionError) \/ NoRaise)
  BY DEF AssertTrue, SetError, NoRaise
<1>2. Within /\ Ins.op = "ASSERT"
  BY <1>1, WithinFacts
<1>3. ip.pc + 1 \in Int /\ Ins.n + 1 \in 0 .. Height
  BY <1>2, Operands DEF Within, Needs
<1>4. QED
  BY <1>1, <1>2, <1>3, BuiltinTypes DEF Pops, Throws, SetError, NoRaise, NextIp

(* What a call finds on the stack.                                         *)
LEMMA CalleeFacts ==
    ASSUME TypeOK, Defined, Ins.op = "CALL"
    PROVE  /\ Ins.n \in Nat /\ Ins.n + 1 \in 0 .. Height
           /\ Callee \in Value /\ Callee.n \in Nat
           /\ Callee.k = "type" => Callee.n \in Types
           /\ Callee.k = "fn" => Callee.n \in Functions \ {Main}
<1>1. Ins.n \in Nat /\ Ins.n + 1 \in 0 .. Height
  BY Operands DEF Needs
<1>2. Ins.n < Height
  BY <1>1, Operands
<1>3. QED
  BY <1>1, <1>2, PeekValue DEF Callee

LEMMA CallRefusedAct ==
    ASSUME TypeOK, CallRefused
    PROVE  /\ Ins.op = "CALL" /\ Throws(0, TypeError)
           /\ Callee.k \notin Callable \/ ~ ArityOK
<1>1. /\ Exec("CALL") /\ Quiet /\ UNCHANGED <<handlers, frames, stack>> /\ ip' = NextIp
      /\ SetError(TypeError)
  BY DEF CallRefused, SetError
<1>2. Within /\ Ins.op = "CALL"
  BY <1>1, WithinFacts
<1>3. 0 \in 0 .. Height /\ Popped(0) = stack
  BY <1>2, Operands, PoppedNone DEF Within, TypeOK
<1>4. QED
  BY <1>1, <1>2, <1>3, BuiltinTypes DEF CallRefused, Throws, SetError

LEMMA CallTypeAct ==
    ASSUME TypeOK, CallType
    PROVE  /\ Ins.op = "CALL" /\ Callee.k = "type"
           /\ Pushes(Ins.n + 1, Exc(Callee.n), ip.pc + 1)
<1>1. /\ Exec("CALL") /\ Quiet /\ NoRaise /\ UNCHANGED <<handlers, frames>> /\ ip' = NextIp
      /\ Callee.k = "type" /\ stack' = Append(Popped(Ins.n + 1), Exc(Callee.n))
  BY DEF CallType, NoRaise
<1>2. Within /\ Ins.op = "CALL"
  BY <1>1, WithinFacts
<1>3. Ins.n + 1 \in 0 .. Height /\ Exc(Callee.n) \in Value /\ ip.pc + 1 \in Int
  BY <1>1, <1>2, CalleeFacts, Operands, ValueFacts DEF Within
<1>4. QED
  BY <1>1, <1>2, <1>3 DEF Pushes, NoRaise, NextIp

LEMMA CallShowAct ==
    ASSUME TypeOK, CallShow
    PROVE  /\ Ins.op = "CALL" /\ Callee.k = "print"
           /\ Pushes(Ins.n + 1, None, ip.pc + 1)
<1>1. /\ Exec("CALL") /\ NoRaise /\ UNCHANGED <<handlers, frames>> /\ ip' = NextIp
      /\ Callee.k = "print" /\ stack' = Append(Popped(Ins.n + 1), None)
      /\ Emit("out", Callee.n, 1)
  BY DEF CallShow, NoRaise
<1>2. Ins.n + 1 \in 0 .. Height /\ None \in Value /\ ip.pc + 1 \in Int /\ Callee.n \in Nat
  BY <1>1, CalleeFacts, Operands, ValueFacts DEF Exec
<1>3. Within /\ Ins.op = "CALL"
  BY <1>1, <1>2, WithinFacts
<1>4. QED
  BY <1>1, <1>2, <1>3 DEF Pushes, NoRaise, NextIp

LEMMA RaiseAct ==
    ASSUME TypeOK, Raise
    PROVE  /\ Ins.op = "RAISE"
           /\ \/ Ins.n = 0 /\ Throws(0, RuntimeError)
              \/ /\ Ins.n # 0 /\ Peek(0) \in Value
                 /\ \/ Peek(0).k \in {"type", "exc"} /\ Throws(Ins.n, Peek(0).n)
                    \/ Peek(0).k \notin {"type", "exc"} /\ Throws(Ins.n, RuntimeError)
<1>1. /\ Exec("RAISE") /\ Quiet /\ UNCHANGED handlers /\ ip' = NextIp
      /\ stack' = Popped(Ins.n)
  BY DEF Raise
<1>2. Ins.n \in 0 .. Height /\ Ins.op = "RAISE" /\ Height \in Nat
  BY <1>1, Operands DEF Exec, Needs
<1>3. CASE Ins.n = 0
  <2>1. SetError(RuntimeError)
    BY <1>3 DEF Raise
  <2>2. Within
    BY <1>1, <2>1, WithinFacts DEF SetError
  <2>3. QED
    BY <1>1, <1>2, <1>3, <2>1, <2>2, BuiltinTypes DEF Throws, SetError
<1>4. CASE Ins.n # 0
  <2>1. /\ Peek(0) \in Value
        /\ Peek(0).k \in {"type", "exc"} => Peek(0).n \in Types
    BY <1>2, <1>4, PeekValue
  <2>2. CASE Peek(0).k = "type"
    <3>1. SetError(Peek(0).n)
      BY <1>4, <2>2 DEF Raise
    <3>2. Within
      BY <1>1, <3>1, WithinFacts DEF SetError
    <3>3. QED
      BY <1>1, <1>2, <1>4, <2>1, <2>2, <3>1, <3>2 DEF Throws, SetError
  <2>3. CASE Peek(0).k = "exc"
    <3>1. error' = Peek(0).n /\ UNCHANGED <<frames, cap, buf>>
      BY <1>4, <2>3 DEF Raise
    <3>2. Within
      BY <1>1, <3>1, WithinFacts
    <3>3. QED
      BY <1>1, <1>2, <1>4, <2>1, <2>3, <3>1, <3>2 DEF Throws
  <2>4. CASE Peek(0).k \notin {"type", "exc"}
    <3>1. SetError(RuntimeError)
      BY <1>4, <2>4 DEF Raise
    <3>2. Within
      BY <1>1, <3>1, WithinFacts DEF SetError
    <3>3. QED
      BY <1>1, <1>2, <1>4, <2>1, <2>4, <3>1, <3>2, BuiltinTypes DEF Throws, SetError
  <2>5. QED
    BY <2>2, <2>3, <2>4
<1>5. QED
  BY <1>3, <1>4
----------------------------------------------------------------------------
(* The steps that touch frames or handlers keep the types.                 *)
LEMMA FrameShape ==
    ASSUME TypeOK, NEW i \in 1 .. Len(frames)
    PROVE  /\ frames[i] \in Frame /\ frames[i].fn \in Functions
           /\ frames[i].saved \in [fn : Functions, pc : Int]
           /\ frames[i].base \in Int /\ frames[i].hbase \in Nat
<1>1. frames[i] \in Frame
  BY DEF TypeOK
<1>2. QED
  BY <1>1 DEF Frame

LEMMA HandlerShape ==
    ASSUME TypeOK, NEW j \in 1 .. Len(handlers)
    PROVE  /\ handlers[j] \in Handler /\ handlers[j].typ \in Types
           /\ handlers[j].ip \in [fn : Functions, pc : Int]
           /\ handlers[j].frame.buf \in Nat /\ handlers[j].frame.idx \in Nat
<1>1. handlers[j] \in Handler
  BY DEF TypeOK
<1>2. QED
  BY <1>1 DEF Handler, Address

LEMMA LengthFacts ==
    ASSUME TypeOK
    PROVE  /\ Len(frames) \in Nat \ {0} /\ Len(handlers) \in Nat /\ Height \in Nat
           /\ Len(frames) \in 1 .. Len(frames)
BY DEF TypeOK, Height

(* A call opens a frame on top of the caller's, which keeps where to go on. *)
LEMMA CallFunctionAct ==
    ASSUME TypeOK, CallFunction
    PROVE  /\ Ins.op = "CALL" /\ Callee.k = "fn" /\ ArityOK /\ Running /\ Defined
           /\ UNCHANGED <<id, prog, status, trace, handlers, error>> /\ GrowFrames
           /\ Callee.n \in Functions \ {Main} /\ Ins.n + 1 \in 0 .. Height
           /\ stack' = Popped(Ins.n + 1) /\ ip' = [fn |-> Callee.n, pc |-> 0]
           /\ frames' \in Seq(Frame) /\ Len(frames') = Len(frames) + 1
           /\ \A i \in 1 .. Len(frames) - 1 : frames'[i] = frames[i]
           /\ frames'[Len(frames)] = [Top EXCEPT !.saved = NextIp]
           /\ frames'[Len(frames) + 1] =
                 [fn |-> Callee.n, saved |-> NextIp,
                  base |-> Height - (Ins.n + 1), hbase |-> Len(handlers)]
<1>1. Ins.op = "CALL" /\ Running /\ Defined /\ Callee.k = "fn" /\ ArityOK
  BY DEF CallFunction, Exec
<1>2. /\ UNCHANGED <<id, prog, status, trace, handlers, error>> /\ GrowFrames
      /\ stack' = Popped(Ins.n + 1) /\ ip' = [fn |-> Callee.n, pc |-> 0]
  BY DEF CallFunction, Exec, Quiet
<1>3. Callee.n \in Functions \ {Main} /\ Ins.n + 1 \in 0 .. Height
  BY <1>1, CalleeFacts
<1>4. NextIp \in [fn : Functions, pc : Int]
  BY <1>1, Operands
<1> DEFINE new == [fn |-> Callee.n, saved |-> NextIp,
                   base |-> Height - (Ins.n + 1), hbase |-> Len(handlers)]
           old == [Top EXCEPT !.saved = NextIp]
           kept == [frames EXCEPT ![Len(frames)].saved = NextIp]
<1>5. frames' = Append(kept, new)
  BY DEF CallFunction
<1>6. Len(frames) \in Nat \ {0} /\ Len(handlers) \in Nat /\ Height \in Nat
  BY LengthFacts
<1>7. new \in Frame
  BY <1>3, <1>4, <1>6 DEF Frame
<1>8. old \in Frame
  BY <1>4, <1>6, FrameShape DEF Frame, Top
<1>9. /\ kept \in Seq(Frame) /\ Len(kept) = Len(frames)
      /\ \A i \in 1 .. Len(frames) - 1 : kept[i] = frames[i]
      /\ kept[Len(frames)] = old
  <2>1. kept = [frames EXCEPT ![Len(frames)] = old]
    BY DEF Top
  <2>2. frames \in Seq(Frame)
    BY DEF TypeOK
  <2> HIDE DEF kept, old
  <2>3. QED
    BY <1>6, <1>8, <2>1, <2>2
<1> HIDE DEF kept, old, new
<1>10. /\ frames' \in Seq(Frame) /\ Len(frames') = Len(frames) + 1
       /\ \A i \in 1 .. Len(frames) - 1 : frames'[i] = frames[i]
       /\ frames'[Len(frames)] = old /\ frames'[Len(frames) + 1] = new
  BY <1>5, <1>6, <1>7, <1>9
<1>11. QED
  BY <1>1, <1>2, <1>3, <1>10 DEF new, old

LEMMA RetAct ==
    ASSUME TypeOK, Ret
    PROVE  /\ Ins.op = "RET" /\ Running /\ Defined /\ Len(frames) > 1
           /\ UNCHANGED <<id, prog, status, trace, cap, buf, handlers, error>>
           /\ stack' \in Seq(Value)
           /\ stack' = IF Ins.n = 0 THEN Append(stack, None) ELSE stack
           /\ frames' \in Seq(Frame) /\ Len(frames') = Len(frames) - 1
           /\ \A i \in 1 .. Len(frames) - 1 : frames'[i] = frames[i]
           /\ ip' = frames[Len(frames) - 1].saved
           /\ ip' \in [fn : Functions, pc : Int]
<1>1. /\ Ins.op = "RET" /\ Running /\ Defined /\ Len(frames) > 1
      /\ UNCHANGED <<id, prog, status, trace, cap, buf, handlers, error>>
      /\ stack' = IF Ins.n = 0 THEN Append(stack, None) ELSE stack
      /\ frames' = SubSeq(frames, 1, Len(frames) - 1)
      /\ ip' = frames[Len(frames) - 1].saved
  BY DEF Ret, Exec, Quiet, Defined
<1>2. stack' \in Seq(Value)
  BY <1>1, ValueFacts DEF TypeOK
<1>3. Len(frames) \in Nat \ {0} /\ frames \in Seq(Frame)
  BY LengthFacts DEF TypeOK
<1>4. /\ frames' \in Seq(Frame) /\ Len(frames') = Len(frames) - 1
      /\ \A i \in 1 .. Len(frames) - 1 : frames'[i] = frames[i]
  BY <1>1, <1>3
<1>5. ip' \in [fn : Functions, pc : Int]
  BY <1>1, <1>3, FrameShape
<1>6. QED
  BY <1>1, <1>2, <1>4, <1>5

LEMMA ExptSetupAct ==
    ASSUME TypeOK, ExptSetup
    PROVE  /\ Ins.op = "EXPT_SETUP" /\ Running /\ Defined
           /\ UNCHANGED <<id, prog, status, trace, frames, cap, buf, error>>
           /\ 1 \in 0 .. Height /\ stack' = Popped(1) /\ ip' = NextIp
           /\ Peek(0).k = "type" /\ Peek(0) = stack[Height]
           /\ handlers' \in Seq(Handler) /\ Len(handlers') = Len(handlers) + 1
           /\ \A j \in 1 .. Len(handlers) : handlers'[j] = handlers[j]
           /\ handlers'[Len(handlers) + 1] =
                 [typ |-> Peek(0).n, frame |-> CurFrame, ip |-> At(ip.pc + 1 + Ins.n)]
<1> DEFINE h == [typ |-> Peek(0).n, frame |-> CurFrame, ip |-> At(ip.pc + 1 + Ins.n)]
<1>1. /\ Ins.op = "EXPT_SETUP" /\ Running /\ Defined
      /\ UNCHANGED <<id, prog, status, trace, frames, cap, buf, error>>
      /\ stack' = Popped(1) /\ ip' = NextIp /\ Peek(0).k = "type"
      /\ handlers' = Append(handlers, h)
  BY DEF ExptSetup, Exec, Quiet, NoRaise, Defined
<1>2. 1 \in 0 .. Height /\ Height \in Nat
  BY <1>1, Operands DEF Needs
<1>3. Peek(0).n \in Types /\ Peek(0) = stack[Height]
  <2>1. Peek(0) \in Value /\ (Peek(0).k \in {"type", "exc"} => Peek(0).n \in Types)
    BY <1>2, PeekValue
  <2>2. QED
    BY <1>1, <1>2, <2>1 DEF Peek
<1>4. CurFrame \in Address
  BY LengthFacts DEF CurFrame, Address, TypeOK
<1>5. At(ip.pc + 1 + Ins.n) \in [fn : Functions, pc : Int]
  BY <1>1, Operands
<1>6. h \in Handler
  BY <1>3, <1>4, <1>5 DEF Handler
<1>7. handlers \in Seq(Handler)
  BY DEF TypeOK
<1> HIDE DEF h
<1>8. /\ handlers' \in Seq(Handler) /\ Len(handlers') = Len(handlers) + 1
      /\ \A j \in 1 .. Len(handlers) : handlers'[j] = handlers[j]
      /\ handlers'[Len(handlers) + 1] = h
  BY <1>1, <1>6, <1>7
<1>9. QED
  BY <1>1, <1>2, <1>3, <1>8 DEF h

LEMMA ExptPopnAct ==
    ASSUME TypeOK, ExptPopn
    PROVE  /\ Ins.op = "EXPT_POPN" /\ Running /\ Defined
           /\ UNCHANGED <<id, prog, status, trace, frames, cap, buf, error, stack>>
           /\ ip' = NextIp /\ Ins.n \in 0 .. Len(handlers)
           /\ handlers' \in Seq(Handler) /\ Len(handlers') = Len(handlers) - Ins.n
           /\ \A j \in 1 .. Len(handlers) - Ins.n : handlers'[j] = handlers[j]
<1>1. /\ Ins.op = "EXPT_POPN" /\ Running /\ Defined
      /\ UNCHANGED <<id, prog, status, trace, frames, cap, buf, error, stack>>
      /\ ip' = NextIp /\ Len(handlers) >= Ins.n
      /\ handlers' = SubSeq(handlers, 1, Len(handlers) - Ins.n)
  BY DEF ExptPopn, Exec, Quiet, NoRaise, Defined
<1>2. Ins.n \in Nat /\ Len(handlers) \in Nat /\ handlers \in Seq(Handler)
  BY <1>1, Operands, LengthFacts DEF TypeOK
<1>3. Ins.n \in 0 .. Len(handlers)
  BY <1>1, <1>2
<1>4. /\ handlers' \in Seq(Handler) /\ Len(handlers') = Len(handlers) - Ins.n
      /\ \A j \in 1 .. Len(handlers) - Ins.n : handlers'[j] = handlers[j]
  <2>1. PICK n \in Nat : n = Ins.n /\ n <= Len(handlers)
    BY <1>2, <1>3
  <2>2. handlers' = SubSeq(handlers, 1, Len(handlers) - n)
    BY <1>1, <2>1
  <2>3. /\ handlers' \in Seq(Handler) /\ Len(handlers') = Len(handlers) - n
        /\ \A j \in 1 .. Len(handlers) - n : handlers'[j] = handlers[j]
    BY <1>2, <2>1, <2>2
  <2>4. QED
    BY <2>1, <2>3
<1>5. QED
  BY <1>1, <1>3, <1>4

LEMMA HaltAct ==
    ASSUME TypeOK, Halt
    PROVE  /\ Ins.op = "HALT" /\ Running /\ Defined /\ status' = "halt"
           /\ UNCHANGED <<id, prog, trace, frames, cap, buf, error, stack, handlers>>
           /\ ip' \in [fn : Functions, pc : Int]
<1>1. /\ Ins.op = "HALT" /\ Running /\ Defined /\ status' = "halt"
      /\ UNCHANGED <<id, prog, trace, frames, cap, buf, error, stack, handlers>>
      /\ ip' = NextIp
  BY DEF Halt, Quiet, NoRaise
<1>2. QED
  BY <1>1, Operands

(* The newest handler that matches is one of them.                         *)
LEMMA NewestFacts ==
    ASSUME TypeOK, Matching # {}
    PROVE  /\ Newest \in Matching /\ Newest \in 1 .. Len(handlers)
           /\ \A i \in Matching : i <= Newest
<1>1. Len(handlers) \in Nat /\ Matching \in SUBSET (1 .. Len(handlers))
  BY LengthFacts DEF Matching
<1>2. \E m \in Matching : \A k \in Matching : k <= m
  BY <1>1, Largest
<1>3. Newest \in Matching /\ \A i \in Matching : i <= Newest
  BY <1>2 DEF Newest
<1>4. QED
  BY <1>1, <1>3

LEMMA CatchAct ==
    ASSUME TypeOK, CatchError
    PROVE  /\ Pending /\ Newest \in Matching /\ Newest \in 1 .. Len(handlers)
           /\ \A i \in Matching : i <= Newest
           /\ ~ RunsOff(Newest) /\ error \in Types
           /\ UNCHANGED <<id, prog, status, cap, buf, trace>>
           /\ handlers' = SubSeq(handlers, 1, Len(handlers) - Cardinality(Foreign(Newest)))
           /\ frames' = FramesAfter(Newest) /\ ip' = handlers[Newest].ip
           /\ stack' = Append(stack, Exc(error)) /\ stack' \in Seq(Value)
           /\ error' = NoError
<1>1. /\ Pending /\ Matching # {} /\ ~ RunsOff(Newest) /\ error' = NoError
      /\ UNCHANGED <<id, prog, status, cap, buf, trace>>
      /\ handlers' = SubSeq(handlers, 1, Len(handlers) - Cardinality(Foreign(Newest)))
      /\ frames' = FramesAfter(Newest) /\ ip' = handlers[Newest].ip
      /\ stack' = Append(stack, Exc(error))
  BY DEF CatchError
<1>2. error \in Types
  BY <1>1 DEF TypeOK, Pending
<1>3. stack' \in Seq(Value)
  BY <1>1, <1>2, ValueFacts DEF TypeOK
<1>4. QED
  BY <1>1, <1>2, <1>3, NewestFacts

LEMMA CatchTypes == ASSUME TypeOK, CatchError PROVE TypeOK'
<1>1. /\ Newest \in 1 .. Len(handlers) /\ ~ RunsOff(Newest)
      /\ UNCHANGED <<id, prog, status, cap, buf, trace>>
      /\ handlers' = SubSeq(handlers, 1, Len(handlers) - Cardinality(Foreign(Newest)))
      /\ frames' = FramesAfter(Newest) /\ ip' = handlers[Newest].ip
      /\ stack' \in Seq(Value) /\ error' = NoError
  BY CatchAct
<1>2. Len(handlers) \in Nat /\ Len(frames) \in Nat \ {0}
  BY LengthFacts
<1>3. Cardinality(Foreign(Newest)) \in Nat
  <2>1. Newest \in Int /\ Foreign(Newest) \subseteq Newest .. Len(handlers)
    BY <1>1, <1>2 DEF Foreign
  <2>2. IsFiniteSet(Newest .. Len(handlers))
    BY <1>2, <2>1, FS_Interval
  <2>3. IsFiniteSet(Foreign(Newest))
    BY <2>1, <2>2, FS_Subset
  <2>4. QED
    BY <2>3, FS_CardinalityType
<1>4. handlers' \in Seq(Handler)
  <2>1. handlers \in Seq(Handler)
    BY DEF TypeOK
  <2>2. PICK c \in Nat : c = Cardinality(Foreign(Newest))
    BY <1>3
  <2>3. QED
    BY <1>1, <1>2, <2>1, <2>2
<1>5. frames' \in Seq(Frame) /\ Len(frames') > 0
  <2>1. frames \in Seq(Frame)
    BY DEF TypeOK
  <2>2. CASE handlers[Newest].frame = CurFrame
    BY <1>1, <1>2, <2>1, <2>2 DEF FramesAfter
  <2>3. CASE handlers[Newest].frame # CurFrame
    <3>1. handlers[Newest].frame.idx \in 2 .. Len(frames)
      BY <1>1, <2>3 DEF RunsOff
    <3>2. frames' = SubSeq(frames, 1, handlers[Newest].frame.idx - 1)
      BY <1>1, <2>3 DEF FramesAfter
    <3>3. QED
      BY <1>2, <2>1, <3>1, <3>2
  <2>4. QED
    BY <2>2, <2>3
<1>6. ip' \in [fn : Functions, pc : Int]
  BY <1>1, HandlerShape
<1>7. QED
  BY <1>1, <1>4, <1>5, <1>6 DEF TypeOK

LEMMA StopAct ==
    ASSUME TypeOK, CatchRunsOff \/ Traceback \/ Undefined \/ Cut
    PROVE  /\ status' \in {"wild", "traceback", "cut"}
           /\ UNCHANGED <<id, prog, ip, stack, frames, cap, buf, handlers, error, trace>>
BY DEF CatchRunsOff, Traceback, Undefined, Cut

(* Any step that keeps the program and moves within the types.             *)
LEMMA TypesOf ==
    ASSUME TypeOK, UNCHANGED <<id, prog>>,
           status' \in {"run", "halt", "traceback", "wild", "cut"},
           ip' \in [fn : Functions, pc : Int], stack' \in Seq(Value),
           frames' \in Seq(Frame), Len(frames') > 0, cap' \in Nat, buf' \in Nat,
           handlers' \in Seq(Handler), error' \in Types \cup {NoError}, UNCHANGED trace
    PROVE  TypeOK'
BY DEF TypeOK

LEMMA InFrame ==
    ASSUME TypeOK,
           \/ Load \/ LoadAny \/ SetVal \/ Pop \/ Operator \/ NewIter \/ ForIter
           \/ Test \/ Jmp \/ JmpBack \/ Nop \/ AssertTrue
           \/ CallRefused \/ CallType \/ CallShow \/ Raise
    PROVE  \/ \E n, pc : Pops(n, pc)
           \/ \E n, v, pc : Pushes(n, v, pc)
           \/ \E n, t : Throws(n, t)
<1>1. CASE Load
  BY <1>1, LoadAct
<1>2. CASE LoadAny
  BY <1>2, LoadAnyAct
<1>3. CASE SetVal \/ Nop \/ Jmp \/ JmpBack
  BY <1>3, PlainAct
<1>4. CASE Pop
  BY <1>4, PopAct
<1>5. CASE Operator
  BY <1>5, OperatorAct
<1>6. CASE NewIter
  BY <1>6, NewIterAct
<1>7. CASE ForIter
  BY <1>7, ForIterAct
<1>8. CASE Test
  BY <1>8, TestAct
<1>9. CASE AssertTrue
  BY <1>9, AssertAct
<1>10. CASE CallRefused
  BY <1>10, CallRefusedAct
<1>11. CASE CallType
  BY <1>11, CallTypeAct
<1>12. CASE CallShow
  BY <1>12, CallShowAct
<1>13. CASE Raise
  BY <1>13, RaiseAct
<1>14. QED
  BY <1>1, <1>2, <1>3, <1>4, <1>5, <1>6, <1>7, <1>8, <1>9, <1>10, <1>11, <1>12, <1>13

LEMMA TypeStep == ASSUME TypeOK, [Next]_vars PROVE TypeOK'
<1>1. CASE \/ Load \/ LoadAny \/ SetVal \/ Pop \/ Operator \/ NewIter \/ ForIter
           \/ Test \/ Jmp \/ JmpBack \/ Nop \/ AssertTrue
           \/ CallRefused \/ CallType \/ CallShow \/ Raise
  <2>1. \/ \E n, pc : Pops(n, pc)
        \/ \E n, v, pc : Pushes(n, v, pc)
        \/ \E n, t : Throws(n, t)
    BY <1>1, InFrame
  <2>2. QED
    BY <2>1, WithinTypes
<1>2. CASE CallFunction
  <2>1. /\ UNCHANGED <<id, prog, status, trace, handlers, error>> /\ GrowFrames
        /\ Callee.n \in Functions /\ Ins.n + 1 \in 0 .. Height
        /\ stack' = Popped(Ins.n + 1) /\ ip' = [fn |-> Callee.n, pc |-> 0]
        /\ frames' \in Seq(Frame) /\ Len(frames') = Len(frames) + 1
    BY <1>2, CallFunctionAct
  <2>2. stack' \in Seq(Value)
    BY <2>1, PoppedFacts DEF TypeOK
  <2>3. QED
    BY <2>1, <2>2, GrowTypes, TypesOf, LengthFacts DEF TypeOK
<1>3. CASE Ret
  <2>1. /\ UNCHANGED <<id, prog, status, trace, cap, buf, handlers, error>>
        /\ stack' \in Seq(Value) /\ frames' \in Seq(Frame)
        /\ Len(frames') = Len(frames) - 1 /\ Len(frames) > 1
        /\ ip' \in [fn : Functions, pc : Int]
    BY <1>3, RetAct
  <2>2. Len(frames') > 0
    BY <2>1, LengthFacts
  <2>3. QED
    BY <2>1, <2>2, TypesOf DEF TypeOK
<1>4. CASE Halt
  BY <1>4, HaltAct, TypesOf DEF TypeOK
<1>5. CASE ExptSetup
  <2>1. stack' \in Seq(Value)
    BY <1>5, ExptSetupAct, PoppedFacts DEF TypeOK
  <2>2. ip' \in [fn : Functions, pc : Int]
    BY <1>5, ExptSetupAct, Operands
  <2>3. QED
    BY <1>5, <2>1, <2>2, ExptSetupAct, TypesOf DEF TypeOK
<1>6. CASE ExptPopn
  <2>1. ip' \in [fn : Functions, pc : Int]
    BY <1>6, ExptPopnAct, Operands
  <2>2. QED
    BY <1>6, <2>1, ExptPopnAct, TypesOf DEF TypeOK
<1>7. CASE CatchError
  BY <1>7, CatchTypes
<1>8. CASE CatchRunsOff \/ Traceback \/ Undefined \/ Cut
  BY <1>8, StopAct, TypesOf DEF TypeOK
<1>9. CASE Stopped \/ UNCHANGED vars
  BY <1>9, TypesOf DEF Stopped, vars, TypeOK
<1>10. QED
  BY <1>1, <1>2, <1>3, <1>4, <1>5, <1>6, <1>7, <1>8, <1>9 DEF Next, Step

LEMMA TypeInit == Init => TypeOK
BY ConstAssumption DEF Init, TypeOK, Frame, NoError
----------------------------------------------------------------------------
(* What a shape says of the code that runs.                                *)
LEMMA ShapeFacts ==
    ASSUME TypeOK, id \in Tame, NEW f \in Functions
    PROVE  /\ Depth(id, f) \in Nat /\ Under(id, f) \in BOOLEAN /\ Leave(id, f) \in Nat
           /\ 0 \in Positions(Code[f])
           /\ \A pc \in Positions(Code[f]) :
                 /\ pc \in Nat /\ H(id, f, pc) \in Int /\ Known(id, f, pc) \subseteq Nat \X Value
                 /\ Armed(id, f, pc) \in Seq(Armable) /\ Room(id, f, pc) \in Nat
                 /\ H(id, f, pc) >= 0 => WellShaped(id, f, pc)
           /\ H(id, f, 0) >= 0 => Known(id, f, 0) = {} /\ Armed(id, f, 0) = <<>>
           /\ H(id, Main, 0) = 0 /\ Depth(id, Main) \in {0, 1} /\ ~ Under(id, Main)
           /\ Room(id, Main, 0) <= 2
<1>1. Verified(id) /\ Code = Program[id].code
  BY ShapeAssumption DEF TypeOK, Code
<1>2. \A pc \in Positions(Code[f]) : pc \in Nat
  BY DEF Positions
<1>3. QED
  BY <1>1, <1>2 DEF Verified, ShapeType

(* The frame on top and those below it.                                    *)
LEMMA Frames ==
    ASSUME TypeOK, FramesNested
    PROVE  /\ Top.base \in Nat /\ Top.hbase \in Nat /\ Top.fn \in Functions
           /\ (Top.fn = Main) <=> (Len(frames) = 1)
           /\ \A i \in 1 .. Len(frames) :
                 /\ frames[i].base \in 0 .. Top.base /\ frames[i].hbase \in 0 .. Top.hbase
           /\ \A i \in 1 .. Len(frames) - 1 :
                 /\ frames[i + 1].base \in 0 .. Top.base /\ frames[i + 1].hbase \in 0 .. Top.hbase
<1>1. Len(frames) \in Nat \ {0} /\ Len(frames) \in 1 .. Len(frames)
  BY LengthFacts
<1>2. \A i \in 1 .. Len(frames) : frames[i].base \in Int /\ frames[i].hbase \in Nat
  BY FrameShape
<1>3. \A i \in 1 .. Len(frames) :
         /\ 0 <= frames[i].base /\ frames[i].base <= Top.base
         /\ frames[i].hbase <= Top.hbase
  BY <1>1 DEF FramesNested, Top
<1>4. \A i \in 1 .. Len(frames) :
         frames[i].base \in 0 .. Top.base /\ frames[i].hbase \in 0 .. Top.hbase
  BY <1>1, <1>2, <1>3 DEF Top
<1>5. \A i \in 1 .. Len(frames) - 1 : i + 1 \in 1 .. Len(frames)
  BY <1>1
<1>6. Top.fn \in Functions
  BY <1>1, FrameShape DEF Top
<1>7. (Top.fn = Main) <=> (Len(frames) = 1)
  BY <1>1 DEF FramesNested, Top
<1>8. Top.base \in Nat /\ Top.hbase \in Nat
  BY <1>1, <1>2, <1>3 DEF Top
<1>9. QED
  BY <1>4, <1>5, <1>6, <1>7, <1>8

(* The contract, of the instruction that comes next.                       *)
KnownBelow(n) == {e \in KnownAt(ip) : e[1] <= HAt(ip) - n}
Goes(pc2, h2, kn2) ==
    Flows(id, ip.fn, pc2, h2, kn2) /\ Keeps(id, ip.fn, ip.pc, pc2)
Failing(t, n) == Fails(id, ip.fn, ip.pc, t, HAt(ip) - n, KnownBelow(n))
SureOf(k, kinds) == \E e \in KnownAt(ip) : e[1] = HAt(ip) - k /\ e[2].k \in kinds
MayBe(k, v) == \A e \in KnownAt(ip) : e[1] = HAt(ip) - k => e[2] = v

Ready == TypeOK /\ id \in Tame /\ Sound /\ Running

LEMMA Here ==
    ASSUME Ready
    PROVE  /\ TypeOK /\ FramesNested /\ FramesPlaced /\ ActiveAt(ip, stack) /\ Fetchable
           /\ ip.fn = Top.fn /\ ip.fn \in Functions /\ ip.pc \in Positions(Code[ip.fn])
           /\ ip.pc \in Nat /\ HAt(ip) \in Nat /\ KnownAt(ip) \subseteq Nat \X Value
           /\ ArmedAt(ip) \in Seq(Armable) /\ RoomAt(ip) \in Nat /\ RoomAt(ip) <= cap
           /\ Height \in Nat /\ Height = Top.base + HAt(ip)
           /\ WellShaped(id, ip.fn, ip.pc)
<1>1. TypeOK /\ FramesNested /\ FramesPlaced /\ ActiveAt(ip, stack) /\ id \in Tame
  BY DEF Ready, Sound
<1>2. /\ ip.fn = Top.fn /\ ip.pc \in Positions(Code[ip.fn]) /\ HAt(ip) >= 0
      /\ Height = Top.base + HAt(ip) /\ RoomAt(ip) <= cap
  BY <1>1 DEF ActiveAt, Height
<1>3. ip.fn \in Functions
  BY <1>1, <1>2, Frames
<1>4. /\ ip.pc \in Nat /\ HAt(ip) \in Int /\ KnownAt(ip) \subseteq Nat \X Value
      /\ ArmedAt(ip) \in Seq(Armable) /\ RoomAt(ip) \in Nat
      /\ HAt(ip) >= 0 => WellShaped(id, ip.fn, ip.pc)
  BY <1>1, <1>2, <1>3, ShapeFacts DEF HAt, KnownAt, ArmedAt, RoomAt
<1>5. Fetchable
  BY <1>2 DEF Fetchable, Positions
<1>6. Height \in Nat /\ HAt(ip) \in Nat
  BY <1>1, <1>2, <1>4, LengthFacts
<1>7. QED
  BY <1>1, <1>2, <1>3, <1>4, <1>5, <1>6

LEMMA Shaped ==
    ASSUME Ready
    PROVE  /\ HAt(ip) >= Needs(Ins)
           /\ Ins.op = "LOAD" =>
                 IF Ins.v.k = "undefined" THEN Failing(NameError, 0)
                 ELSE Goes(ip.pc + 1, HAt(ip) + 1, KnownBelow(0) \cup {<<HAt(ip) + 1, Ins.v>>})
           /\ Ins.op = "LOADANY" => Goes(ip.pc + 1, HAt(ip) + 1, KnownBelow(0))
           /\ Ins.op \in {"SET_VAL", "NOP"} => Goes(ip.pc + 1, HAt(ip), KnownBelow(0))
           /\ Ins.op = "POP" => Goes(ip.pc + 1, HAt(ip) - 1, KnownBelow(1))
           /\ Ins.op = "OPERATOR" =>
                 /\ Goes(ip.pc + 1, HAt(ip) - 1, KnownBelow(2))
                 /\ (SureOf(0, {"int"}) /\ SureOf(1, {"int"})) \/ Failing(TypeError, 2)
           /\ Ins.op = "NEW_ITER" =>
                 /\ SureOf(0, {"seq"})
                 /\ Goes(ip.pc + 1, HAt(ip), KnownBelow(1) \cup {<<HAt(ip), [k |-> "iter", n |-> Ins.n]>>})
           /\ Ins.op = "FORITER" =>
                 /\ SureOf(0, {"iter"}) /\ Goes(ip.pc + 1, HAt(ip) + 1, KnownBelow(0))
                 /\ Goes(ip.pc + 1 + Ins.n, HAt(ip), KnownBelow(0))
           /\ Ins.op = "TEST" =>
                 /\ Goes(ip.pc + 1, HAt(ip) - 1, KnownBelow(1))
                 /\ Goes(ip.pc + 1 + Ins.n, HAt(ip) - 1, KnownBelow(1))
           /\ Ins.op = "JMP" => Goes(ip.pc + 1 + Ins.n, HAt(ip), KnownBelow(0))
           /\ Ins.op = "JMP_BACK" => Goes(ip.pc + 1 - Ins.n, HAt(ip), KnownBelow(0))
           /\ Ins.op = "ASSERT" =>
                 /\ Goes(ip.pc + 1, HAt(ip) - Ins.n - 1, KnownBelow(Ins.n + 1))
                 /\ Failing(AssertionError, Ins.n + 1)
           /\ Ins.op = "RAISE" =>
                 IF Ins.n = 0 THEN Failing(RuntimeError, 0)
                 ELSE /\ \A t \in Types :
                            MayBe(0, [k |-> "type", n |-> t]) \/ MayBe(0, Exc(t)) => Failing(t, Ins.n)
                      /\ SureOf(0, {"type", "exc"}) \/ Failing(RuntimeError, Ins.n)
<1>1. WellShaped(id, ip.fn, ip.pc)
  BY Here
<1>2. Code = Program[id].code
  BY Here DEF TypeOK, Code
<1>3. HAt(ip) >= Needs(Ins)
  BY <1>1, <1>2 DEF WellShaped, Ins, Goes, Failing, KnownBelow, SureOf, MayBe, HAt, KnownAt
<1>4. Ins.op = "LOAD" =>
         IF Ins.v.k = "undefined" THEN Failing(NameError, 0)
         ELSE Goes(ip.pc + 1, HAt(ip) + 1, KnownBelow(0) \cup {<<HAt(ip) + 1, Ins.v>>})
  BY <1>1, <1>2 DEF WellShaped, Ins, Goes, Failing, KnownBelow, SureOf, MayBe, HAt, KnownAt
<1>5. Ins.op = "LOADANY" => Goes(ip.pc + 1, HAt(ip) + 1, KnownBelow(0))
  BY <1>1, <1>2 DEF WellShaped, Ins, Goes, Failing, KnownBelow, SureOf, MayBe, HAt, KnownAt
<1>6. Ins.op \in {"SET_VAL", "NOP"} => Goes(ip.pc + 1, HAt(ip), KnownBelow(0))
  BY <1>1, <1>2 DEF WellShaped, Ins, Goes, Failing, KnownBelow, SureOf, MayBe, HAt, KnownAt
<1>7. Ins.op = "POP" => Goes(ip.pc + 1, HAt(ip) - 1, KnownBelow(1))
  BY <1>1, <1>2 DEF WellShaped, Ins, Goes, Failing, KnownBelow, SureOf, MayBe, HAt, KnownAt
<1>8. Ins.op = "OPERATOR" =>
         /\ Goes(ip.pc + 1, HAt(ip) - 1, KnownBelow(2))
         /\ (SureOf(0, {"int"}) /\ SureOf(1, {"int"})) \/ Failing(TypeError, 2)
  BY <1>1, <1>2 DEF WellShaped, Ins, Goes, Failing, KnownBelow, SureOf, MayBe, HAt, KnownAt
<1>9. Ins.op = "NEW_ITER" =>
         /\ SureOf(0, {"seq"})
         /\ Goes(ip.pc + 1, HAt(ip), KnownBelow(1) \cup {<<HAt(ip), [k |-> "iter", n |-> Ins.n]>>})
  BY <1>1, <1>2 DEF WellShaped, Ins, Goes, Failing, KnownBelow, SureOf, MayBe, HAt, KnownAt
<1>10. Ins.op = "FORITER" =>
          /\ SureOf(0, {"iter"}) /\ Goes(ip.pc + 1, HAt(ip) + 1, KnownBelow(0))
          /\ Goes(ip.pc + 1 + Ins.n, HAt(ip), KnownBelow(0))
  BY <1>1, <1>2 DEF WellShaped, Ins, Goes, Failing, KnownBelow, SureOf, MayBe, HAt, KnownAt
<1>11. Ins.op = "TEST" =>
          /\ Goes(ip.pc + 1, HAt(ip) - 1, KnownBelow(1))
          /\ Goes(ip.pc + 1 + Ins.n, HAt(ip) - 1, KnownBelow(1))
  BY <1>1, <1>2 DEF WellShaped, Ins, Goes, Failing, KnownBelow, SureOf, MayBe, HAt, KnownAt
<1>12. Ins.op = "JMP" => Goes(ip.pc + 1 + Ins.n, HAt(ip), KnownBelow(0))
  BY <1>1, <1>2 DEF WellShaped, Ins, Goes, Failing, KnownBelow, SureOf, MayBe, HAt, KnownAt
<1>13. Ins.op = "JMP_BACK" => Goes(ip.pc + 1 - Ins.n, HAt(ip), KnownBelow(0))
  BY <1>1, <1>2 DEF WellShaped, Ins, Goes, Failing, KnownBelow, SureOf, MayBe, HAt, KnownAt
<1>14. Ins.op = "ASSERT" =>
          /\ Goes(ip.pc + 1, HAt(ip) - Ins.n - 1, KnownBelow(Ins.n + 1))
          /\ Failing(AssertionError, Ins.n + 1)
  BY <1>1, <1>2 DEF WellShaped, Ins, Goes, Failing, KnownBelow, SureOf, MayBe, HAt, KnownAt
<1>15. Ins.op = "RAISE" =>
          IF Ins.n = 0 THEN Failing(RuntimeError, 0)
          ELSE /\ \A t \in Types :
                     MayBe(0, [k |-> "type", n |-> t]) \/ MayBe(0, Exc(t)) => Failing(t, Ins.n)
               /\ SureOf(0, {"type", "exc"}) \/ Failing(RuntimeError, Ins.n)
  BY <1>1, <1>2 DEF WellShaped, Ins, Goes, Failing, KnownBelow, SureOf, MayBe, HAt, KnownAt
<1>16. QED
  BY <1>3, <1>4, <1>5, <1>6, <1>7, <1>8, <1>9, <1>10, <1>11, <1>12, <1>13, <1>14, <1>15

MadeOf(n) == {<<HAt(ip) - n, Exc(e[2].n)>> : e \in {x \in KnownAt(ip) : x[1] = HAt(ip) - n /\ x[2].k = "type"}}

LEMMA ShapedCall ==
    ASSUME Ready, Ins.op = "CALL"
    PROVE  /\ Flows(id, ip.fn, ip.pc + 1, HAt(ip) - Ins.n, KnownBelow(Ins.n + 1) \cup MadeOf(Ins.n))
           /\ Armed(id, ip.fn, ip.pc + 1) = ArmedAt(ip)
           /\ \/ \E e \in KnownAt(ip) :
                    /\ e[1] = HAt(ip) - Ins.n /\ e[2].k \in Callable
                    /\ e[2].k = "fn" => prog.arity[e[2].n] = Ins.n
              \/ Failing(TypeError, 0)
           /\ SureOf(Ins.n, {"fn"}) \/ Keeps(id, ip.fn, ip.pc, ip.pc + 1)
           /\ \A g \in Functions \ {Main} :
                 prog.arity[g] = Ins.n /\ MayBe(Ins.n, [k |-> "fn", n |-> g])
                    => MayCall(id, ip.fn, ip.pc, g)
<1>1. WellShaped(id, ip.fn, ip.pc)
  BY Here
<1>2. Code = Program[id].code /\ prog = Program[id]
  BY Here DEF TypeOK, Code
<1>3. QED
  BY <1>1, <1>2 DEF WellShaped, Ins, Failing, KnownBelow, SureOf, MayBe, HAt, KnownAt, ArmedAt, MadeOf

LEMMA ShapedFrames ==
    ASSUME Ready
    PROVE  /\ Ins.op = "RET" =>
                 /\ ip.fn # Main /\ Ins.n \in {0, 1} /\ HAt(ip) = Ins.n
                 /\ ArmedAt(ip) = <<>> /\ Leave(id, ip.fn) <= RoomAt(ip)
           /\ Ins.op = "HALT" => ip.fn = Main /\ HAt(ip) = 0 /\ ArmedAt(ip) = <<>>
           /\ Ins.op = "EXPT_SETUP" =>
                 /\ Flows(id, ip.fn, ip.pc + 1, HAt(ip) - 1, KnownBelow(1))
                 /\ Room(id, ip.fn, ip.pc + 1) <= RoomAt(ip)
                 /\ \E e \in KnownAt(ip) :
                       /\ e[1] = HAt(ip) /\ e[2].k = "type"
                       /\ Armed(id, ip.fn, ip.pc + 1) =
                             Append(ArmedAt(ip), [typ |-> e[2].n, pc |-> ip.pc + 1 + Ins.n])
           /\ Ins.op = "EXPT_POPN" =>
                 /\ Flows(id, ip.fn, ip.pc + 1, HAt(ip), KnownBelow(0))
                 /\ Room(id, ip.fn, ip.pc + 1) <= RoomAt(ip)
                 /\ Ins.n <= Len(ArmedAt(ip))
                 /\ Armed(id, ip.fn, ip.pc + 1) =
                       SubSeq(ArmedAt(ip), 1, Len(ArmedAt(ip)) - Ins.n)
<1>1. WellShaped(id, ip.fn, ip.pc)
  BY Here
<1>2. Code = Program[id].code
  BY Here DEF TypeOK, Code
<1>3. QED
  BY <1>1, <1>2 DEF WellShaped, Ins, KnownBelow, HAt, KnownAt, ArmedAt, RoomAt
----------------------------------------------------------------------------
(* What is known of an operand is true of it.                              *)
LEMMA KnownFacts ==
    ASSUME Ready, NEW e \in KnownAt(ip)
    PROVE  /\ e[1] \in 1 .. HAt(ip) /\ e[2] \in Value /\ stack[Top.base + e[1]] = e[2]
           /\ Peek(HAt(ip) - e[1]) = e[2]
<1>1. /\ HAt(ip) \in Nat /\ KnownAt(ip) \subseteq Nat \X Value /\ ActiveAt(ip, stack)
      /\ Height = Top.base + HAt(ip) /\ Top.base \in Nat
  BY Here, Frames
<1>2. e[1] \in Nat /\ e[2] \in Value
  BY <1>1
<1>3. 1 <= e[1] /\ e[1] <= HAt(ip) /\ stack[Top.base + e[1]] = e[2]
  BY <1>1 DEF ActiveAt
<1>4. Height - (HAt(ip) - e[1]) = Top.base + e[1]
  BY <1>1, <1>2
<1>5. QED
  BY <1>1, <1>2, <1>3, <1>4 DEF Peek

LEMMA SureFacts ==
    ASSUME Ready, NEW k \in Nat, NEW kinds, SureOf(k, kinds)
    PROVE  Peek(k).k \in kinds
<1>1. PICK e \in KnownAt(ip) : e[1] = HAt(ip) - k /\ e[2].k \in kinds
  BY DEF SureOf
<1>2. HAt(ip) \in Nat
  BY Here
<1>3. HAt(ip) - e[1] = k
  BY <1>1, <1>2
<1>4. QED
  BY <1>1, <1>3, KnownFacts

LEMMA MayFacts ==
    ASSUME Ready, NEW k \in Nat
    PROVE  MayBe(k, Peek(k))
<1>1. SUFFICES ASSUME NEW e \in KnownAt(ip), e[1] = HAt(ip) - k PROVE e[2] = Peek(k)
  BY DEF MayBe
<1>2. HAt(ip) \in Nat
  BY Here
<1>3. HAt(ip) - e[1] = k
  BY <1>1, <1>2
<1>4. QED
  BY <1>3, KnownFacts

(* The next instruction of tame code is always defined.                    *)
LEMMA AlwaysDefined == ASSUME Ready PROVE Defined
<1>1. /\ TypeOK /\ FramesNested /\ Fetchable /\ HAt(ip) \in Nat /\ Height = Top.base + HAt(ip)
      /\ Top.base \in Nat /\ Top.hbase \in Nat /\ ActiveAt(ip, stack) /\ ip.fn = Top.fn
      /\ KnownAt(ip) \subseteq Nat \X Value /\ ArmedAt(ip) \in Seq(Armable)
  BY Here, Frames
<1>2. Code[ip.fn] \in Seq(Instruction) /\ ip.pc \in 0 .. Len(Code[ip.fn]) - 1
  BY <1>1, ProgramAssumption DEF Code, Fetchable, TypeOK
<1>3. Ins \in Instruction
  BY <1>2 DEF Ins
<1>4. Needs(Ins) \in Nat
  BY <1>3 DEF Needs, Instruction
<1>5. Height >= Needs(Ins)
  <2>1. HAt(ip) >= Needs(Ins)
    BY Shaped
  <2>2. QED
    BY <1>1, <1>4, <2>1
<1>6. ASSUME Ins.op = "FORITER" PROVE Peek(0).k = "iter"
  BY <1>6, Shaped, SureFacts
<1>7. ASSUME Ins.op = "RET" PROVE Len(frames) > 1
  <2>1. Top.fn # Main
    BY <1>1, <1>7, ShapedFrames
  <2>2. Len(frames) \in Nat \ {0} /\ Len(frames) # 1
    BY <1>1, <2>1, Frames, LengthFacts
  <2>3. QED
    BY <2>2
<1>8. ASSUME Ins.op = "EXPT_SETUP" PROVE Peek(0).k = "type"
  <2>1. PICK e \in KnownAt(ip) : e[1] = HAt(ip) /\ e[2].k = "type"
    BY <1>8, ShapedFrames
  <2>2. HAt(ip) - e[1] = 0
    BY <1>1, <2>1
  <2>3. QED
    BY <2>1, <2>2, KnownFacts
<1>9. ASSUME Ins.op = "EXPT_POPN" PROVE Len(handlers) >= Ins.n
  <2>1. Ins.n <= Len(ArmedAt(ip))
    BY <1>9, ShapedFrames
  <2>2. Len(handlers) = Top.hbase + Len(ArmedAt(ip))
    BY <1>1 DEF ActiveAt
  <2>3. Ins.n \in Nat /\ Len(ArmedAt(ip)) \in Nat
    BY <1>1, <1>3 DEF Instruction
  <2>4. QED
    BY <1>1, <2>1, <2>2, <2>3
<1>10. QED
  BY <1>1, <1>5, <1>6, <1>7, <1>8, <1>9 DEF Defined

(* Whether the frame vector may move: not while a handler is armed.        *)
LEMMA ColdFacts ==
    ASSUME Ready, ~ Hot(id, ip.fn, ip.pc)
    PROVE  Len(handlers) = 0 /\ Top.hbase = 0 /\ ArmedAt(ip) = <<>>
<1>1. /\ FramesPlaced /\ ActiveAt(ip, stack) /\ ip.fn = Top.fn
      /\ Len(frames) \in 1 .. Len(frames)
  BY Here, LengthFacts
<1>2. ~ Under(id, Top.fn) /\ ArmedAt(ip) = <<>>
  BY <1>1 DEF Hot, ArmedAt
<1>3. Top.hbase = 0
  BY <1>1, <1>2 DEF FramesPlaced, Top
<1>4. QED
  BY <1>1, <1>2, <1>3 DEF ActiveAt

LEMMA RoomyFacts ==
    ASSUME Ready, Roomy(id, ip.fn, ip.pc)
    PROVE  Len(frames) < cap
<1>1. /\ FramesPlaced /\ ip.fn = Top.fn /\ Len(frames) \in 1 .. Len(frames) /\ TypeOK
      /\ RoomAt(ip) \in Nat /\ RoomAt(ip) <= cap
  BY Here, LengthFacts
<1>2. Depth(id, ip.fn) # 0 /\ Depth(id, ip.fn) < RoomAt(ip)
  BY DEF Roomy, RoomAt
<1>3. Len(frames) = Depth(id, ip.fn)
  BY <1>1, <1>2 DEF FramesPlaced, Top
<1>4. QED
  BY <1>1, <1>2, <1>3 DEF TypeOK

LEMMA Growth ==
    ASSUME Ready, Hot(id, ip.fn, ip.pc) => Roomy(id, ip.fn, ip.pc),
           GrowFrames \/ UNCHANGED <<cap, buf>>
    PROVE  /\ cap' \in Nat /\ cap' >= cap /\ (GrowFrames => Len(frames) + 1 <= cap')
           /\ buf' = buf \/ ~ Hot(id, ip.fn, ip.pc)
<1>1. Len(frames) \in Nat \ {0} /\ cap \in Nat /\ Len(frames) <= cap
  BY Here, LengthFacts DEF TypeOK, FramesPlaced
<1>2. cap' \in Nat /\ cap' >= cap /\ (GrowFrames => Len(frames) + 1 <= cap')
  BY <1>1 DEF GrowFrames
<1>3. ASSUME Hot(id, ip.fn, ip.pc) PROVE buf' = buf
  <2>1. Len(frames) < cap
    BY <1>3, RoomyFacts
  <2>2. QED
    BY <1>1, <2>1 DEF GrowFrames
<1>4. QED
  BY <1>2, <1>3

(* What the callers of the frame on top rely on.                           *)
Undisturbed ==
    /\ UNCHANGED <<id, prog>> /\ cap' \in Nat /\ cap' >= cap
    /\ \A k \in 1 .. Top.base : stack'[k] = stack[k]
    /\ Top.hbase = 0 \/ (buf' = buf /\ \A j \in 1 .. Top.hbase : handlers'[j] = handlers[j])

LEMMA SuspendedFacts ==
    ASSUME TypeOK, id \in Tame, NEW i \in 1 .. Len(frames) - 1, Suspended(i)
    PROVE  /\ frames[i].saved.fn = frames[i].fn
           /\ frames[i].saved.pc \in Positions(Code[frames[i].fn])
           /\ HAt(frames[i].saved) \in Nat \ {0}
           /\ KnownAt(frames[i].saved) \subseteq Nat \X Value
           /\ ArmedAt(frames[i].saved) \in Seq(Armable)
           /\ RoomAt(frames[i].saved) \in Nat
           /\ frames[i].base \in Int /\ frames[i].hbase \in Nat
<1>1. i \in 1 .. Len(frames)
  BY LengthFacts
<1>2. frames[i].fn \in Functions /\ frames[i].base \in Int /\ frames[i].hbase \in Nat
  BY <1>1, FrameShape
<1>3. /\ frames[i].saved.fn = frames[i].fn
      /\ frames[i].saved.pc \in Positions(Code[frames[i].fn]) /\ HAt(frames[i].saved) >= 1
  BY DEF Suspended
<1>4. /\ HAt(frames[i].saved) \in Int /\ KnownAt(frames[i].saved) \subseteq Nat \X Value
      /\ ArmedAt(frames[i].saved) \in Seq(Armable) /\ RoomAt(frames[i].saved) \in Nat
  BY <1>2, <1>3, ShapeFacts DEF HAt, KnownAt, ArmedAt, RoomAt
<1>5. QED
  BY <1>2, <1>3, <1>4

LEMMA SuspendedKept ==
    ASSUME TypeOK, id \in Tame, FramesNested, NEW i \in 1 .. Len(frames) - 1, Suspended(i),
           Undisturbed, frames'[i] = frames[i], frames'[i + 1].base = frames[i + 1].base,
           frames'[i + 1].hbase = frames[i + 1].hbase, frames'[i + 1].fn = frames[i + 1].fn
    PROVE  Suspended(i)'
<1> DEFINE a == frames[i].saved
           b == frames[i].base
           hb == frames[i].hbase
<1>1. /\ a.fn = frames[i].fn /\ a.pc \in Positions(Code[a.fn]) /\ HAt(a) \in Nat \ {0}
      /\ KnownAt(a) \subseteq Nat \X Value /\ ArmedAt(a) \in Seq(Armable) /\ RoomAt(a) \in Nat
      /\ b \in Nat /\ hb \in Nat
  <2>1. i \in 1 .. Len(frames)
    BY LengthFacts
  <2>2. frames[i].base \in Nat
    BY <2>1, Frames
  <2>3. QED
    BY <2>2, SuspendedFacts
<1>2. /\ frames[i + 1].base = b + HAt(a) - 1 /\ frames[i + 1].base \in 0 .. Top.base
      /\ frames[i + 1].hbase = hb + Len(ArmedAt(a)) /\ frames[i + 1].hbase \in 0 .. Top.hbase
      /\ Top.base \in Nat /\ Top.hbase \in Nat
  BY Frames DEF Suspended
<1>3. \A e \in KnownAt(a) : /\ 1 <= e[1] /\ e[1] < HAt(a) /\ stack'[b + e[1]] = e[2]
  <2>1. SUFFICES ASSUME NEW e \in KnownAt(a)
                 PROVE  1 <= e[1] /\ e[1] < HAt(a) /\ stack'[b + e[1]] = e[2]
    OBVIOUS
  <2>2. e[1] \in Nat /\ 1 <= e[1] /\ e[1] < HAt(a) /\ stack[b + e[1]] = e[2]
    BY <1>1 DEF Suspended
  <2>3. b + e[1] \in 1 .. Top.base
    <3>1. PICK x \in Nat, h \in Nat, t \in Nat, c \in Nat :
             x = e[1] /\ h = HAt(a) /\ t = Top.base /\ c = b
      BY <1>1, <1>2, <2>2
    <3>2. 1 <= x /\ x < h /\ c + h - 1 <= t
      BY <1>2, <2>2, <3>1
    <3>3. c + x \in 1 .. t
      BY <3>2
    <3>4. QED
      BY <3>1, <3>3
  <2>4. QED
    BY <2>2, <2>3 DEF Undisturbed
<1>4. \A j \in 1 .. Len(ArmedAt(a)) : hb + j \in 1 .. Top.hbase /\ Top.hbase # 0
  <2>1. PICK c \in Nat, n \in Nat, t \in Nat :
           c = hb /\ n = Len(ArmedAt(a)) /\ t = Top.hbase
    <3>1. Len(ArmedAt(a)) \in Nat
      BY <1>1
    <3>2. QED
      BY <1>1, <1>2, <3>1
  <2>2. c + n <= t
    BY <1>2, <2>1
  <2>3. \A j \in 1 .. n : c + j \in 1 .. t /\ t # 0
    BY <2>2
  <2>4. QED
    BY <2>1, <2>3
<1>5. \A j \in 1 .. Len(ArmedAt(a)) :
         handlers'[hb + j] =
            [typ |-> ArmedAt(a)[j].typ, frame |-> [buf |-> buf', idx |-> i],
             ip |-> [fn |-> frames[i].fn, pc |-> ArmedAt(a)[j].pc]]
  BY <1>4 DEF Suspended, ArmedBy, Undisturbed
<1>6. ArmedBy(i, ArmedAt(a))'
  BY <1>5, SMTT(30) DEF ArmedBy, ArmedAt, Undisturbed
<1>7. RoomAt(a) <= cap' \/ RoomAt(a) <= Leave(id, frames[i + 1].fn)
  BY <1>1 DEF Suspended, Undisturbed, TypeOK
<1>8. Code' = Code /\ frames'[i].saved = a
  BY DEF Undisturbed, Code
<1> HIDE DEF a, b, hb
<1>9. /\ HAt(a)' = HAt(a) /\ KnownAt(a)' = KnownAt(a) /\ ArmedAt(a)' = ArmedAt(a)
      /\ RoomAt(a)' = RoomAt(a) /\ a' = a /\ b' = b /\ hb' = hb
  BY DEF HAt, KnownAt, ArmedAt, RoomAt, Undisturbed, a, b, hb
<1>10. QED
  BY <1>1, <1>2, <1>3, <1>6, <1>7, <1>8, <1>9 DEF Suspended, a, b, hb, Undisturbed
----------------------------------------------------------------------------
(* The steps that stay in the frame on top.                                *)
LEMMA CallersKept ==
    ASSUME TypeOK, id \in Tame, Sound, status = "run", TypeOK', Undisturbed, UNCHANGED <<status, frames>>
    PROVE  /\ NeverWild' /\ CleanAtHalt' /\ FramesNested' /\ FramesPlaced'
           /\ \A i \in 1 .. Len(frames') - 1 : Suspended(i)'
<1>1. TypeOK /\ id \in Tame /\ status = "run" /\ FramesNested /\ FramesPlaced
  BY DEF Sound
<1>2. NeverWild' /\ CleanAtHalt'
  BY <1>1 DEF NeverWild, CleanAtHalt
<1>3. FramesNested'
  BY <1>1 DEF FramesNested
<1>4. FramesPlaced'
  <2>1. Len(frames) \in Nat /\ cap \in Nat /\ cap' \in Nat /\ cap' >= cap /\ id' = id
    BY <1>1, LengthFacts DEF Undisturbed, TypeOK
  <2>2. Len(frames) <= cap'
    BY <1>1, <2>1 DEF FramesPlaced
  <2>3. QED
    BY <1>1, <2>1, <2>2 DEF FramesPlaced
<1>5. ASSUME NEW i \in 1 .. Len(frames) - 1 PROVE Suspended(i)'
  <2>1. Suspended(i)
    BY <1>1 DEF Sound
  <2>2. QED
    BY <1>1, <2>1, SuspendedKept
<1>6. QED
  BY <1>2, <1>3, <1>4, <1>5

LEMMA OthersKept ==
    ASSUME Ready, TypeOK', Undisturbed, UNCHANGED <<status, frames>>
    PROVE  /\ NeverWild' /\ CleanAtHalt' /\ FramesNested' /\ FramesPlaced'
           /\ \A i \in 1 .. Len(frames') - 1 : Suspended(i)'
BY CallersKept DEF Ready, Running

(* The frame goes on at pc, with h2 operands and these handlers.           *)
MovesTo(pc, h2) ==
    /\ UNCHANGED <<id, prog, status, frames, cap, buf, error>>
    /\ pc \in Positions(Code[ip.fn]) /\ ip' = At(pc)
    /\ h2 \in Nat /\ H(id, ip.fn, pc) = h2 /\ Room(id, ip.fn, pc) <= cap
    /\ Len(stack') = Top.base + h2 /\ \A k \in 1 .. Top.base : stack'[k] = stack[k]
    /\ \A e \in Known(id, ip.fn, pc) :
          1 <= e[1] /\ e[1] <= h2 /\ stack'[Top.base + e[1]] = e[2]
Holds(armed) ==
    /\ \A j \in 1 .. Top.hbase : handlers'[j] = handlers[j]
    /\ \A j \in 1 .. Len(armed) :
          handlers'[Top.hbase + j] =
             [typ |-> armed[j].typ, frame |-> CurFrame, ip |-> At(armed[j].pc)]
    /\ Len(handlers') = Top.hbase + Len(armed)

LEMMA Continues ==
    ASSUME Ready, TypeOK', NEW pc, NEW h2, MovesTo(pc, h2),
           NEW armed, armed = Armed(id, ip.fn, pc), Holds(armed)
    PROVE  Sound'
<1>0. /\ UNCHANGED <<id, prog, status, frames, cap, buf, error>>
      /\ pc \in Positions(Code[ip.fn]) /\ ip' = At(pc)
      /\ h2 \in Nat /\ H(id, ip.fn, pc) = h2 /\ Room(id, ip.fn, pc) <= cap
      /\ Len(stack') = Top.base + h2 /\ \A k \in 1 .. Top.base : stack'[k] = stack[k]
      /\ \A e \in Known(id, ip.fn, pc) :
            1 <= e[1] /\ e[1] <= h2 /\ stack'[Top.base + e[1]] = e[2]
      /\ \A j \in 1 .. Top.hbase : handlers'[j] = handlers[j]
      /\ \A j \in 1 .. Len(armed) :
            handlers'[Top.hbase + j] =
               [typ |-> armed[j].typ, frame |-> CurFrame, ip |-> At(armed[j].pc)]
      /\ Len(handlers') = Top.hbase + Len(armed)
  BY DEF MovesTo, Holds
<1>1. Undisturbed
  <2>1. cap \in Nat
    BY Here DEF TypeOK
  <2>2. UNCHANGED <<id, prog>> /\ cap' \in Nat /\ cap' >= cap /\ buf' = buf
    BY <1>0, <2>1
  <2>3. QED
    BY <1>0, <2>2 DEF Undisturbed
<1>2. /\ NeverWild' /\ CleanAtHalt' /\ FramesNested' /\ FramesPlaced'
      /\ \A i \in 1 .. Len(frames') - 1 : Suspended(i)'
  BY <1>0, <1>1, OthersKept
<1>3. /\ ip'.fn = ip.fn /\ ip'.pc = pc /\ Top' = Top /\ Code' = Code /\ ip.fn = Top.fn
      /\ Len(frames') = Len(frames) /\ cap' = cap /\ id' = id /\ buf' = buf
  BY <1>0, Here DEF At, Top, Code
<1>4. /\ HAt(ip)' = h2 /\ KnownAt(ip)' = Known(id, ip.fn, pc) /\ ArmedAt(ip)' = armed
      /\ RoomAt(ip)' = Room(id, ip.fn, pc)
  BY <1>0, <1>3 DEF HAt, KnownAt, ArmedAt, RoomAt
<1>5. ArmedBy(Len(frames), armed)'
  BY <1>0, <1>3 DEF ArmedBy, CurFrame, At, Top
<1>6. ActiveAt(ip, stack)'
  <2>1. ip'.fn = Top'.fn /\ ip'.pc \in Positions(Code'[ip'.fn])
    BY <1>0, <1>3
  <2>2. HAt(ip)' >= 0 /\ Len(stack') = Top'.base + HAt(ip)'
    BY <1>0, <1>3, <1>4
  <2>3. \A e \in KnownAt(ip)' : /\ 1 <= e[1] /\ e[1] <= HAt(ip)'
                                /\ stack'[Top'.base + e[1]] = e[2]
    BY <1>0, <1>3, <1>4
  <2>4. /\ ArmedBy(Len(frames), ArmedAt(ip))' /\ Len(handlers') = Top'.hbase + Len(ArmedAt(ip)')
        /\ RoomAt(ip)' <= cap'
    BY <1>0, <1>3, <1>4, <1>5
  <2>5. QED
    BY <2>1, <2>2, <2>3, <2>4 DEF ActiveAt
<1>7. error' = NoError /\ status' = "run"
  BY <1>0 DEF Ready, Running
<1>8. QED
  BY <1>2, <1>6, <1>7 DEF Sound, Running, Pending

(* The operands that are left when n of them are popped.                   *)
LEMMA LeftFacts ==
    ASSUME Ready, NEW n \in 0 .. HAt(ip)
    PROVE  /\ n \in 0 .. Height /\ HAt(ip) - n \in Nat
           /\ Len(Popped(n)) = Top.base + (HAt(ip) - n)
           /\ \A k \in 1 .. Top.base : Popped(n)[k] = stack[k]
           /\ \A e \in KnownBelow(n) :
                 /\ e[1] \in 1 .. HAt(ip) - n /\ Popped(n)[Top.base + e[1]] = e[2]
           /\ \A v \in Value :
                 /\ Len(Append(Popped(n), v)) = Top.base + (HAt(ip) - n + 1)
                 /\ Append(Popped(n), v)[Top.base + (HAt(ip) - n + 1)] = v
                 /\ \A k \in 1 .. Top.base : Append(Popped(n), v)[k] = stack[k]
                 /\ \A e \in KnownBelow(n) : Append(Popped(n), v)[Top.base + e[1]] = e[2]
<1>1. /\ stack \in Seq(Value) /\ Top.base \in Nat /\ HAt(ip) \in Nat /\ Height \in Nat
      /\ Height = Top.base + HAt(ip)
  BY Here, Frames DEF TypeOK
<1>2. n \in 0 .. Height /\ HAt(ip) - n \in Nat /\ Height - n = Top.base + (HAt(ip) - n)
  BY <1>1
<1>3. \A k \in 1 .. Top.base : k \in 1 .. Height - n
  BY <1>1, <1>2
<1>4. ASSUME NEW e \in KnownBelow(n)
      PROVE  /\ e[1] \in 1 .. HAt(ip) - n /\ stack[Top.base + e[1]] = e[2]
             /\ Top.base + e[1] \in 1 .. Height - n
  <2>1. e \in KnownAt(ip) /\ e[1] <= HAt(ip) - n
    BY DEF KnownBelow
  <2>2. e[1] \in 1 .. HAt(ip) /\ stack[Top.base + e[1]] = e[2]
    BY <2>1, KnownFacts
  <2>3. PICK x \in Nat, h \in Nat, b \in Nat : x = e[1] /\ h = HAt(ip) /\ b = Top.base
    BY <1>1, <2>2
  <2>4. 1 <= x /\ x <= h - n /\ Height - n = b + (h - n) /\ h - n \in Nat
    BY <1>2, <2>1, <2>2, <2>3
  <2>5. x \in 1 .. h - n /\ b + x \in 1 .. b + (h - n)
    BY <2>4
  <2>6. QED
    BY <2>2, <2>3, <2>4, <2>5
<1>5. /\ Len(Popped(n)) = Height - n
      /\ \A k \in 1 .. Height - n : Popped(n)[k] = stack[k]
      /\ \A v \in Value :
            /\ Len(Append(Popped(n), v)) = Height - n + 1
            /\ Append(Popped(n), v)[Height - n + 1] = v
            /\ \A k \in 1 .. Height - n : Append(Popped(n), v)[k] = stack[k]
  BY <1>1, <1>2, PoppedFacts
<1>6. Height - n + 1 = Top.base + (HAt(ip) - n + 1)
  <2>1. PICK h \in Nat, b \in Nat : h = HAt(ip) - n /\ b = Top.base
    BY <1>1, <1>2
  <2>2. Height - n = b + h /\ (b + h) + 1 = b + (h + 1)
    BY <1>2, <2>1
  <2>3. QED
    BY <2>1, <2>2
<1>7. QED
  BY <1>2, <1>3, <1>4, <1>5, <1>6

(* What a step does that goes on where the contract says.                  *)
LEMMA GoesFacts ==
    ASSUME Ready, NEW pc, NEW h2, NEW kn2, Goes(pc, h2, kn2)
    PROVE  /\ pc \in Positions(Code[ip.fn]) /\ H(id, ip.fn, pc) = h2
           /\ Known(id, ip.fn, pc) \subseteq kn2
           /\ Armed(id, ip.fn, pc) = ArmedAt(ip) /\ Room(id, ip.fn, pc) <= cap
           /\ \A j \in 1 .. Len(ArmedAt(ip)) :
                 handlers[Top.hbase + j] =
                    [typ |-> ArmedAt(ip)[j].typ, frame |-> CurFrame, ip |-> At(ArmedAt(ip)[j].pc)]
           /\ Len(handlers) = Top.hbase + Len(ArmedAt(ip))
<1>1. /\ TypeOK /\ ActiveAt(ip, stack) /\ ip.fn \in Functions /\ RoomAt(ip) \in Nat
      /\ RoomAt(ip) <= cap /\ ip.fn = Top.fn /\ cap \in Nat /\ Code = Program[id].code
  BY Here DEF TypeOK, Code
<1>2. /\ pc \in Positions(Code[ip.fn]) /\ H(id, ip.fn, pc) = h2
      /\ Known(id, ip.fn, pc) \subseteq kn2
      /\ Armed(id, ip.fn, pc) = ArmedAt(ip) /\ Room(id, ip.fn, pc) <= RoomAt(ip)
  BY <1>1 DEF Goes, Flows, Keeps, ArmedAt, RoomAt
<1>3. id \in Tame
  BY DEF Ready
<1>4. Room(id, ip.fn, pc) \in Nat
  BY <1>1, <1>2, <1>3, ShapeFacts
<1>5. QED
  BY <1>1, <1>2, <1>4 DEF ActiveAt, ArmedBy, Top, CurFrame, At

LEMMA SoundPops ==
    ASSUME Ready, NEW n \in 0 .. HAt(ip), NEW pc, Pops(n, pc),
           Goes(pc, HAt(ip) - n, KnownBelow(n))
    PROVE  Sound'
<1>1. TypeOK'
  BY Here, WithinTypes
<1>2. /\ UNCHANGED <<id, prog, status, frames, handlers, cap, buf, error>>
      /\ stack' = Popped(n) /\ ip' = At(pc)
  BY DEF Pops, Within
<1>3. PICK h2 \in Nat : h2 = HAt(ip) - n
  BY LeftFacts
<1>4. PICK armed : armed = ArmedAt(ip)
  OBVIOUS
<1>5. /\ Len(stack') = Top.base + h2 /\ \A k \in 1 .. Top.base : stack'[k] = stack[k]
      /\ \A e \in KnownBelow(n) :
            1 <= e[1] /\ e[1] <= h2 /\ stack'[Top.base + e[1]] = e[2]
  BY <1>2, <1>3, LeftFacts
<1>6. /\ pc \in Positions(Code[ip.fn]) /\ H(id, ip.fn, pc) = h2
      /\ Known(id, ip.fn, pc) \subseteq KnownBelow(n)
      /\ armed = Armed(id, ip.fn, pc) /\ Room(id, ip.fn, pc) <= cap
      /\ \A j \in 1 .. Len(armed) :
            handlers[Top.hbase + j] =
               [typ |-> armed[j].typ, frame |-> CurFrame, ip |-> At(armed[j].pc)]
      /\ Len(handlers) = Top.hbase + Len(armed)
  BY <1>3, <1>4, GoesFacts
<1>7. MovesTo(pc, h2)
  BY <1>2, <1>5, <1>6 DEF MovesTo
<1>8. Holds(armed)
  BY <1>2, <1>6 DEF Holds
<1>9. QED
  BY <1>1, <1>6, <1>7, <1>8, Continues

LEMMA SoundPushes ==
    ASSUME Ready, NEW n \in 0 .. HAt(ip), NEW v, NEW pc, Pushes(n, v, pc),
           NEW h2, h2 = HAt(ip) - n + 1, NEW kn2, Goes(pc, h2, kn2),
           \A e \in kn2 : e \in KnownBelow(n) \/ (e[1] = h2 /\ e[2] = v)
    PROVE  Sound'
<1>1. TypeOK'
  BY Here, WithinTypes
<1>2. /\ UNCHANGED <<id, prog, status, frames, handlers, cap, buf, error>>
      /\ stack' = Append(Popped(n), v) /\ ip' = At(pc) /\ v \in Value
  BY DEF Pushes, Within
<1>3. PICK h \in Nat : h = HAt(ip) - n
  BY LeftFacts
<1>4. h2 \in Nat /\ h2 = h + 1
  BY <1>3
<1>5. PICK armed : armed = ArmedAt(ip)
  OBVIOUS
<1>6. /\ Len(stack') = Top.base + h2 /\ \A k \in 1 .. Top.base : stack'[k] = stack[k]
      /\ stack'[Top.base + h2] = v
      /\ \A e \in KnownBelow(n) : e[1] \in 1 .. h /\ stack'[Top.base + e[1]] = e[2]
  <2>1. v \in Value
    BY <1>2
  <2>2. /\ Len(Append(Popped(n), v)) = Top.base + (HAt(ip) - n + 1)
        /\ Append(Popped(n), v)[Top.base + (HAt(ip) - n + 1)] = v
        /\ \A k \in 1 .. Top.base : Append(Popped(n), v)[k] = stack[k]
        /\ \A e \in KnownBelow(n) : Append(Popped(n), v)[Top.base + e[1]] = e[2]
    BY <2>1, LeftFacts
  <2>3. \A e \in KnownBelow(n) : e[1] \in 1 .. h
    BY <1>3, LeftFacts
  <2>4. QED
    BY <1>2, <1>4, <2>2, <2>3
<1>7. \A e \in KnownBelow(n) :
         1 <= e[1] /\ e[1] <= h2 /\ stack'[Top.base + e[1]] = e[2]
  BY <1>4, <1>6
<1>8. \A e \in kn2 : 1 <= e[1] /\ e[1] <= h2 /\ stack'[Top.base + e[1]] = e[2]
  BY <1>4, <1>6, <1>7
<1>9. Goes(pc, h2, kn2)
  OBVIOUS
<1>10. /\ pc \in Positions(Code[ip.fn]) /\ H(id, ip.fn, pc) = h2
       /\ Known(id, ip.fn, pc) \subseteq kn2
       /\ armed = Armed(id, ip.fn, pc) /\ Room(id, ip.fn, pc) <= cap
       /\ \A j \in 1 .. Len(armed) :
             handlers[Top.hbase + j] =
                [typ |-> armed[j].typ, frame |-> CurFrame, ip |-> At(armed[j].pc)]
       /\ Len(handlers) = Top.hbase + Len(armed)
  BY <1>5, <1>9, GoesFacts
<1>11. \A e \in Known(id, ip.fn, pc) :
          1 <= e[1] /\ e[1] <= h2 /\ stack'[Top.base + e[1]] = e[2]
  BY <1>8, <1>10
<1>12. MovesTo(pc, h2)
  BY <1>2, <1>4, <1>6, <1>10, <1>11 DEF MovesTo
<1>13. Holds(armed)
  BY <1>2, <1>10 DEF Holds
<1>14. QED
  BY <1>1, <1>10, <1>12, <1>13, Continues

(* What the contract says of an exception.                                 *)
LEMMA FailingFacts ==
    ASSUME Ready, NEW n, NEW t, Failing(t, n)
    PROVE  /\ Hot(id, ip.fn, ip.pc) => Roomy(id, ip.fn, ip.pc)
           /\ (\A j \in 1 .. Len(ArmedAt(ip)) : ArmedAt(ip)[j].typ \notin Ancestors[t])
                 => Top.hbase = 0
           /\ \A j \in 1 .. Len(ArmedAt(ip)) :
                 ArmedAt(ip)[j].typ \in Ancestors[t] /\ Newer(ArmedAt(ip), t, j) =>
                    Goes(ArmedAt(ip)[j].pc, HAt(ip) - n + 1,
                         KnownBelow(n) \cup {<<HAt(ip) - n + 1, Exc(t)>>})
<1>1. Fails(id, ip.fn, ip.pc, t, HAt(ip) - n, KnownBelow(n))
  BY DEF Failing
<1>2. ASSUME \A j \in 1 .. Len(ArmedAt(ip)) : ArmedAt(ip)[j].typ \notin Ancestors[t]
      PROVE  Top.hbase = 0
  <2>1. ~ Under(id, ip.fn)
    BY <1>1, <1>2 DEF Fails, ArmedAt
  <2>2. FramesPlaced /\ ip.fn = Top.fn /\ Len(frames) \in 1 .. Len(frames)
    BY Here, LengthFacts
  <2>3. QED
    BY <2>1, <2>2 DEF FramesPlaced, Top
<1>3. \A j \in 1 .. Len(ArmedAt(ip)) :
         ArmedAt(ip)[j].typ \in Ancestors[t] /\ Newer(ArmedAt(ip), t, j) =>
            Goes(ArmedAt(ip)[j].pc, HAt(ip) - n + 1,
                 KnownBelow(n) \cup {<<HAt(ip) - n + 1, Exc(t)>>})
  BY <1>1 DEF Fails, ArmedAt, Goes
<1>4. QED
  BY <1>1, <1>2, <1>3 DEF Fails

(* The newest handler that catches an exception raised in tame code is one *)
(* that the frame on top has armed.                                        *)
LEMMA OwnHandler ==
    ASSUME Ready, NEW n, NEW t, Failing(t, n),
           NEW j \in 1 .. Len(handlers), handlers[j].typ \in Ancestors[t],
           \A k \in 1 .. Len(handlers) : handlers[k].typ \in Ancestors[t] => k <= j
    PROVE  \E j0 \in 1 .. Len(ArmedAt(ip)) :
              /\ j = Top.hbase + j0
              /\ ArmedAt(ip)[j0].typ \in Ancestors[t] /\ Newer(ArmedAt(ip), t, j0)
<1> DEFINE a == ArmedAt(ip)
<1>1. /\ a \in Seq(Armable) /\ ActiveAt(ip, stack) /\ Top.hbase \in Nat /\ Len(a) \in Nat
  BY Here, Frames
<1>2. Len(handlers) = Top.hbase + Len(a) /\ ArmedBy(Len(frames), a)
  BY <1>1 DEF ActiveAt
<1>3. \A k \in 1 .. Len(a) :
         Top.hbase + k \in 1 .. Len(handlers) /\ handlers[Top.hbase + k].typ = a[k].typ
  <2>1. ASSUME NEW k \in 1 .. Len(a) PROVE handlers[Top.hbase + k].typ = a[k].typ
    <3>1. handlers[Top.hbase + k] =
             [typ |-> a[k].typ, frame |-> [buf |-> buf, idx |-> Len(frames)],
              ip |-> [fn |-> Top.fn, pc |-> a[k].pc]]
      BY <1>2 DEF ArmedBy, Top
    <3>2. QED
      BY <3>1
  <2>2. PICK b \in Nat, m \in Nat : b = Top.hbase /\ m = Len(a)
    BY <1>1
  <2>3. \A k \in 1 .. m : b + k \in 1 .. b + m
    OBVIOUS
  <2>4. QED
    BY <1>2, <2>1, <2>2, <2>3
<1> HIDE DEF a
<1>4. PICK b \in Nat, m \in Nat : b = Top.hbase /\ m = Len(a) /\ Len(handlers) = b + m
  BY <1>1, <1>2
<1>5. j > b
  <2>1. SUFFICES ASSUME j <= b PROVE FALSE
    BY <1>4
  <2>2. \A k \in 1 .. m : ~ (b + k <= j)
    BY <2>1
  <2>3. \A k \in 1 .. Len(a) : a[k].typ \notin Ancestors[t]
    BY <1>3, <1>4, <2>2
  <2>4. b = 0
    BY <1>4, <2>3, FailingFacts DEF a
  <2>5. QED
    BY <2>1, <2>4
<1>6. PICK j0 \in 1 .. m : j = b + j0
  <2>1. j - b \in 1 .. m /\ j = b + (j - b)
    BY <1>4, <1>5
  <2>2. QED
    BY <2>1
<1>7. a[j0].typ \in Ancestors[t]
  BY <1>3, <1>4, <1>6
<1>8. ASSUME NEW k \in 1 .. m, a[k].typ \in Ancestors[t] PROVE k <= j0
  <2>1. b + k <= j
    BY <1>3, <1>4, <1>8
  <2>2. QED
    BY <1>6, <2>1
<1>9. Newer(a, t, j0)
  BY <1>4, <1>8 DEF Newer
<1>10. QED
  BY <1>4, <1>6, <1>7, <1>9 DEF a

LEMMA SoundThrows ==
    ASSUME Ready, NEW n \in 0 .. HAt(ip), NEW t, Throws(n, t), Failing(t, n)
    PROVE  Sound'
<1>1. TypeOK'
  BY Here, WithinTypes
<1>2. /\ UNCHANGED <<id, prog, status, frames, handlers>> /\ status = "run"
      /\ stack' = Popped(n) /\ ip' = NextIp /\ error' = t /\ t \in Types
      /\ GrowFrames \/ UNCHANGED <<cap, buf>>
  BY DEF Throws, Within, Running
<1>3. /\ cap' \in Nat /\ cap' >= cap /\ (buf' = buf \/ ~ Hot(id, ip.fn, ip.pc))
  BY <1>2, FailingFacts, Growth
<1>4. Undisturbed
  <2>1. \A k \in 1 .. Top.base : stack'[k] = stack[k]
    BY <1>2, LeftFacts
  <2>2. Top.hbase = 0 \/ buf' = buf
    BY <1>3, ColdFacts
  <2>3. QED
    BY <1>2, <1>3, <2>1, <2>2 DEF Undisturbed
<1>5. /\ NeverWild' /\ CleanAtHalt' /\ FramesNested' /\ FramesPlaced'
      /\ \A i \in 1 .. Len(frames') - 1 : Suspended(i)'
  BY <1>1, <1>2, <1>4, OthersKept
<1>6. error' # NoError
  BY <1>2, ConstAssumption DEF NoError
<1>7. ASSUME NEW j \in Matching', \A k \in Matching' : k <= j
      PROVE  /\ j > Top'.hbase /\ HAt(handlers[j].ip)' >= 1
             /\ ActiveAt(handlers[j].ip, Append(stack, Exc(error)))'
  <2>1. /\ j \in 1 .. Len(handlers) /\ handlers[j].typ \in Ancestors[t]
        /\ \A k \in 1 .. Len(handlers) : handlers[k].typ \in Ancestors[t] => k <= j
    BY <1>2, <1>7 DEF Matching, Catches
  <2>2. PICK j0 \in 1 .. Len(ArmedAt(ip)) :
           /\ j = Top.hbase + j0
           /\ ArmedAt(ip)[j0].typ \in Ancestors[t] /\ Newer(ArmedAt(ip), t, j0)
    BY <2>1, OwnHandler
  <2>3. PICK h \in Nat : h = HAt(ip) - n
    BY LeftFacts
  <2>4. PICK pc : pc = ArmedAt(ip)[j0].pc
    OBVIOUS
  <2>5. Goes(pc, h + 1, KnownBelow(n) \cup {<<h + 1, Exc(t)>>})
    BY <2>2, <2>3, <2>4, FailingFacts
  <2>6. PICK armed : armed = ArmedAt(ip)
    OBVIOUS
  <2>7. /\ pc \in Positions(Code[ip.fn]) /\ H(id, ip.fn, pc) = h + 1
        /\ Known(id, ip.fn, pc) \subseteq KnownBelow(n) \cup {<<h + 1, Exc(t)>>}
        /\ Armed(id, ip.fn, pc) = armed /\ Room(id, ip.fn, pc) <= cap
        /\ \A k \in 1 .. Len(armed) :
              handlers[Top.hbase + k] =
                 [typ |-> armed[k].typ, frame |-> CurFrame, ip |-> At(armed[k].pc)]
        /\ Len(handlers) = Top.hbase + Len(armed)
    BY <2>5, <2>6, GoesFacts
  <2>8. handlers[j].ip = At(pc)
    <3>1. j0 \in 1 .. Len(armed) /\ pc = armed[j0].pc
      BY <2>4, <2>6
    <3>2. handlers[Top.hbase + j0] =
             [typ |-> armed[j0].typ, frame |-> CurFrame, ip |-> At(armed[j0].pc)]
      BY <2>7, <3>1
    <3>3. handlers[Top.hbase + j0].ip = At(armed[j0].pc)
      BY <3>2
    <3>4. QED
      BY <2>2, <3>1, <3>3
  <2>9. /\ Top' = Top /\ Code' = Code /\ ip.fn = Top.fn /\ ip.fn \in Functions
        /\ Len(frames') = Len(frames) /\ id' = id /\ handlers'[j].ip.fn = ip.fn
        /\ handlers'[j].ip.pc = pc /\ cap \in Nat
    BY <1>2, <2>8, Here DEF At, Top, Code, TypeOK
  <2>10. Exc(t) \in Value
    BY <1>2, ValueFacts
  <2>11. /\ Len(Append(stack', Exc(t))) = Top.base + (h + 1)
         /\ Append(stack', Exc(t))[Top.base + (h + 1)] = Exc(t)
         /\ \A e \in KnownBelow(n) :
               e[1] \in 1 .. h /\ Append(stack', Exc(t))[Top.base + e[1]] = e[2]
    <3>1. \A e \in KnownBelow(n) : e[1] \in 1 .. h
      BY <2>3, LeftFacts
    <3>2. /\ Len(Append(Popped(n), Exc(t))) = Top.base + (HAt(ip) - n + 1)
          /\ Append(Popped(n), Exc(t))[Top.base + (HAt(ip) - n + 1)] = Exc(t)
          /\ \A e \in KnownBelow(n) : Append(Popped(n), Exc(t))[Top.base + e[1]] = e[2]
      BY <2>10, LeftFacts
    <3>3. QED
      BY <1>2, <2>3, <3>1, <3>2
  <2>12. \A e \in Known(id, ip.fn, pc) :
            /\ 1 <= e[1] /\ e[1] <= h + 1
            /\ Append(stack', Exc(t))[Top.base + e[1]] = e[2]
    <3> DEFINE s == Append(stack', Exc(t))
    <3>1. s[Top.base + (h + 1)] = Exc(t)
      BY <2>11
    <3>2. \A e \in KnownBelow(n) : e[1] \in 1 .. h /\ s[Top.base + e[1]] = e[2]
      BY <2>11
    <3> HIDE DEF s
    <3>3. ASSUME NEW e \in Known(id, ip.fn, pc)
          PROVE  1 <= e[1] /\ e[1] <= h + 1 /\ s[Top.base + e[1]] = e[2]
      <4>1. CASE e \in KnownBelow(n)
        BY <3>2, <4>1
      <4>2. CASE e = <<h + 1, Exc(t)>>
        <5>1. e[1] = h + 1 /\ e[2] = Exc(t)
          BY <4>2
        <5>2. QED
          BY <3>1, <5>1
      <4>3. QED
        BY <2>7, <4>1, <4>2
    <3>4. QED
      BY <3>3 DEF s
  <2>13. /\ HAt(handlers[j].ip)' = h + 1 /\ KnownAt(handlers[j].ip)' = Known(id, ip.fn, pc)
         /\ ArmedAt(handlers[j].ip)' = armed
         /\ RoomAt(handlers[j].ip)' = Room(id, ip.fn, pc)
    BY <2>7, <2>9 DEF HAt, KnownAt, ArmedAt, RoomAt
  <2>14. ArmedBy(Len(frames), armed)'
    <3>1. buf' = buf \/ armed = <<>>
      BY <1>3, <2>6, ColdFacts
    <3>2. CASE buf' = buf
      BY <1>2, <2>7, <2>9, <3>2 DEF ArmedBy, CurFrame, At, Top
    <3>3. CASE armed = <<>>
      BY <3>3 DEF ArmedBy
    <3>4. QED
      BY <3>1, <3>2, <3>3
  <2>15. Room(id, ip.fn, pc) <= cap'
    <3>1. Room(id, ip.fn, pc) \in Nat
      BY <2>7, <2>9, ShapeFacts, Here DEF Ready
    <3>2. QED
      BY <1>3, <2>7, <2>9, <3>1
  <2>16. ActiveAt(handlers[j].ip, Append(stack, Exc(error)))'
    <3> DEFINE s == Append(stack', Exc(t))
    <3>1. Append(stack, Exc(error))' = s
      BY <1>2 DEF Exc
    <3>2. /\ handlers'[j].ip.fn = Top'.fn
          /\ handlers'[j].ip.pc \in Positions(Code'[handlers'[j].ip.fn])
      BY <2>7, <2>9
    <3>3. HAt(handlers[j].ip)' >= 0 /\ Len(s) = Top'.base + HAt(handlers[j].ip)'
      BY <2>9, <2>11, <2>13
    <3>4. \A e \in KnownAt(handlers[j].ip)' :
             /\ 1 <= e[1] /\ e[1] <= HAt(handlers[j].ip)'
             /\ s[Top'.base + e[1]] = e[2]
      BY <2>9, <2>12, <2>13
    <3>5. /\ ArmedBy(Len(frames), ArmedAt(handlers[j].ip))'
          /\ Len(handlers') = Top'.hbase + Len(ArmedAt(handlers[j].ip)')
          /\ RoomAt(handlers[j].ip)' <= cap'
      BY <1>2, <2>7, <2>9, <2>13, <2>14, <2>15
    <3> HIDE DEF s
    <3>6. QED
      BY <3>1, <3>2, <3>3, <3>4, <3>5 DEF ActiveAt
  <2>17. j > Top.hbase
    <3>1. PICK b \in Nat : b = Top.hbase
      BY Here, Frames
    <3>2. QED
      BY <2>2, <3>1
  <2>18. QED
    BY <2>9, <2>13, <2>16, <2>17
<1>8. CaughtOnTop'
  BY <1>7 DEF CaughtOnTop
<1>9. QED
  BY <1>5, <1>6, <1>8 DEF Sound, Running, Pending
----------------------------------------------------------------------------
(* The instructions that stay in their frame.                              *)
LEMMA NeedsFacts ==
    ASSUME Ready, NEW n \in Nat, n <= Needs(Ins)
    PROVE  n \in 0 .. HAt(ip)
<1>1. Ins \in Instruction /\ HAt(ip) \in Nat /\ HAt(ip) >= Needs(Ins) /\ Needs(Ins) \in 0 .. Height
  BY AlwaysDefined, Operands, Here, Shaped
<1>2. Needs(Ins) \in Nat
  BY <1>1, Here
<1>3. QED
  BY <1>1, <1>2

LEMMA SoundInFrame ==
    ASSUME Ready,
           \/ Load \/ LoadAny \/ SetVal \/ Pop \/ Operator \/ NewIter \/ ForIter
           \/ Test \/ Jmp \/ JmpBack \/ Nop \/ AssertTrue \/ Raise
    PROVE  Sound'
<1>1. TypeOK /\ Defined /\ Ins \in Instruction /\ Ins.n \in Nat /\ HAt(ip) \in Nat
  BY Here, AlwaysDefined, Operands
<1>2. HAt(ip) - 0 = HAt(ip) /\ HAt(ip) + 1 = HAt(ip) - 0 + 1
  BY <1>1
<1>3. 0 \in 0 .. HAt(ip)
  BY <1>1
<1>4. CASE Load
  <2>1. CASE Ins.v.k = "undefined" /\ Throws(0, NameError)
    BY <1>3, <1>4, <2>1, LoadAct, Shaped, SoundThrows, <1>1
  <2>2. CASE Ins.v.k # "undefined" /\ Pushes(0, Ins.v, ip.pc + 1)
    <3>1. PICK kn2 : kn2 = KnownBelow(0) \cup {<<HAt(ip) + 1, Ins.v>>}
      OBVIOUS
    <3>2. Goes(ip.pc + 1, HAt(ip) + 1, kn2)
      BY <1>1, <1>4, <2>2, <3>1, LoadAct, Shaped
    <3>3. \A e \in kn2 : e \in KnownBelow(0) \/ (e[1] = HAt(ip) + 1 /\ e[2] = Ins.v)
      BY <3>1
    <3>4. QED
      BY <1>2, <1>3, <2>2, <3>2, <3>3, SoundPushes
  <2>3. QED
    BY <1>1, <1>4, <2>1, <2>2, LoadAct
<1>5. CASE LoadAny
  <2>1. PICK v \in Value : Pushes(0, v, ip.pc + 1)
    BY <1>1, <1>5, LoadAnyAct
  <2>2. Goes(ip.pc + 1, HAt(ip) + 1, KnownBelow(0))
    BY <1>1, <1>5, LoadAnyAct, Shaped
  <2>3. QED
    BY <1>2, <1>3, <2>1, <2>2, SoundPushes
<1>6. CASE SetVal \/ Nop \/ Jmp \/ JmpBack
  <2>1. PICK pc : Pops(0, pc) /\ Goes(pc, HAt(ip) - 0, KnownBelow(0))
    BY <1>1, <1>2, <1>6, PlainAct, Shaped
  <2>2. QED
    BY <1>3, <2>1, SoundPops
<1>7. CASE Pop
  <2>1. Ins.op = "POP" /\ Pops(1, ip.pc + 1)
    BY <1>1, <1>7, PopAct
  <2>2. 1 \in 0 .. HAt(ip)
    BY <2>1, NeedsFacts DEF Needs
  <2>3. QED
    BY <2>1, <2>2, Shaped, SoundPops
<1>8. CASE Operator
  <2>1. Ins.op = "OPERATOR"
    BY <1>1, <1>8, OperatorAct
  <2>2. 2 \in 0 .. HAt(ip)
    BY <2>1, NeedsFacts DEF Needs
  <2>3. CASE \E v \in Value : Pushes(2, v, ip.pc + 1)
    <3>1. HAt(ip) - 2 + 1 = HAt(ip) - 1
      BY <1>1
    <3>2. Goes(ip.pc + 1, HAt(ip) - 1, KnownBelow(2))
      BY <2>1, Shaped
    <3>3. QED
      BY <2>2, <2>3, <3>1, <3>2, SoundPushes
  <2>4. CASE ~ (Peek(0).k = "int" /\ Peek(1).k = "int") /\ Throws(2, TypeError)
    <3>1. ~ (SureOf(0, {"int"}) /\ SureOf(1, {"int"}))
      BY <2>4, SureFacts
    <3>2. Failing(TypeError, 2)
      BY <2>1, <3>1, Shaped
    <3>3. QED
      BY <2>2, <2>4, <3>2, SoundThrows
  <2>5. QED
    BY <1>1, <1>8, <2>3, <2>4, OperatorAct
<1>9. CASE NewIter
  <2> DEFINE v == [k |-> "iter", n |-> Ins.n]
  <2>1. Ins.op = "NEW_ITER" /\ Pushes(1, v, ip.pc + 1)
    <3>1. Ins.op = "NEW_ITER" /\ Pushes(1, IterOf(Peek(0), Ins.n), ip.pc + 1)
      BY <1>1, <1>9, NewIterAct
    <3>2. Peek(0).k = "seq"
      BY <3>1, Shaped, SureFacts
    <3>3. QED
      BY <3>1, <3>2 DEF IterOf
  <2>2. 1 \in 0 .. HAt(ip)
    BY <2>1, NeedsFacts DEF Needs
  <2>3. HAt(ip) - 1 + 1 = HAt(ip)
    BY <1>1
  <2>4. PICK kn2 : kn2 = KnownBelow(1) \cup {<<HAt(ip), v>>}
    OBVIOUS
  <2>5. Goes(ip.pc + 1, HAt(ip), kn2)
    BY <2>1, <2>4, Shaped
  <2>6. \A e \in kn2 : e \in KnownBelow(1) \/ (e[1] = HAt(ip) /\ e[2] = v)
    BY <2>4
  <2> HIDE DEF v
  <2>7. QED
    BY <2>1, <2>2, <2>3, <2>5, <2>6, SoundPushes
<1>10. CASE ForIter
  <2>1. Ins.op = "FORITER"
    BY <1>1, <1>10, ForIterAct
  <2>2. CASE \E v \in Value : Pushes(0, v, ip.pc + 1)
    <3>1. Goes(ip.pc + 1, HAt(ip) + 1, KnownBelow(0))
      BY <2>1, Shaped
    <3>2. QED
      BY <1>2, <1>3, <2>2, <3>1, SoundPushes
  <2>3. CASE Pops(0, ip.pc + 1 + Ins.n)
    <3>1. Goes(ip.pc + 1 + Ins.n, HAt(ip) - 0, KnownBelow(0))
      BY <1>2, <2>1, Shaped
    <3>2. QED
      BY <1>3, <2>3, <3>1, SoundPops
  <2>4. QED
    BY <1>1, <1>10, <2>2, <2>3, ForIterAct
<1>11. CASE Test
  <2>1. Ins.op = "TEST" /\ (Pops(1, ip.pc + 1) \/ Pops(1, ip.pc + 1 + Ins.n))
    BY <1>1, <1>11, TestAct
  <2>2. 1 \in 0 .. HAt(ip)
    BY <2>1, NeedsFacts DEF Needs
  <2>3. QED
    BY <2>1, <2>2, Shaped, SoundPops
<1>12. CASE AssertTrue
  <2>1. Ins.op = "ASSERT"
    BY <1>1, <1>12, AssertAct
  <2>2. Ins.n + 1 \in 0 .. HAt(ip)
    BY <1>1, <2>1, NeedsFacts DEF Needs
  <2>3. CASE Pops(Ins.n + 1, ip.pc + 1)
    <3>1. HAt(ip) - (Ins.n + 1) = HAt(ip) - Ins.n - 1
      BY <1>1
    <3>2. Goes(ip.pc + 1, HAt(ip) - (Ins.n + 1), KnownBelow(Ins.n + 1))
      BY <2>1, <3>1, Shaped
    <3>3. QED
      BY <2>2, <2>3, <3>2, SoundPops
  <2>4. CASE Throws(Ins.n + 1, AssertionError)
    BY <2>1, <2>2, <2>4, Shaped, SoundThrows
  <2>5. QED
    BY <1>1, <1>12, <2>3, <2>4, AssertAct
<1>13. CASE Raise
  <2>1. Ins.op = "RAISE"
    BY <1>1, <1>13, RaiseAct
  <2>2. Ins.n \in 0 .. HAt(ip)
    BY <1>1, <2>1, NeedsFacts DEF Needs
  <2>3. CASE Ins.n = 0 /\ Throws(0, RuntimeError)
    BY <1>3, <2>1, <2>3, Shaped, SoundThrows
  <2>4. CASE Ins.n # 0 /\ Peek(0) \in Value /\ Peek(0).k \in {"type", "exc"} /\ Throws(Ins.n, Peek(0).n)
    <3>1. Peek(0).n \in Types
      BY <2>4 DEF Value
    <3>2. Peek(0) = [k |-> "type", n |-> Peek(0).n] \/ Peek(0) = Exc(Peek(0).n)
      BY <2>4 DEF Value, Exc
    <3>3. MayBe(0, Peek(0))
      BY MayFacts
    <3>4. Failing(Peek(0).n, Ins.n)
      BY <2>1, <2>4, <3>1, <3>2, <3>3, Shaped
    <3>5. QED
      BY <2>2, <2>4, <3>4, SoundThrows
  <2>5. CASE Ins.n # 0 /\ Peek(0).k \notin {"type", "exc"} /\ Throws(Ins.n, RuntimeError)
    <3>1. ~ SureOf(0, {"type", "exc"})
      BY <2>5, SureFacts
    <3>2. Failing(RuntimeError, Ins.n)
      BY <2>1, <2>5, <3>1, Shaped
    <3>3. QED
      BY <2>2, <2>5, <3>2, SoundThrows
  <2>6. QED
    BY <1>1, <1>13, <2>3, <2>4, <2>5, RaiseAct
<1>14. QED
  BY <1>4, <1>5, <1>6, <1>7, <1>8, <1>9, <1>10, <1>11, <1>12, <1>13

(* Calls that leave no frame behind.                                       *)
LEMMA CalleeKnown ==
    ASSUME Ready, Ins.op = "CALL"
    PROVE  /\ Ins.n \in Nat /\ Ins.n + 1 \in 0 .. HAt(ip)
           /\ Callee = Peek(Ins.n) /\ MayBe(Ins.n, Callee)
           /\ Callee \in Value /\ Callee.n \in Nat
           /\ \A e \in KnownAt(ip) : e[1] = HAt(ip) - Ins.n => e[2] = Callee
<1>1. Ins.n \in Nat /\ Callee \in Value /\ Callee.n \in Nat
  BY AlwaysDefined, CalleeFacts, Here
<1>2. Ins.n + 1 \in 0 .. HAt(ip)
  BY <1>1, NeedsFacts DEF Needs
<1>3. Callee = Peek(Ins.n) /\ MayBe(Ins.n, Callee)
  BY <1>1, MayFacts DEF Callee
<1>4. QED
  BY <1>1, <1>2, <1>3 DEF MayBe

LEMMA SoundPlainCall ==
    ASSUME Ready, CallRefused \/ CallType \/ CallShow
    PROVE  Sound'
<1>1. Ins.op = "CALL" /\ TypeOK
  BY Here, CallRefusedAct, CallTypeAct, CallShowAct
<1>2. /\ Ins.n \in Nat /\ Ins.n + 1 \in 0 .. HAt(ip) /\ HAt(ip) \in Nat
      /\ \A e \in KnownAt(ip) : e[1] = HAt(ip) - Ins.n => e[2] = Callee
  BY <1>1, CalleeKnown, Here
<1>3. CASE CallRefused
  <2>1. Throws(0, TypeError) /\ (Callee.k \notin Callable \/ ~ ArityOK)
    BY <1>1, <1>3, CallRefusedAct
  <2>2. ~ \E e \in KnownAt(ip) :
             /\ e[1] = HAt(ip) - Ins.n /\ e[2].k \in Callable
             /\ e[2].k = "fn" => prog.arity[e[2].n] = Ins.n
    BY <1>2, <2>1 DEF ArityOK
  <2>3. Failing(TypeError, 0)
    BY <1>1, <2>2, ShapedCall
  <2>4. 0 \in 0 .. HAt(ip)
    BY <1>2
  <2>5. QED
    BY <2>1, <2>3, <2>4, SoundThrows
<1>4. ASSUME Callee.k # "fn",
             NEW v \in Value, Pushes(Ins.n + 1, v, ip.pc + 1),
             Callee.k = "type" => v = Exc(Callee.n)
      PROVE  Sound'
  <2>1. HAt(ip) - (Ins.n + 1) + 1 = HAt(ip) - Ins.n
    BY <1>2
  <2>2. ~ SureOf(Ins.n, {"fn"})
    BY <1>2, <1>4 DEF SureOf
  <2>3. Goes(ip.pc + 1, HAt(ip) - Ins.n, KnownBelow(Ins.n + 1) \cup MadeOf(Ins.n))
    BY <1>1, <2>2, ShapedCall DEF Goes
  <2>4. \A e \in MadeOf(Ins.n) : e[1] = HAt(ip) - Ins.n /\ e[2] = v
    <3>1. SUFFICES ASSUME NEW x \in KnownAt(ip), x[1] = HAt(ip) - Ins.n, x[2].k = "type"
                   PROVE  Exc(x[2].n) = v
      BY DEF MadeOf
    <3>2. x[2] = Callee
      BY <1>2, <3>1
    <3>3. QED
      BY <1>4, <3>1, <3>2
  <2>5. PICK kn2 : kn2 = KnownBelow(Ins.n + 1) \cup MadeOf(Ins.n)
    OBVIOUS
  <2>6. Goes(ip.pc + 1, HAt(ip) - Ins.n, kn2)
    BY <2>3, <2>5
  <2>7. \A e \in kn2 : e \in KnownBelow(Ins.n + 1) \/ (e[1] = HAt(ip) - Ins.n /\ e[2] = v)
    BY <2>4, <2>5
  <2>8. QED
    BY <1>2, <1>4, <2>1, <2>6, <2>7, SoundPushes
<1>5. CASE CallType
  <2>1. Callee.k = "type" /\ Pushes(Ins.n + 1, Exc(Callee.n), ip.pc + 1)
    BY <1>1, <1>5, CallTypeAct
  <2>2. Exc(Callee.n) \in Value
    BY <2>1 DEF Pushes
  <2>3. QED
    BY <1>4, <2>1, <2>2
<1>6. CASE CallShow
  <2>1. Callee.k = "print" /\ Pushes(Ins.n + 1, None, ip.pc + 1)
    BY <1>1, <1>6, CallShowAct
  <2>2. None \in Value
    BY <2>1 DEF Pushes
  <2>3. QED
    BY <1>4, <2>1, <2>2
<1>7. QED
  BY <1>3, <1>5, <1>6
----------------------------------------------------------------------------
(* Halting and giving up.                                                  *)
LEMMA SoundHalt == ASSUME Ready, Halt PROVE Sound'
<1>1. /\ TypeOK /\ FramesNested /\ FramesPlaced /\ ActiveAt(ip, stack) /\ ip.fn = Top.fn
      /\ Height = Top.base + HAt(ip) /\ stack \in Seq(Value)
      /\ Len(frames) \in 1 .. Len(frames)
  BY Here, LengthFacts DEF TypeOK
<1>2. /\ Ins.op = "HALT" /\ status' = "halt"
      /\ UNCHANGED <<id, prog, trace, frames, cap, buf, error, stack, handlers>>
  BY <1>1, HaltAct
<1>3. ip.fn = Main /\ HAt(ip) = 0 /\ ArmedAt(ip) = <<>>
  BY <1>2, ShapedFrames
<1>4. Len(frames) = 1
  BY <1>1, <1>3, Frames
<1>5. Top.base = 0 /\ Top.hbase = 0
  BY <1>1, <1>4 DEF FramesNested, Top
<1>6. Height = 0 /\ Len(handlers) = 0
  BY <1>1, <1>3, <1>5 DEF ActiveAt
<1>7. stack = <<>> /\ handlers = <<>>
  BY <1>1, <1>6 DEF Height, TypeOK
<1>8. CleanAtHalt' /\ NeverWild'
  BY <1>2, <1>4, <1>7 DEF CleanAtHalt, NeverWild
<1>9. FramesNested' /\ FramesPlaced'
  BY <1>1, <1>2 DEF FramesNested, FramesPlaced
<1>10. QED
  BY <1>2, <1>8, <1>9 DEF Sound, Running, Pending

LEMMA SoundStops ==
    ASSUME TypeOK, id \in Tame, Sound, status' \in {"traceback", "cut"},
           UNCHANGED <<id, prog, ip, stack, frames, cap, buf, handlers, error, trace>>
    PROVE  Sound'
<1>1. NeverWild' /\ CleanAtHalt'
  BY DEF NeverWild, CleanAtHalt
<1>2. FramesNested' /\ FramesPlaced'
  BY DEF Sound, FramesNested, FramesPlaced
<1>3. QED
  BY <1>1, <1>2 DEF Sound, Running, Pending

LEMMA SoundStays == ASSUME Sound, UNCHANGED vars PROVE Sound'
<1>1. UNCHANGED <<id, prog, status, ip, stack, frames, cap, buf, handlers, error>>
  BY DEF vars
<1>2. NeverWild' /\ CleanAtHalt' /\ FramesNested' /\ FramesPlaced'
  BY <1>1 DEF Sound, NeverWild, CleanAtHalt, FramesNested, FramesPlaced
<1>3. status' = "run" => \A i \in 1 .. Len(frames') - 1 : Suspended(i)'
  BY <1>1 DEF Sound, Suspended, ArmedBy, HAt, KnownAt, ArmedAt, RoomAt, Code
<1>4. Running' => ActiveAt(ip, stack)'
  BY <1>1 DEF Sound, Running, ActiveAt, ArmedBy, HAt, KnownAt, ArmedAt, RoomAt, Code, Top
<1>5. Pending' => CaughtOnTop'
  <2>1. Matching' = Matching /\ Top' = Top /\ (Pending' => Pending)
    BY <1>1 DEF Matching, Catches, Top, Pending
  <2>2. ASSUME NEW j
        PROVE  /\ HAt(handlers[j].ip)' = HAt(handlers[j].ip)
               /\ ActiveAt(handlers[j].ip, Append(stack, Exc(error)))
                     => ActiveAt(handlers[j].ip, Append(stack, Exc(error)))'
    BY <1>1 DEF ActiveAt, ArmedBy, HAt, KnownAt, ArmedAt, RoomAt, Code, Top
  <2>3. QED
    BY <1>1, <2>1, <2>2 DEF Sound, CaughtOnTop
<1>6. QED
  BY <1>2, <1>3, <1>4, <1>5 DEF Sound
----------------------------------------------------------------------------
(* A function called gives its caller what the caller counts on, and       *)
(* starts where its own shape says.                                        *)
LEMMA MayCallFacts ==
    ASSUME Ready, Ins.op = "CALL", Callee.k = "fn", ArityOK
    PROVE  /\ Callee.n \in Functions \ {Main} /\ MayCall(id, ip.fn, ip.pc, Callee.n)
           /\ MadeOf(Ins.n) = {}
<1>1. /\ Callee \in Value /\ MayBe(Ins.n, Callee)
      /\ \A e \in KnownAt(ip) : e[1] = HAt(ip) - Ins.n => e[2] = Callee
  BY CalleeKnown
<1>2. Callee.n \in Functions \ {Main} /\ Callee = [k |-> "fn", n |-> Callee.n]
  BY <1>1 DEF Value
<1>3. prog.arity[Callee.n] = Ins.n
  BY DEF ArityOK
<1>4. MayCall(id, ip.fn, ip.pc, Callee.n)
  BY <1>1, <1>2, <1>3, ShapedCall
<1>5. MadeOf(Ins.n) = {}
  BY <1>1 DEF MadeOf
<1>6. QED
  BY <1>2, <1>4, <1>5

LEMMA LeqTransitive ==
    ASSUME NEW a \in Nat, NEW b \in Nat, NEW c \in Nat, a <= b, b <= c PROVE a <= c
OBVIOUS

LEMMA SoundCall == ASSUME Ready, CallFunction PROVE Sound'
<1>1. /\ TypeOK /\ FramesNested /\ FramesPlaced /\ ActiveAt(ip, stack) /\ ip.fn = Top.fn
      /\ ip.fn \in Functions /\ id \in Tame /\ status = "run" /\ error = NoError
      /\ Code = Program[id].code
  BY Here DEF Ready, Running, TypeOK, Code
<1>2. /\ HAt(ip) \in Nat /\ RoomAt(ip) \in Nat /\ RoomAt(ip) <= cap /\ Height \in Nat
      /\ Height = Top.base + HAt(ip) /\ Top.base \in Nat /\ Top.hbase \in Nat
      /\ Len(frames) \in Nat \ {0} /\ cap \in Nat /\ ArmedAt(ip) \in Seq(Armable)
      /\ Len(handlers) \in Nat /\ Len(frames) <= cap
  BY <1>1, Here, Frames, LengthFacts DEF TypeOK, FramesPlaced
<1> PICK L \in Nat \ {0} : L = Len(frames)
  BY <1>2
<1> PICK g, pc2, sv, new :
          /\ g = Callee.n /\ pc2 = ip.pc + 1 /\ sv = NextIp
          /\ new = [fn |-> g, saved |-> sv,
                    base |-> Height - (Ins.n + 1), hbase |-> Len(handlers)]
  OBVIOUS
<1>3. /\ Ins.op = "CALL" /\ Callee.k = "fn" /\ ArityOK /\ GrowFrames
      /\ UNCHANGED <<id, prog, status, trace, handlers, error>>
      /\ stack' = Popped(Ins.n + 1) /\ ip' = [fn |-> g, pc |-> 0]
      /\ Len(frames') = L + 1
      /\ \A i \in 1 .. L - 1 : frames'[i] = frames[i]
      /\ frames'[L] = [Top EXCEPT !.saved = sv]
      /\ frames'[L + 1] = new
  BY <1>1, CallFunctionAct
<1>4. g \in Functions \ {Main} /\ MayCall(id, ip.fn, ip.pc, g) /\ MadeOf(Ins.n) = {}
  BY <1>3, MayCallFacts
<1>5. Ins.n \in Nat /\ Ins.n + 1 \in 0 .. HAt(ip)
  BY <1>3, CalleeKnown
<1>6. /\ Flows(id, ip.fn, pc2, HAt(ip) - Ins.n, KnownBelow(Ins.n + 1))
      /\ Armed(id, ip.fn, pc2) = ArmedAt(ip)
  BY <1>3, <1>4, ShapedCall
<1>7. /\ cap' \in Nat /\ cap' >= cap /\ L + 1 <= cap'
      /\ buf' = buf \/ ~ Hot(id, ip.fn, ip.pc)
  <2>1. Hot(id, ip.fn, ip.pc) => Roomy(id, ip.fn, ip.pc)
    BY <1>4 DEF MayCall
  <2>2. QED
    BY <1>3, <2>1, Growth
<1>8. /\ Len(stack') = new.base /\ \A k \in 1 .. new.base : stack'[k] = stack[k]
      /\ new.base \in Nat /\ new.base = Top.base + (HAt(ip) - (Ins.n + 1))
      /\ Top.base <= new.base /\ Top.hbase <= new.hbase /\ new.hbase = Len(handlers)
      /\ new.hbase \in Nat /\ new.fn = g
  <2>1. Ins.n + 1 \in 0 .. Height
    BY <1>5, LeftFacts
  <2>2. Len(stack') = Height - (Ins.n + 1) /\ \A k \in 1 .. Height - (Ins.n + 1) : stack'[k] = stack[k]
    <3>1. PICK m \in 0 .. Height : m = Ins.n + 1
      BY <2>1
    <3>2. stack \in Seq(Value) /\ stack' = Popped(m)
      BY <1>1, <1>3, <3>1 DEF TypeOK
    <3>3. Len(stack') = Height - m /\ \A k \in 1 .. Height - m : stack'[k] = stack[k]
      BY <3>2, PoppedFacts
    <3>4. QED
      BY <3>1, <3>3
  <2>3. PICK n \in Nat, h \in Nat, b \in Nat : n = Ins.n + 1 /\ h = HAt(ip) /\ b = Top.base
    BY <1>2, <1>5
  <2>4. Height = b + h /\ n <= h
    BY <1>2, <1>5, <2>3
  <2>5. /\ (b + h) - n \in Nat /\ b <= (b + h) - n /\ (b + h) - n = b + (h - n)
    BY <2>4
  <2>6. Len(handlers) = Top.hbase + Len(ArmedAt(ip))
    BY <1>1 DEF ActiveAt
  <2>7. Top.hbase <= Len(handlers)
    BY <1>2, <2>6
  <2>8. QED
    BY <1>2, <2>2, <2>3, <2>4, <2>5, <2>7
<1>9. Undisturbed
  <2>1. \A k \in 1 .. Top.base : stack'[k] = stack[k]
    <3>1. \A k \in 1 .. Top.base : k \in 1 .. new.base
      BY <1>2, <1>8
    <3>2. QED
      BY <1>8, <3>1
  <2>2. Top.hbase = 0 \/ buf' = buf
    BY <1>7, ColdFacts
  <2>3. QED
    BY <1>3, <1>7, <2>1, <2>2 DEF Undisturbed
<1>10. \A i \in 1 .. L : /\ frames'[i].fn = frames[i].fn /\ frames'[i].base = frames[i].base
                         /\ frames'[i].hbase = frames[i].hbase
  <2>1. /\ frames'[L].fn = frames[L].fn /\ frames'[L].base = frames[L].base
        /\ frames'[L].hbase = frames[L].hbase
    <3>1. frames[L] \in Frame
      BY <1>1, <1>2, FrameShape
    <3>2. QED
      BY <1>3, <3>1 DEF Top, Frame
  <2>2. ASSUME NEW i \in 1 .. L
        PROVE  /\ frames'[i].fn = frames[i].fn /\ frames'[i].base = frames[i].base
               /\ frames'[i].hbase = frames[i].hbase
    <3>1. CASE i = L
      BY <2>1, <3>1
    <3>2. CASE i \in 1 .. L - 1
      BY <1>3, <3>2
    <3>3. QED
      BY <3>1, <3>2
  <2>3. QED
    BY <2>2
<1>11. frames'[L].saved = sv /\ frames'[L].fn = ip.fn
  <2>1. frames[L] \in Frame
    BY <1>1, <1>2, FrameShape
  <2>2. QED
    BY <1>1, <1>3, <2>1 DEF Top, Frame
<1>12. FramesNested'
  <2>1. frames'[1].base = 0 /\ frames'[1].hbase = 0
    BY <1>1, <1>2, <1>10 DEF FramesNested
  <2>2. ASSUME NEW i \in 1 .. L + 1 PROVE (frames'[i].fn = Main) <=> (i = 1)
    <3>1. CASE i \in 1 .. L
      BY <1>1, <1>10, <3>1 DEF FramesNested
    <3>2. CASE i = L + 1
      BY <1>2, <1>3, <1>4, <1>8, <3>2
    <3>3. QED
      BY <1>2, <3>1, <3>2
  <2>3. ASSUME NEW i \in 1 .. L + 1, NEW j \in 1 .. L + 1, i <= j
        PROVE  /\ 0 <= frames'[i].base /\ frames'[i].base <= frames'[j].base
               /\ frames'[i].hbase <= frames'[j].hbase
    <3>1. CASE j \in 1 .. L
      <4>1. i \in 1 .. L
        BY <2>3, <3>1
      <4>2. QED
        BY <1>1, <1>10, <2>3, <3>1, <4>1 DEF FramesNested
    <3>2. CASE j = L + 1 /\ i \in 1 .. L
      <4>1. frames[i].base \in 0 .. Top.base /\ frames[i].hbase \in 0 .. Top.hbase
        BY <1>1, <3>2, Frames
      <4>2. frames'[j] = new /\ frames'[i].base = frames[i].base /\ frames'[i].hbase = frames[i].hbase
        BY <1>3, <1>10, <3>2
      <4>3. 0 <= frames[i].base /\ frames[i].base <= Top.base /\ frames[i].hbase <= Top.hbase
            /\ frames[i].base \in Nat /\ frames[i].hbase \in Nat
        BY <1>2, <4>1
      <4>4. Top.base <= new.base /\ Top.hbase <= new.hbase /\ new.base \in Nat /\ new.hbase \in Nat
        BY <1>8
      <4>5. frames[i].base <= new.base /\ frames[i].hbase <= new.hbase
        <5>1. frames[i].base <= new.base
          BY <1>2, <4>3, <4>4, LeqTransitive, Zenon
        <5>2. frames[i].hbase <= new.hbase
          BY <1>2, <4>3, <4>4, LeqTransitive, Zenon
        <5>3. QED
          BY <5>1, <5>2
      <4>7. QED
        BY <4>2, <4>3, <4>5
    <3>3. CASE j = L + 1 /\ i = L + 1
      BY <1>3, <1>8, <3>3
    <3>4. QED
      BY <1>2, <3>1, <3>2, <3>3
  <2>4. QED
    BY <1>3, <2>1, <2>2, <2>3 DEF FramesNested
<1>13. FramesPlaced'
  <2>1. ASSUME NEW i \in 1 .. L + 1
        PROVE  /\ Depth(id, frames'[i].fn) # 0 => i = Depth(id, frames'[i].fn)
               /\ ~ Under(id, frames'[i].fn) => frames'[i].hbase = 0
    <3>1. CASE i \in 1 .. L
      BY <1>1, <1>10, <3>1 DEF FramesPlaced
    <3>2. CASE i = L + 1
      <4>1. frames'[i].fn = g /\ frames'[i].hbase = Len(handlers)
        BY <1>3, <1>8, <3>2
      <4>2. Depth(id, g) # 0 => i = Depth(id, g)
        <5>1. Depth(id, g) # 0 =>
                 Depth(id, ip.fn) # 0 /\ Depth(id, g) = Depth(id, ip.fn) + 1
          BY <1>4 DEF MayCall
        <5>2. Depth(id, ip.fn) # 0 => L = Depth(id, ip.fn)
          <6>1. L \in 1 .. Len(frames) /\ frames[L].fn = ip.fn
            BY <1>1 DEF Top
          <6>2. QED
            BY <1>1, <6>1 DEF FramesPlaced
        <5>3. QED
          BY <3>2, <5>1, <5>2
      <4>3. ~ Under(id, g) => Len(handlers) = 0
        BY <1>4, ColdFacts DEF MayCall
      <4>4. QED
        BY <4>1, <4>2, <4>3
    <3>3. QED
      BY <1>2, <3>1, <3>2
  <2>2. QED
    BY <1>3, <1>7, <2>1 DEF FramesPlaced
<1>14. ASSUME NEW i \in 1 .. L - 1 PROVE Suspended(i)'
  <2>1. Suspended(i)
    BY <1>1 DEF Ready, Sound
  <2>2. i \in 1 .. L /\ i + 1 \in 1 .. L
    BY <1>2
  <2>3. QED
    BY <1>1, <1>3, <1>9, <1>10, <2>1, <2>2, SuspendedKept
<1>15. /\ Code' = Code /\ pc2 \in Positions(Code[ip.fn]) /\ sv.fn = ip.fn /\ sv.pc = pc2
       /\ id' = id
  BY <1>1, <1>3, <1>6 DEF Flows, Code, NextIp, At
<1>16. Suspended(L)'
  <2> PICK n \in Nat, h \in Nat :
         n = Ins.n + 1 /\ h = HAt(ip) - n /\ HAt(ip) - Ins.n = h + 1
    <3>1. PICK i \in Nat, t \in Nat : i = Ins.n /\ t = HAt(ip) /\ i + 1 <= t
      BY <1>2, <1>5
    <3>2. i + 1 \in Nat /\ t - (i + 1) \in Nat /\ t - i = (t - (i + 1)) + 1
      BY <3>1
    <3>3. QED
      BY <3>1, <3>2
  <2>1. PICK armed, room, known, f :
           /\ armed = ArmedAt(ip) /\ room = Room(id, ip.fn, pc2) /\ known = Known(id, ip.fn, pc2)
           /\ f = ip.fn
    OBVIOUS
  <2>2. H(id, f, pc2) = h + 1 /\ known \subseteq KnownBelow(n)
    BY <1>6, <2>1 DEF Flows
  <2>3. /\ HAt(frames[L].saved)' = h + 1 /\ KnownAt(frames[L].saved)' = known
        /\ ArmedAt(frames[L].saved)' = armed /\ RoomAt(frames[L].saved)' = room
    BY <1>6, <1>11, <1>15, <2>1, <2>2 DEF HAt, KnownAt, ArmedAt, RoomAt
  <2>4. /\ frames'[L].base = Top.base /\ frames'[L].hbase = Top.hbase
        /\ frames'[L + 1].base = Top.base + (h + 1) - 1
        /\ frames'[L + 1].hbase = Top.hbase + Len(armed) /\ frames'[L + 1].fn = g
    <3>1. frames'[L].base = Top.base /\ frames'[L].hbase = Top.hbase
      BY <1>10 DEF Top
    <3>2. Top.base + h = Top.base + (h + 1) - 1
      BY <1>2
    <3>3. Len(handlers) = Top.hbase + Len(armed)
      BY <1>1, <2>1 DEF ActiveAt
    <3>4. QED
      BY <1>3, <1>8, <2>1, <3>1, <3>2, <3>3
  <2>5. ASSUME NEW e \in known
        PROVE  1 <= e[1] /\ e[1] < h + 1 /\ stack'[frames'[L].base + e[1]] = e[2]
    <3>1. e \in KnownBelow(n) /\ n \in 0 .. HAt(ip)
      BY <1>5, <2>1, <2>2
    <3>2. e[1] \in 1 .. h /\ Popped(n)[Top.base + e[1]] = e[2]
      BY <2>1, <3>1, LeftFacts
    <3>3. QED
      BY <1>3, <2>1, <2>4, <3>2
  <2>6. ArmedBy(L, armed)'
    <3>1. buf' = buf \/ armed = <<>>
      BY <1>7, <2>1, ColdFacts
    <3>2. CASE buf' = buf
      <4>1. ArmedBy(L, armed)
        BY <1>1, <2>1 DEF ActiveAt
      <4>2. /\ frames'[L].hbase = frames[L].hbase /\ frames'[L].fn = frames[L].fn
            /\ handlers' = handlers
        <5>1. L \in 1 .. L
          OBVIOUS
        <5>2. QED
          BY <1>3, <1>10, <5>1
      <4>3. QED
        BY <3>2, <4>1, <4>2 DEF ArmedBy
    <3>3. CASE armed = <<>>
      BY <3>3 DEF ArmedBy
    <3>4. QED
      BY <3>1, <3>2, <3>3
  <2>7. room <= cap' \/ room <= Leave(id, g)
    <3>1. room \in Nat
      BY <1>1, <1>15, <2>1, ShapeFacts
    <3>2. room <= RoomAt(ip) \/ room <= Leave(id, g)
      <4>1. room > RoomAt(ip) => room <= Leave(id, g)
        BY <1>4, <2>1 DEF MayCall, RoomAt
      <4>2. QED
        BY <1>2, <3>1, <4>1
    <3>3. QED
      BY <1>2, <1>7, <3>1, <3>2
  <2>8. frames'[L].saved.fn = frames'[L].fn /\ frames'[L].saved.pc \in Positions(Code'[frames'[L].saved.fn])
    BY <1>11, <1>15
  <2>9. QED
    BY <1>15, <2>3, <2>4, <2>5, <2>6, <2>7, <2>8 DEF Suspended
<1>17. \A i \in 1 .. Len(frames') - 1 : Suspended(i)'
  <2>1. \A i \in 1 .. Len(frames') - 1 : i \in 1 .. L - 1 \/ i = L
    BY <1>3
  <2>2. QED
    BY <1>14, <1>16, <2>1
<1>18. ActiveAt(ip, stack)'
  <2>1. /\ 0 \in Positions(Code[g]) /\ H(id, g, 0) = 0 /\ Known(id, g, 0) = {}
        /\ Armed(id, g, 0) = <<>> /\ Room(id, g, 0) \in Nat
    <3>1. H(id, g, 0) = 0
      BY <1>4 DEF MayCall
    <3>2. QED
      BY <1>1, <1>4, <3>1, ShapeFacts
  <2>2. Top' = new /\ ip'.fn = g /\ ip'.pc = 0 /\ new.fn = g
    BY <1>3, <1>8 DEF Top
  <2>3. /\ HAt(ip)' = 0 /\ KnownAt(ip)' = {} /\ ArmedAt(ip)' = <<>>
        /\ RoomAt(ip)' = Room(id, g, 0)
    BY <1>15, <2>1, <2>2 DEF HAt, KnownAt, ArmedAt, RoomAt
  <2>4. Room(id, g, 0) <= cap'
    <3>1. Room(id, g, 0) > RoomAt(ip) =>
             Depth(id, ip.fn) # 0 /\ Room(id, g, 0) <= Depth(id, ip.fn) + 1
      BY <1>4 DEF MayCall, RoomAt
    <3>2. Depth(id, ip.fn) # 0 => L = Depth(id, ip.fn)
      <4>1. L \in 1 .. Len(frames) /\ frames[L].fn = ip.fn
        BY <1>1 DEF Top
      <4>2. QED
        BY <1>1, <4>1 DEF FramesPlaced
    <3>3. QED
      BY <1>2, <1>7, <2>1, <3>1, <3>2
  <2>5. ArmedBy(Len(frames), ArmedAt(ip))'
    BY <2>3 DEF ArmedBy
  <2>6. Len(stack') = Top'.base + HAt(ip)' /\ Len(handlers') = Top'.hbase + Len(ArmedAt(ip)')
    BY <1>3, <1>8, <2>2, <2>3
  <2>7. QED
    BY <1>15, <2>1, <2>2, <2>3, <2>4, <2>5, <2>6 DEF ActiveAt
<1>19. NeverWild' /\ CleanAtHalt' /\ Running'
  BY <1>1, <1>3 DEF NeverWild, CleanAtHalt, Running
<1>20. QED
  BY <1>12, <1>13, <1>17, <1>18, <1>19 DEF Sound, Running, Pending
----------------------------------------------------------------------------
(* A function that returns leaves one value on top of what its caller had. *)
LEMMA RetStack ==
    ASSUME Ready, Ret
    PROVE  /\ Len(stack') = Top.base + 1 /\ \A k \in 1 .. Top.base : stack'[k] = stack[k]
           /\ Len(handlers) = Top.hbase
<1>1. /\ TypeOK /\ Height = Top.base + HAt(ip) /\ Top.base \in Nat /\ Top.hbase \in Nat
      /\ stack \in Seq(Value) /\ ActiveAt(ip, stack)
  BY Here, Frames DEF TypeOK
<1>2. Ins.op = "RET" /\ stack' = IF Ins.n = 0 THEN Append(stack, None) ELSE stack
  BY <1>1, RetAct
<1>3. Ins.n \in {0, 1} /\ HAt(ip) = Ins.n /\ ArmedAt(ip) = <<>>
  BY <1>2, ShapedFrames
<1>4. Len(handlers) = Top.hbase
  BY <1>1, <1>3 DEF ActiveAt
<1>5. CASE Ins.n = 0
  <2>1. Len(stack) = Top.base /\ stack' = Append(stack, None)
    BY <1>1, <1>2, <1>3, <1>5 DEF Height
  <2>2. QED
    BY <1>1, <1>4, <2>1
<1>6. CASE Ins.n = 1
  <2>1. Len(stack) = Top.base + 1 /\ stack' = stack
    BY <1>1, <1>2, <1>3, <1>6 DEF Height
  <2>2. QED
    BY <1>1, <1>4, <2>1
<1>7. QED
  BY <1>3, <1>5, <1>6

LEMMA SoundRet == ASSUME Ready, Ret PROVE Sound'
<1>1. /\ TypeOK /\ FramesNested /\ FramesPlaced /\ ActiveAt(ip, stack) /\ ip.fn = Top.fn
      /\ id \in Tame /\ status = "run" /\ error = NoError
      /\ RoomAt(ip) \in Nat /\ RoomAt(ip) <= cap /\ cap \in Nat
      /\ Top.base \in Nat /\ Top.hbase \in Nat
  BY Here, Frames DEF Ready, Running, TypeOK
<1>2. /\ Ins.op = "RET" /\ Len(frames) > 1
      /\ UNCHANGED <<id, prog, status, trace, cap, buf, handlers, error>>
      /\ Len(frames') = Len(frames) - 1
      /\ \A i \in 1 .. Len(frames) - 1 : frames'[i] = frames[i]
      /\ ip' = frames[Len(frames) - 1].saved
  BY <1>1, RetAct
<1>3. /\ Len(stack') = Top.base + 1 /\ \A k \in 1 .. Top.base : stack'[k] = stack[k]
      /\ Len(handlers) = Top.hbase
  BY RetStack
<1>4. PICK L \in Nat : L = Len(frames) - 1 /\ L + 1 = Len(frames) /\ L >= 1
  BY <1>1, <1>2, LengthFacts
<1>5. /\ Len(frames') = L /\ \A i \in 1 .. L : frames'[i] = frames[i]
      /\ ip' = frames[L].saved /\ Top = frames[L + 1] /\ Top' = frames[L]
      /\ L \in 1 .. L /\ L \in 1 .. Len(frames) - 1 /\ L \in 1 .. Len(frames)
  BY <1>2, <1>4 DEF Top
<1>6. Suspended(L)
  BY <1>1, <1>5 DEF Ready, Sound
<1>7. Undisturbed
  BY <1>1, <1>2, <1>3 DEF Undisturbed
<1>8. FramesNested'
  <2>1. \A i \in 1 .. L : i \in 1 .. Len(frames) /\ frames'[i] = frames[i]
    BY <1>4, <1>5
  <2>2. 1 \in 1 .. L
    BY <1>4
  <2>3. \A i \in 1 .. L : (frames'[i].fn = Main) <=> (i = 1)
    BY <1>1, <2>1 DEF FramesNested
  <2>4. \A i, j \in 1 .. L :
           i <= j => /\ 0 <= frames'[i].base /\ frames'[i].base <= frames'[j].base
                     /\ frames'[i].hbase <= frames'[j].hbase
    BY <1>1, <2>1 DEF FramesNested
  <2>5. frames'[1].base = 0 /\ frames'[1].hbase = 0
    BY <1>1, <2>1, <2>2 DEF FramesNested
  <2>6. QED
    BY <1>5, <2>3, <2>4, <2>5 DEF FramesNested
<1>9. FramesPlaced'
  <2>1. L <= cap
    BY <1>1, <1>4 DEF FramesPlaced
  <2>2. \A i \in 1 .. L : i \in 1 .. Len(frames) /\ frames'[i] = frames[i]
    BY <1>4, <1>5
  <2>3. \A i \in 1 .. L :
           /\ Depth(id, frames'[i].fn) # 0 => i = Depth(id, frames'[i].fn)
           /\ ~ Under(id, frames'[i].fn) => frames'[i].hbase = 0
    BY <1>1, <2>2 DEF FramesPlaced
  <2>4. QED
    BY <1>2, <1>5, <2>1, <2>3 DEF FramesPlaced
<1>10. ASSUME NEW i \in 1 .. L - 1 PROVE Suspended(i)'
  <2>1. i \in 1 .. Len(frames) - 1 /\ i \in 1 .. L /\ i + 1 \in 1 .. L
    BY <1>4
  <2>2. Suspended(i)
    BY <1>1, <2>1 DEF Ready, Sound
  <2>3. frames'[i] = frames[i] /\ frames'[i + 1] = frames[i + 1]
    BY <1>5, <2>1
  <2>4. QED
    BY <1>1, <1>7, <2>1, <2>2, <2>3, SuspendedKept
<1>11. ActiveAt(ip, stack)'
  <2>1. PICK a, b, hb, h, kn, armed, room :
           /\ a = frames[L].saved /\ b = frames[L].base /\ hb = frames[L].hbase
           /\ h = HAt(frames[L].saved) /\ kn = KnownAt(frames[L].saved)
           /\ armed = ArmedAt(frames[L].saved) /\ room = RoomAt(frames[L].saved)
    OBVIOUS
  <2>2. /\ h \in Nat \ {0} /\ kn \subseteq Nat \X Value /\ armed \in Seq(Armable) /\ room \in Nat
        /\ b \in Int /\ hb \in Nat
    BY <1>1, <1>5, <1>6, <2>1, SuspendedFacts
  <2>3. /\ a.fn = frames[L].fn /\ a.pc \in Positions(Code[a.fn])
        /\ Top.base = b + h - 1 /\ Top.hbase = hb + Len(armed)
        /\ \A e \in kn : 1 <= e[1] /\ e[1] < h /\ stack[b + e[1]] = e[2]
        /\ ArmedBy(L, armed)
        /\ room <= cap \/ room <= Leave(id, Top.fn)
    BY <1>5, <1>6, <2>1 DEF Suspended
  <2>4. b \in Nat
    BY <1>1, <1>5, <2>1, Frames
  <2>5. ASSUME NEW e \in kn PROVE 1 <= e[1] /\ e[1] <= h /\ stack'[b + e[1]] = e[2]
    <3>1. PICK x \in Nat : x = e[1]
      BY <2>2
    <3>2. 1 <= x /\ x < h /\ stack[b + x] = e[2]
      BY <2>3, <3>1
    <3>3. PICK t \in Nat : t = Top.base
      BY <1>1
    <3>4. b + x \in 1 .. t
      BY <2>2, <2>3, <2>4, <3>2, <3>3
    <3>5. stack'[b + x] = e[2]
      BY <1>3, <3>2, <3>3, <3>4
    <3>6. x <= h
      BY <2>2, <3>2
    <3>7. QED
      BY <3>1, <3>2, <3>5, <3>6
  <2>6. room <= cap
    <3>1. Leave(id, ip.fn) <= RoomAt(ip) /\ Leave(id, ip.fn) \in Nat
      BY <1>1, <1>2, Here, ShapedFrames, ShapeFacts
    <3>2. QED
      BY <1>1, <2>2, <2>3, <3>1
  <2>7. ArmedBy(L, armed)'
    BY <1>2, <1>5, <2>3 DEF ArmedBy
  <2>8. /\ HAt(ip)' = h /\ KnownAt(ip)' = kn /\ ArmedAt(ip)' = armed /\ RoomAt(ip)' = room
        /\ Code' = Code
    BY <1>2, <1>5, <2>1 DEF HAt, KnownAt, ArmedAt, RoomAt, Code
  <2>9. Len(stack') = b + h
    BY <1>3, <2>2, <2>3, <2>4
  <2>10. Top'.base = b /\ Top'.hbase = hb /\ Top'.fn = a.fn /\ ip' = a
    BY <1>5, <2>1, <2>3
  <2>11. Len(handlers') = hb + Len(armed)
    BY <1>2, <1>3, <2>3
  <2>12. ArmedBy(Len(frames), ArmedAt(ip))'
    BY <1>5, <2>7, <2>8
  <2>13. QED
    BY <1>2, <2>2, <2>3, <2>5, <2>6, <2>8, <2>9, <2>10, <2>11, <2>12 DEF ActiveAt
<1>12. NeverWild' /\ CleanAtHalt' /\ Running'
  BY <1>1, <1>2 DEF NeverWild, CleanAtHalt, Running
<1>13. \A i \in 1 .. Len(frames') - 1 : Suspended(i)'
  BY <1>5, <1>10
<1>14. QED
  BY <1>8, <1>9, <1>11, <1>12, <1>13 DEF Sound, Running, Pending
----------------------------------------------------------------------------
(* Arming and dropping handlers.                                           *)
LEMMA ArmedFacts ==
    ASSUME Ready
    PROVE  /\ Len(handlers) = Top.hbase + Len(ArmedAt(ip)) /\ Len(ArmedAt(ip)) \in Nat
           /\ Top.hbase \in Nat /\ ip.fn = Top.fn
           /\ \A j \in 1 .. Len(ArmedAt(ip)) :
                 handlers[Top.hbase + j] =
                    [typ |-> ArmedAt(ip)[j].typ, frame |-> CurFrame, ip |-> At(ArmedAt(ip)[j].pc)]
<1>1. ActiveAt(ip, stack) /\ ip.fn = Top.fn /\ ArmedAt(ip) \in Seq(Armable) /\ Top.hbase \in Nat
  BY Here, Frames
<1>2. QED
  BY <1>1 DEF ActiveAt, ArmedBy, Top, CurFrame, At

LEMMA SoundSetup == ASSUME Ready, ExptSetup PROVE Sound'
<1>1. /\ TypeOK /\ TypeOK' /\ HAt(ip) \in Nat /\ RoomAt(ip) \in Nat /\ RoomAt(ip) <= cap
      /\ cap \in Nat /\ ArmedAt(ip) \in Seq(Armable) /\ ip.fn \in Functions /\ id \in Tame
      /\ Code = Program[id].code
  BY Here, TypeStep DEF TypeOK, Next, Step, Ready, Code
<1>2. /\ Ins.op = "EXPT_SETUP" /\ Peek(0).k = "type"
      /\ UNCHANGED <<id, prog, status, trace, frames, cap, buf, error>>
      /\ stack' = Popped(1) /\ ip' = NextIp
      /\ Len(handlers') = Len(handlers) + 1
      /\ \A j \in 1 .. Len(handlers) : handlers'[j] = handlers[j]
      /\ handlers'[Len(handlers) + 1] =
            [typ |-> Peek(0).n, frame |-> CurFrame, ip |-> At(ip.pc + 1 + Ins.n)]
  BY <1>1, ExptSetupAct
<1>3. 1 \in 0 .. HAt(ip)
  BY <1>2, NeedsFacts DEF Needs
<1>4. PICK h2 \in Nat : h2 = HAt(ip) - 1
  BY <1>3, LeftFacts
<1>5. PICK pc : pc = ip.pc + 1
  OBVIOUS
<1>6. PICK armed, after : armed = ArmedAt(ip) /\ after = Armed(id, ip.fn, pc)
  OBVIOUS
<1>7. /\ Flows(id, ip.fn, pc, h2, KnownBelow(1)) /\ Room(id, ip.fn, pc) <= RoomAt(ip)
      /\ \E e \in KnownAt(ip) :
            /\ e[1] = HAt(ip) /\ e[2].k = "type"
            /\ after = Append(armed, [typ |-> e[2].n, pc |-> ip.pc + 1 + Ins.n])
  BY <1>2, <1>4, <1>5, <1>6, ShapedFrames
<1>8. after = Append(armed, [typ |-> Peek(0).n, pc |-> ip.pc + 1 + Ins.n])
  <2>1. PICK e \in KnownAt(ip) :
           /\ e[1] = HAt(ip) /\ e[2].k = "type"
           /\ after = Append(armed, [typ |-> e[2].n, pc |-> ip.pc + 1 + Ins.n])
    BY <1>7
  <2>2. HAt(ip) - e[1] = 0
    BY <1>1, <2>1
  <2>3. Peek(0) = e[2]
    BY <2>2, KnownFacts
  <2>4. QED
    BY <2>1, <2>3
<1>9. /\ pc \in Positions(Code[ip.fn]) /\ H(id, ip.fn, pc) = h2
      /\ Known(id, ip.fn, pc) \subseteq KnownBelow(1)
  BY <1>1, <1>7 DEF Flows
<1>10. Room(id, ip.fn, pc) <= cap
  <2>1. Room(id, ip.fn, pc) \in Nat
    BY <1>1, <1>9, ShapeFacts
  <2>2. QED
    BY <1>1, <1>7, <2>1
<1>11. /\ Len(stack') = Top.base + h2 /\ \A k \in 1 .. Top.base : stack'[k] = stack[k]
       /\ \A e \in Known(id, ip.fn, pc) :
             1 <= e[1] /\ e[1] <= h2 /\ stack'[Top.base + e[1]] = e[2]
  BY <1>2, <1>3, <1>4, <1>9, LeftFacts
<1>12. PICK m \in Nat, hb \in Nat : m = Len(armed) /\ hb = Top.hbase /\ Len(handlers) = hb + m
  BY <1>6, ArmedFacts
<1>13. /\ Len(after) = m + 1 /\ \A j \in 1 .. m : after[j] = armed[j]
       /\ after[m + 1] = [typ |-> Peek(0).n, pc |-> ip.pc + 1 + Ins.n]
  <2>1. PICK x : x = [typ |-> Peek(0).n, pc |-> ip.pc + 1 + Ins.n]
    OBVIOUS
  <2>2. after = Append(armed, x) /\ armed \in Seq(Armable)
    BY <1>1, <1>6, <1>8, <2>1
  <2>3. QED
    BY <1>12, <2>1, <2>2
<1>14. Len(handlers') = Top.hbase + Len(after)
  <2>1. (hb + m) + 1 = hb + (m + 1)
    OBVIOUS
  <2>2. QED
    BY <1>2, <1>12, <1>13, <2>1
<1>15. ASSUME NEW j \in 1 .. Len(after)
       PROVE  handlers'[Top.hbase + j] =
                 [typ |-> after[j].typ, frame |-> CurFrame, ip |-> At(after[j].pc)]
  <2>1. CASE j \in 1 .. m
    <3>1. hb + j \in 1 .. Len(handlers)
      BY <1>12, <2>1
    <3>2. handlers[hb + j] = [typ |-> armed[j].typ, frame |-> CurFrame, ip |-> At(armed[j].pc)]
      BY <1>6, <1>12, <2>1, ArmedFacts
    <3>3. QED
      BY <1>2, <1>12, <1>13, <2>1, <3>1, <3>2
  <2>2. CASE j = m + 1
    <3>1. hb + j = Len(handlers) + 1
      BY <1>12, <2>2
    <3>2. after[j].typ = Peek(0).n /\ after[j].pc = ip.pc + 1 + Ins.n
      BY <1>13, <2>2
    <3>3. QED
      BY <1>2, <1>12, <3>1, <3>2
  <2>3. QED
    BY <1>13, <2>1, <2>2
<1>16. \A j \in 1 .. Top.hbase : handlers'[j] = handlers[j]
  <2>1. \A j \in 1 .. hb : j \in 1 .. hb + m
    OBVIOUS
  <2>2. QED
    BY <1>2, <1>12, <2>1
<1>17. ip' = At(pc)
  BY <1>2, <1>5 DEF NextIp
<1>18. MovesTo(pc, h2)
  BY <1>2, <1>9, <1>10, <1>11, <1>17 DEF MovesTo
<1>19. Holds(after)
  BY <1>14, <1>15, <1>16 DEF Holds
<1>20. QED
  BY <1>1, <1>6, <1>18, <1>19, Continues

LEMMA SoundPopn == ASSUME Ready, ExptPopn PROVE Sound'
<1>1. /\ TypeOK /\ TypeOK' /\ HAt(ip) \in Nat /\ RoomAt(ip) \in Nat /\ RoomAt(ip) <= cap
      /\ cap \in Nat /\ ArmedAt(ip) \in Seq(Armable) /\ ip.fn \in Functions /\ id \in Tame
      /\ Code = Program[id].code
  BY Here, TypeStep DEF TypeOK, Next, Step, Ready, Code
<1>2. /\ Ins.op = "EXPT_POPN" /\ Ins.n \in 0 .. Len(handlers)
      /\ UNCHANGED <<id, prog, status, trace, frames, cap, buf, error, stack>>
      /\ ip' = NextIp
      /\ Len(handlers') = Len(handlers) - Ins.n
      /\ \A j \in 1 .. Len(handlers) - Ins.n : handlers'[j] = handlers[j]
  BY <1>1, ExptPopnAct
<1>3. 0 \in 0 .. HAt(ip) /\ HAt(ip) - 0 = HAt(ip)
  BY <1>1
<1>4. PICK h2 \in Nat : h2 = HAt(ip)
  BY <1>1
<1>5. PICK pc : pc = ip.pc + 1
  OBVIOUS
<1>6. PICK armed, after : armed = ArmedAt(ip) /\ after = Armed(id, ip.fn, pc)
  OBVIOUS
<1>7. /\ Flows(id, ip.fn, pc, h2, KnownBelow(0)) /\ Room(id, ip.fn, pc) <= RoomAt(ip)
      /\ Ins.n <= Len(armed) /\ after = SubSeq(armed, 1, Len(armed) - Ins.n)
  BY <1>2, <1>4, <1>5, <1>6, ShapedFrames
<1>8. /\ pc \in Positions(Code[ip.fn]) /\ H(id, ip.fn, pc) = h2
      /\ Known(id, ip.fn, pc) \subseteq KnownBelow(0)
  BY <1>1, <1>7 DEF Flows
<1>9. Room(id, ip.fn, pc) <= cap
  <2>1. Room(id, ip.fn, pc) \in Nat
    BY <1>1, <1>8, ShapeFacts
  <2>2. QED
    BY <1>1, <1>7, <2>1
<1>10. /\ Len(stack') = Top.base + h2 /\ \A k \in 1 .. Top.base : stack'[k] = stack[k]
       /\ \A e \in Known(id, ip.fn, pc) :
             1 <= e[1] /\ e[1] <= h2 /\ stack'[Top.base + e[1]] = e[2]
  <2>1. stack' = Popped(0)
    BY <1>1, <1>2, PoppedNone DEF TypeOK
  <2>2. QED
    BY <1>3, <1>4, <1>8, <2>1, LeftFacts
<1>11. PICK m \in Nat, hb \in Nat : m = Len(armed) /\ hb = Top.hbase /\ Len(handlers) = hb + m
  BY <1>6, ArmedFacts
<1>12. PICK n \in Nat : n = Ins.n /\ n <= m
  BY <1>1, <1>2, <1>7, <1>11
<1>13. /\ Len(after) = m - n /\ \A j \in 1 .. m - n : after[j] = armed[j]
  <2>1. armed \in Seq(Armable) /\ after = SubSeq(armed, 1, m - n)
    BY <1>1, <1>6, <1>7, <1>11, <1>12
  <2>2. QED
    BY <1>11, <1>12, <2>1
<1>14. /\ Len(handlers') = hb + (m - n) /\ \A j \in 1 .. hb + (m - n) : handlers'[j] = handlers[j]
  <2>1. (hb + m) - n = hb + (m - n)
    BY <1>12
  <2>2. QED
    BY <1>2, <1>11, <1>12, <2>1
<1>15. ASSUME NEW j \in 1 .. Len(after)
       PROVE  handlers'[Top.hbase + j] =
                 [typ |-> after[j].typ, frame |-> CurFrame, ip |-> At(after[j].pc)]
  <2>1. j \in 1 .. m - n /\ j \in 1 .. m /\ hb + j \in 1 .. hb + (m - n)
    BY <1>12, <1>13
  <2>2. handlers[hb + j] = [typ |-> armed[j].typ, frame |-> CurFrame, ip |-> At(armed[j].pc)]
    BY <1>6, <1>11, <2>1, ArmedFacts
  <2>3. QED
    BY <1>11, <1>13, <1>14, <2>1, <2>2
<1>16. \A j \in 1 .. Top.hbase : handlers'[j] = handlers[j]
  <2>1. \A j \in 1 .. hb : j \in 1 .. hb + (m - n)
    BY <1>12
  <2>2. QED
    BY <1>11, <1>14, <2>1
<1>17. ip' = At(pc) /\ Len(handlers') = Top.hbase + Len(after)
  BY <1>2, <1>5, <1>11, <1>13, <1>14 DEF NextIp
<1>18. MovesTo(pc, h2)
  BY <1>2, <1>8, <1>9, <1>10, <1>17 DEF MovesTo
<1>19. Holds(after)
  BY <1>15, <1>16, <1>17 DEF Holds
<1>20. QED
  BY <1>1, <1>6, <1>18, <1>19, Continues
----------------------------------------------------------------------------
(* Catching.                                                               *)
LEMMA CatchFacts ==
    ASSUME TypeOK, id \in Tame, Sound, Pending, Matching # {}
    PROVE  /\ Newest \in 1 .. Len(handlers) /\ handlers[Newest].frame = CurFrame
           /\ Foreign(Newest) = {} /\ ~ RunsOff(Newest) /\ HAt(handlers[Newest].ip) >= 1
           /\ ActiveAt(handlers[Newest].ip, Append(stack, Exc(error)))
<1>1. /\ Newest \in Matching /\ Newest \in 1 .. Len(handlers)
      /\ \A i \in Matching : i <= Newest
  BY NewestFacts
<1>2. PICK j \in 1 .. Len(handlers) : j = Newest
  BY <1>1
<1>3. /\ j > Top.hbase /\ HAt(handlers[j].ip) >= 1
      /\ ActiveAt(handlers[j].ip, Append(stack, Exc(error)))
  BY <1>1, <1>2 DEF Sound, CaughtOnTop
<1>4. PICK armed : armed = ArmedAt(handlers[j].ip)
  OBVIOUS
<1>5. Top.hbase \in Nat /\ Top.fn \in Functions
  BY Frames DEF Sound
<1>6. /\ handlers[j].ip.fn = Top.fn /\ handlers[j].ip.pc \in Positions(Code[Top.fn])
      /\ ArmedBy(Len(frames), armed) /\ Len(handlers) = Top.hbase + Len(armed)
  BY <1>3, <1>4 DEF ActiveAt
<1>7. armed \in Seq(Armable)
  BY <1>4, <1>5, <1>6, ShapeFacts DEF ArmedAt
<1>8. PICK hb \in Nat, m \in Nat : hb = Top.hbase /\ m = Len(armed) /\ Len(handlers) = hb + m
  BY <1>5, <1>6, <1>7
<1>9. ASSUME NEW i \in j .. hb + m PROVE handlers[i].frame = CurFrame
  <2>1. i - hb \in 1 .. m /\ i = hb + (i - hb)
    BY <1>3, <1>8, <1>9
  <2>2. PICK k \in 1 .. m : i = hb + k
    BY <2>1
  <2>3. handlers[Top.hbase + k] =
           [typ |-> armed[k].typ, frame |-> [buf |-> buf, idx |-> Len(frames)],
            ip |-> [fn |-> Top.fn, pc |-> armed[k].pc]]
    BY <1>6, <1>8 DEF ArmedBy, Top
  <2>4. handlers[hb + k].frame = [buf |-> buf, idx |-> Len(frames)]
    BY <1>8, <2>3
  <2>5. QED
    BY <2>2, <2>4 DEF CurFrame
<1>10. j \in j .. hb + m
  BY <1>8
<1>11. handlers[j].frame = CurFrame
  BY <1>9, <1>10
<1>12. Foreign(j) = {}
  BY <1>8, <1>9 DEF Foreign
<1>13. ~ RunsOff(j)
  BY <1>11 DEF RunsOff
<1>14. QED
  BY <1>1, <1>2, <1>3, <1>11, <1>12, <1>13

LEMMA CatchStays ==
    ASSUME TypeOK, id \in Tame, Sound, CatchError
    PROVE  /\ UNCHANGED <<id, prog, status, cap, buf, trace, handlers, frames>>
           /\ status = "run" /\ ip' = handlers[Newest].ip
           /\ stack' = Append(stack, Exc(error)) /\ error' = NoError
<1>1. /\ Pending /\ Matching # {} /\ frames' = FramesAfter(Newest)
      /\ handlers' = SubSeq(handlers, 1, Len(handlers) - Cardinality(Foreign(Newest)))
      /\ UNCHANGED <<id, prog, status, cap, buf, trace>> /\ ip' = handlers[Newest].ip
      /\ stack' = Append(stack, Exc(error)) /\ error' = NoError
  BY DEF CatchError
<1>2. handlers[Newest].frame = CurFrame /\ Foreign(Newest) = {}
  BY <1>1, CatchFacts
<1>3. Cardinality(Foreign(Newest)) = 0
  BY <1>2, FS_EmptySet
<1>4. Len(handlers) \in Nat /\ handlers \in Seq(Handler)
  BY LengthFacts DEF TypeOK
<1>5. handlers' = handlers
  <2>1. handlers' = SubSeq(handlers, 1, Len(handlers))
    BY <1>1, <1>3, <1>4
  <2>2. QED
    BY <1>4, <2>1
<1>6. frames' = frames
  BY <1>1, <1>2 DEF FramesAfter
<1>7. QED
  BY <1>1, <1>5, <1>6 DEF Pending

LEMMA SoundCatch == ASSUME TypeOK, id \in Tame, Sound, CatchError PROVE Sound'
<1>1. /\ UNCHANGED <<id, prog, status, cap, buf, trace, handlers, frames>>
      /\ status = "run" /\ ip' = handlers[Newest].ip
      /\ stack' = Append(stack, Exc(error)) /\ error' = NoError
  BY CatchStays
<1>2. /\ HAt(handlers[Newest].ip) >= 1 /\ Newest \in 1 .. Len(handlers)
      /\ ActiveAt(handlers[Newest].ip, Append(stack, Exc(error)))
  BY CatchFacts DEF CatchError
<1>3. TypeOK'
  BY TypeStep DEF Next, Step
<1>4. PICK a, h : a = handlers[Newest].ip /\ h = HAt(a)
  OBVIOUS
<1>5. /\ Top.fn \in Functions /\ Top.base \in Nat /\ a.fn = Top.fn
      /\ a.pc \in Positions(Code[a.fn])
  BY <1>2, <1>4, Frames DEF Sound, ActiveAt
<1>6. h \in Int /\ h >= 1 /\ Len(stack') = Top.base + h /\ Len(stack) \in Nat
      /\ stack \in Seq(Value)
  <2>1. h \in Int
    BY <1>4, <1>5, ShapeFacts DEF HAt
  <2>2. h >= 1
    BY <1>2, <1>4
  <2>3. Len(stack') = Top.base + h
    BY <1>1, <1>2, <1>4 DEF ActiveAt
  <2>4. QED
    BY <2>1, <2>2, <2>3 DEF TypeOK
<1>7. Len(stack') = Len(stack) + 1 /\ \A k \in 1 .. Len(stack) : stack'[k] = stack[k]
  BY <1>1, <1>6
<1>8. \A k \in 1 .. Top.base : stack'[k] = stack[k]
  <2>1. PICK b \in Nat, n \in Nat : b = Top.base /\ n = Len(stack) /\ n + 1 = b + h
    BY <1>5, <1>6, <1>7
  <2>2. \A k \in 1 .. b : k \in 1 .. n
    BY <1>6, <2>1
  <2>3. QED
    BY <1>7, <2>1, <2>2
<1>9. Undisturbed
  <2>1. cap \in Nat
    BY DEF TypeOK
  <2>2. UNCHANGED <<id, prog>> /\ cap' \in Nat /\ cap' >= cap
    BY <1>1, <2>1
  <2>3. buf' = buf /\ \A j \in 1 .. Top.hbase : handlers'[j] = handlers[j]
    BY <1>1
  <2>4. QED
    BY <1>8, <2>2, <2>3 DEF Undisturbed
<1>10. /\ NeverWild' /\ CleanAtHalt' /\ FramesNested' /\ FramesPlaced'
       /\ \A i \in 1 .. Len(frames') - 1 : Suspended(i)'
  BY <1>1, <1>3, <1>9, CallersKept
<1>11. ActiveAt(ip, stack)'
  <2>1. PICK s : s = Append(stack, Exc(error))
    OBVIOUS
  <2>2. ActiveAt(a, s) /\ ip' = a /\ stack' = s
    BY <1>1, <1>2, <1>4, <2>1
  <2>3. QED
    BY <1>1, <2>2 DEF ActiveAt, ArmedBy, HAt, KnownAt, ArmedAt, RoomAt, Code, Top
<1>12. QED
  BY <1>1, <1>10, <1>11 DEF Sound, Running, Pending
----------------------------------------------------------------------------
LEMMA NextSound == ASSUME TypeOK, id \in Tame, Sound, [Next]_vars PROVE Sound'
<1>1. ASSUME Running PROVE Ready
  BY <1>1 DEF Ready
<1>2. CASE \/ Load \/ LoadAny \/ SetVal \/ Pop \/ Operator \/ NewIter \/ ForIter
           \/ Test \/ Jmp \/ JmpBack \/ Nop \/ AssertTrue \/ Raise
  <2>1. Running
    BY <1>2 DEF Load, LoadAny, SetVal, Pop, Operator, NewIter, ForIter, Test, Jmp, JmpBack,
                Nop, AssertTrue, Raise, Exec
  <2>2. QED
    BY <1>1, <1>2, <2>1, SoundInFrame
<1>3. CASE CallRefused \/ CallType \/ CallShow
  <2>1. Running
    BY <1>3 DEF CallRefused, CallType, CallShow, Exec
  <2>2. QED
    BY <1>1, <1>3, <2>1, SoundPlainCall
<1>4. CASE CallFunction
  BY <1>1, <1>4, SoundCall DEF CallFunction, Exec
<1>5. CASE Ret
  BY <1>1, <1>5, SoundRet DEF Ret, Exec
<1>6. CASE Halt
  BY <1>1, <1>6, SoundHalt DEF Halt
<1>7. CASE ExptSetup
  BY <1>1, <1>7, SoundSetup DEF ExptSetup, Exec
<1>8. CASE ExptPopn
  BY <1>1, <1>8, SoundPopn DEF ExptPopn, Exec
<1>9. CASE CatchError
  BY <1>9, SoundCatch
<1>10. CASE CatchRunsOff
  BY <1>10, CatchFacts DEF CatchRunsOff
<1>11. CASE Undefined
  BY <1>1, <1>11, AlwaysDefined DEF Undefined
<1>12. CASE Traceback \/ Cut
  <2>1. /\ status' \in {"traceback", "cut"}
        /\ UNCHANGED <<id, prog, ip, stack, frames, cap, buf, handlers, error, trace>>
    BY <1>12 DEF Traceback, Cut
  <2>2. QED
    BY <2>1, SoundStops
<1>13. CASE Stopped \/ UNCHANGED vars
  BY <1>13, SoundStays DEF Stopped
<1>14. QED
  BY <1>2, <1>3, <1>4, <1>5, <1>6, <1>7, <1>8, <1>9, <1>10, <1>11, <1>12, <1>13 DEF Next, Step

LEMMA InitSound == ASSUME Init, id \in Tame PROVE Sound
<1>1. TypeOK
  BY TypeInit
<1>2. /\ status = "run" /\ ip = [fn |-> Main, pc |-> 0] /\ stack = <<>> /\ cap = 2
      /\ frames = <<[fn |-> Main, saved |-> [fn |-> Main, pc |-> 0], base |-> 0, hbase |-> 0]>>
      /\ handlers = <<>> /\ error = NoError /\ Main \in Functions
  BY ConstAssumption DEF Init
<1>3. /\ H(id, Main, 0) = 0 /\ Depth(id, Main) \in {0, 1} /\ ~ Under(id, Main)
      /\ Room(id, Main, 0) <= 2 /\ 0 \in Positions(Code[Main])
      /\ Known(id, Main, 0) = {} /\ Armed(id, Main, 0) = <<>>
  BY <1>1, <1>2, ShapeFacts
<1>4. Len(frames) = 1 /\ Top = frames[1] /\ frames[1].fn = Main
      /\ frames[1].base = 0 /\ frames[1].hbase = 0
  BY <1>2 DEF Top
<1>5. NeverWild /\ CleanAtHalt /\ FramesNested
  BY <1>2, <1>4 DEF NeverWild, CleanAtHalt, FramesNested
<1>6. FramesPlaced
  BY <1>2, <1>3, <1>4 DEF FramesPlaced
<1>7. ActiveAt(ip, stack)
  BY <1>2, <1>3, <1>4 DEF ActiveAt, ArmedBy, HAt, KnownAt, ArmedAt, RoomAt
<1>8. QED
  BY <1>2, <1>4, <1>5, <1>6, <1>7 DEF Sound, Running, Pending

LEMMA Inductive == ASSUME IInv, [Next]_vars PROVE IInv'
<1>1. TypeOK'
  BY TypeStep DEF IInv
<1>2. id' = id
  <2>1. CASE Stopped \/ UNCHANGED vars
    BY <2>1 DEF Stopped, vars
  <2>2. CASE Step
    BY <2>2 DEF Step, Load, LoadAny, SetVal, Pop, Operator, NewIter, ForIter, Test, Jmp,
           JmpBack, Nop, AssertTrue, Raise, CallRefused, CallType, CallShow, CallFunction, Ret,
           Halt, ExptSetup, ExptPopn, CatchError, CatchRunsOff, Traceback, Undefined, Cut, Exec
  <2>3. QED
    BY <2>1, <2>2 DEF Next
<1>3. QED
  BY <1>1, <1>2, NextSound DEF IInv

(* Whatever is run, the four pieces of state of the loop stay what they    *)
(* are: sequences of values, of frames (at least one) and of handlers, and *)
(* a pending exception or none (ctx, vm.c:376-407).                        *)
THEOREM TypeCorrect == Spec => []TypeOK
<1>1. Init => TypeOK
  BY TypeInit
<1>2. TypeOK /\ [Next]_vars => TypeOK'
  BY TypeStep
<1>3. QED
  BY <1>1, <1>2, PTL DEF Spec

(* The contract is inductive: in tame code every operand, iterator, frame, *)
(* return address and handler stays where its shape says.                  *)
THEOREM Invariance == Spec => []IInv
<1>1. Init => IInv
  BY TypeInit, InitSound DEF IInv
<1>2. IInv /\ [Next]_vars => IInv'
  BY Inductive
<1>3. QED
  BY <1>1, <1>2, PTL DEF Spec

(* Tame code, with its calls, its loops, its exceptions and its handlers,  *)
(* never makes the loop pop what is not there, leave its code, step what   *)
(* is no iterator, or look for a handler in a frame that is gone.          *)
THEOREM RunsSafely == Spec => []TameNeverWild
<1>1. IInv => TameNeverWild
  BY DEF IInv, Sound, TameNeverWild
<1>2. QED
  BY <1>1, Invariance, PTL

(* Tame code that runs to HALT leaves nothing behind: no operand, no frame *)
(* but its own and no armed handler.                                       *)
THEOREM HaltsClean == Spec => [](id \in Tame => CleanAtHalt)
<1>1. IInv => (id \in Tame => CleanAtHalt)
  BY DEF IInv, Sound
<1>2. QED
  BY <1>1, Invariance, PTL

LEMMA CatchStep ==
    ASSUME IInv, [Next]_vars
    PROVE  [(id \in Tame) => CatchKeepsFrame]_vars
<1>1. SUFFICES ASSUME Next, id \in Tame, Pending, Matching # {}, vars' # vars
               PROVE  CatchKeepsFrame
  BY DEF CatchKeepsFrame
<1>2. TypeOK /\ Sound
  BY <1>1 DEF IInv
<1>3. ~ Running /\ status = "run"
  BY <1>1 DEF Running, Pending
<1>4. ~ CatchRunsOff /\ ~ Traceback /\ ~ Stopped
  BY <1>1, <1>2, CatchFacts DEF CatchRunsOff, Traceback, Stopped
<1>5. CatchError
  BY <1>1, <1>3, <1>4 DEF Next, Step, Load, LoadAny, SetVal, Pop, Operator, NewIter, ForIter,
        Test, Jmp, JmpBack, Nop, AssertTrue, Raise, CallRefused, CallType, CallShow,
        CallFunction, Ret, Halt, ExptSetup, ExptPopn, Undefined, Cut, Exec
<1>6. UNCHANGED <<status, frames>> /\ ip' = handlers[Newest].ip
  BY <1>1, <1>2, <1>5, CatchStays
<1>7. handlers[Newest].frame = CurFrame /\ handlers[Newest].ip.fn = Top.fn
  BY <1>1, <1>2, CatchFacts DEF ActiveAt
<1>8. SubSeq(frames, 1, Len(frames)) = frames
  BY <1>2 DEF TypeOK
<1>9. QED
  BY <1>3, <1>6, <1>7, <1>8 DEF CatchKeepsFrame, CurFrame, Top

(* Tame code catches an exception in the frame that armed the handler, and *)
(* goes on with the code of that frame.                                    *)
THEOREM CaughtInFrame == Spec => TameCaught
<1>1. IInv /\ [Next]_vars => [(id \in Tame) => CatchKeepsFrame]_vars
  BY CatchStep
<1>2. QED
  BY <1>1, Invariance, PTL DEF Spec, TameCaught

LEMMA KeepsStep ==
    ASSUME IInv, [Next]_vars, id \in Tame, Len(frames') < Len(frames)
    PROVE  KeepsOperands
<1>1. TypeOK /\ Sound /\ Len(frames) \in Nat
  BY LengthFacts DEF IInv
<1>2. CASE Ret
  <2>1. Ready
    BY <1>1, <1>2 DEF Ready, Ret, Exec
  <2>2. QED
    BY <1>2, <2>1, RetStack DEF KeepsOperands
<1>3. ASSUME frames' = frames PROVE FALSE
  BY <1>1, <1>3
<1>4. CASE CallFunction
  BY <1>1, <1>4, CallFunctionAct
<1>5. CASE CatchError
  BY <1>1, <1>3, <1>5, CatchStays
<1>6. QED
  BY <1>2, <1>3, <1>4, <1>5 DEF Next, Step, Stopped, vars, Load, LoadAny, SetVal, Pop, Operator,
        NewIter, ForIter, Test, Jmp, JmpBack, Nop, AssertTrue, Raise, CallRefused, CallType,
        CallShow, Halt, ExptSetup, ExptPopn, CatchRunsOff, Traceback, Undefined, Cut,
        NoRaise, SetError

(* In tame code a call replaces the callee and its arguments by exactly    *)
(* one value: no callee reaches below its own operands, with or without an *)
(* exception on the way.                                                   *)
THEOREM TameKeepsCaller == Spec => [][(id \in Tame) => KeepsOperands]_vars
<1>1. IInv /\ [Next]_vars => [(id \in Tame) => KeepsOperands]_vars
  BY KeepsStep DEF KeepsOperands
<1>2. QED
  BY <1>1, Invariance, PTL DEF Spec

(* Where all programs are tame, every caller gets its operands back.       *)
THEOREM KeepsCaller == ASSUME Tame = DOMAIN Program PROVE Spec => CallerKept
<1>1. IInv => id \in Tame
  BY DEF IInv, TypeOK
<1>2. IInv /\ [(id \in Tame) => KeepsOperands]_vars => [KeepsOperands]_vars
  BY <1>1
<1>3. QED
  BY <1>2, Invariance, TameKeepsCaller, PTL DEF CallerKept
=============================================================================
