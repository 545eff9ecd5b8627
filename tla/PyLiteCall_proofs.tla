------------------------- MODULE PyLiteCall_proofs -------------------------
(***************************************************************************)
(* Every instruction of every call expression finds its operands, and in   *)
(* disciplined code the parser's count and params_offset together give the *)
(* height of the operand stack, whatever the expressions and their values. *)
(***************************************************************************)
EXTENDS PyLiteCall, SequenceTheorems, TLAPS

(* Stacks: cutting, pushing and appending.                                 *)
LEMMA OwnElements ==
    ASSUME NEW S, NEW s \in Seq(S)
    PROVE  s \in Seq({s[j] : j \in DOMAIN s})
<1>1. Len(s) \in Nat /\ DOMAIN s = 1..Len(s) /\ s \in [1..Len(s) -> S]
  BY LenProperties
<1>2. s \in [1..Len(s) -> {s[j] : j \in DOMAIN s}]
  BY <1>1
<1>3. QED
  BY <1>1, <1>2, SeqDef

LEMMA StackCut ==
    ASSUME NEW s, IsStack(s), NEW n \in 0..Len(s)
    PROVE  /\ Len(s) \in Nat
           /\ IsStack(SubSeq(s, 1, Len(s) - n))
           /\ Len(SubSeq(s, 1, Len(s) - n)) = Len(s) - n
           /\ \A j \in 1 .. Len(s) - n : SubSeq(s, 1, Len(s) - n)[j] = s[j]
<1> DEFINE S == {s[j] : j \in DOMAIN s}
           t == SubSeq(s, 1, Len(s) - n)
<1>1. s \in Seq(S) /\ Len(s) \in Nat /\ DOMAIN s = 1..Len(s)
  BY LenProperties DEF IsStack
<1>2. t \in Seq(S) /\ Len(t) = Len(s) - n /\ \A j \in 1 .. Len(s) - n : t[j] = s[j]
  <2>1. \A j \in 1 .. Len(s) - n : s[j] \in S
    BY <1>1
  <2> DEFINE m == Len(s) - n
  <2>2. m \in Nat
    BY <1>1
  <2> HIDE DEF S, m
  <2>3. /\ SubSeq(s, 1, m) \in Seq(S)
        /\ Len(SubSeq(s, 1, m)) = IF 1 <= m THEN m - 1 + 1 ELSE 0
        /\ \A i \in 1 .. m - 1 + 1 : SubSeq(s, 1, m)[i] = s[1 + i - 1]
    <3>1. \A j \in 1..m : s[j] \in S
      BY <2>1 DEF m
    <3>2. QED
      BY <2>2, <3>1, SubSeqProperties
  <2>4. Len(SubSeq(s, 1, m)) = m /\ \A i \in 1..m : SubSeq(s, 1, m)[i] = s[i]
    BY <2>2, <2>3
  <2>5. QED
    BY <2>3, <2>4 DEF m
<1>3. DOMAIN t = 1 .. Len(s) - n
  BY <1>2, LenProperties
<1>4. \A j \in DOMAIN t : IsOperand(t[j])
  <2>1. \A j \in 1 .. Len(s) - n : j \in 1..Len(s)
    BY <1>1
  <2> HIDE DEF t
  <2>2. \A j \in DOMAIN t : j \in DOMAIN s /\ t[j] = s[j]
    BY <1>1, <1>2, <1>3, <2>1
  <2>3. QED
    BY <2>2 DEF IsStack
<1>5. IsStack(t)
  BY <1>2, <1>4, OwnElements DEF IsStack
<1>6. QED
  BY <1>1, <1>2, <1>5

LEMMA StackPush ==
    ASSUME NEW s, IsStack(s), NEW v, IsOperand(v)
    PROVE  IsStack(Append(s, v)) /\ Len(Append(s, v)) = Len(s) + 1
<1> DEFINE S == {s[j] : j \in DOMAIN s} \cup {v}
           t == Append(s, v)
<1>1. s \in Seq({s[j] : j \in DOMAIN s}) /\ DOMAIN s = 1..Len(s) /\ Len(s) \in Nat
  BY LenProperties DEF IsStack
<1>2. s \in Seq(S)
  <2>1. s \in [1..Len(s) -> S]
    BY <1>1, LenProperties
  <2>2. QED
    BY <1>1, <2>1, SeqDef
<1>3. /\ t \in Seq(S) /\ Len(t) = Len(s) + 1
      /\ \A j \in 1..Len(s) : t[j] = s[j]
      /\ t[Len(s) + 1] = v
  BY <1>2, AppendProperties
<1>4. DOMAIN t = 1 .. Len(s) + 1
  BY <1>3, LenProperties
<1>5. \A j \in DOMAIN t : IsOperand(t[j])
  BY <1>1, <1>3, <1>4 DEF IsStack
<1>6. QED
  BY <1>3, <1>5, OwnElements DEF IsStack

LEMMA StackConcat ==
    ASSUME NEW s, IsStack(s), NEW T, NEW t \in Seq(T), \A j \in DOMAIN t : IsOperand(t[j])
    PROVE  IsStack(s \o t) /\ Len(s \o t) = Len(s) + Len(t)
<1> DEFINE S == {s[j] : j \in DOMAIN s} \cup T
           u == s \o t
<1>1. s \in Seq({s[j] : j \in DOMAIN s}) /\ DOMAIN s = 1..Len(s) /\ Len(s) \in Nat
  BY LenProperties DEF IsStack
<1>2. Len(t) \in Nat /\ DOMAIN t = 1..Len(t)
  BY LenProperties
<1>3. s \in Seq(S) /\ t \in Seq(S)
  <2>1. s \in [1..Len(s) -> S] /\ t \in [1..Len(t) -> S]
    BY <1>1, <1>2, LenProperties
  <2>2. QED
    BY <1>1, <1>2, <2>1, SeqDef
<1>4. /\ u \in Seq(S) /\ Len(u) = Len(s) + Len(t)
      /\ \A j \in 1 .. Len(s) + Len(t) : u[j] = IF j <= Len(s) THEN s[j] ELSE t[j - Len(s)]
  BY <1>3, ConcatProperties
<1>5. DOMAIN u = 1 .. Len(s) + Len(t)
  BY <1>4, LenProperties
<1>6. \A j \in DOMAIN u : IsOperand(u[j])
  <2>1. TAKE j \in DOMAIN u
  <2>2. CASE j <= Len(s)
    BY <1>1, <1>2, <1>4, <1>5, <2>2 DEF IsStack
  <2>3. CASE ~ (j <= Len(s))
    <3>1. j - Len(s) \in 1..Len(t)
      BY <1>1, <1>2, <1>5, <2>3
    <3>2. QED
      BY <1>1, <1>2, <1>4, <1>5, <2>3, <3>1
  <2>4. QED
    BY <2>2, <2>3
<1>7. u \in Seq({u[j] : j \in DOMAIN u})
  BY <1>4, OwnElements
<1> HIDE DEF u
<1>8. IsStack(u)
  BY <1>6, <1>7 DEF IsStack
<1>9. QED
  BY <1>4, <1>8 DEF u
----------------------------------------------------------------------------
LEMMA EffectSize ==
    ASSUME NEW i, IsInstruction(i)
    PROVE  Needs(i) \in Nat /\ Counts(i) \in Int
<1>1. i.op \in Opcodes /\ i.n \in Nat /\ i.x \in {0, 1}
  BY DEF IsInstruction
<1>2. Needs(i) \in Nat
  <2>1. CASE i.op \in {"LOAD", "LOAD_VAL"}
    BY <2>1 DEF Needs
  <2>2. CASE i.op \in {"GET_ATTR", "UNPACK_ARG"}
    BY <2>2 DEF Needs
  <2>3. CASE i.op \in {"NEW_DICT", "DICT_COMBINE"}
    BY <1>1, <2>3 DEF Needs
  <2>4. CASE i.op = "CALL"
    BY <1>1, <2>4 DEF Needs
  <2>5. QED
    BY <1>1, <2>1, <2>2, <2>3, <2>4 DEF Opcodes
<1>3. QED
  BY <1>2 DEF Counts

(* Before an instruction: what the parser has counted is there.            *)
LEMMA Here ==
    ASSUME TypeOK, OperandsThere, status = "run", pc < Len(Code)
    PROVE  /\ Len(Code) \in Nat /\ pc \in Nat /\ pc + 1 \in 0..Len(Code)
           /\ IsInstruction(Now)
           /\ Depth[pc] \in Nat /\ Depth[pc + 1] \in Nat
           /\ Depth[pc] >= Needs(Now) /\ Depth[pc + 1] = Depth[pc] + Counts(Now)
           /\ Height \in Nat /\ offset \in Nat
           /\ Height >= Depth[pc] + offset
           /\ DOMAIN stack = 1..Height
           /\ Now.n \in Nat
<1>1. IsProgram(Program[id])
  BY ProgramAssumption DEF TypeOK
<1>2. Len(Code) \in Nat /\ pc \in 0 .. Len(Code) - 1
  BY <1>1 DEF IsProgram, Code, TypeOK
<1>3. /\ IsInstruction(Now) /\ Depth[pc] >= Needs(Now) /\ Depth[pc + 1] = Depth[pc] + Counts(Now)
      /\ Depth[pc] \in Nat /\ Depth[pc + 1] \in Nat
  <2> DEFINE p == Program[id]
  <2>1. Code = p.code /\ Now = p.code[pc + 1] /\ Depth = p.depth
    BY DEF Code, Now, Depth
  <2>2. IsProgram(p) /\ pc \in 0 .. Len(p.code) - 1 /\ Len(p.code) \in Nat
    BY <1>1, <1>2, <2>1
  <2> HIDE DEF p
  <2>3. IsInstruction(p.code[pc + 1])
    BY <2>2 DEF IsProgram
  <2>4. p.depth[pc] >= Needs(p.code[pc + 1]) /\ p.depth[pc + 1] = p.depth[pc] + Counts(p.code[pc + 1])
    BY <2>2 DEF IsProgram
  <2>5. pc \in 0..Len(p.code) /\ pc + 1 \in 0..Len(p.code) /\ p.depth \in [0..Len(p.code) -> Nat]
    BY <2>2 DEF IsProgram
  <2>6. p.depth[pc] \in Nat /\ p.depth[pc + 1] \in Nat
    BY <2>5
  <2>7. QED
    BY <2>1, <2>3, <2>4, <2>6
<1>4. Height \in Nat /\ DOMAIN stack = 1..Height
  BY LenProperties DEF TypeOK, IsStack, Height
<1>5. QED
  BY <1>2, <1>3, <1>4 DEF TypeOK, OperandsThere, IsInstruction

(* What an instruction that goes on may do to the stack and the offset: the*)
(* operands that params_offset does not count become as many more as the   *)
(* parser counts, except that a method forgets what was counted before it. *)
Warm(i) ==
    \/ i.op = "UNPACK_ARG"
    \/ i.op = "GET_ATTR" /\ i.x = 1 /\ i.v \notin {Name("own"), Name("nothing")}
Forgets(i) == i.op = "GET_ATTR" /\ Warm(i)

Continues ==
    /\ status = "run" /\ pc < Len(Code) /\ Goes
    /\ IsStack(stack') /\ offset' \in Nat
    /\ Len(stack') - offset' = Height + Counts(Now) - IF Forgets(Now) THEN 0 ELSE offset
    /\ offset' = 0 \/ Warm(Now) \/ (offset' = offset /\ Now.op # "CALL")
Ends ==
    /\ \E s \in {"raised", "astray"} : Stops(s)
    /\ IsStack(stack') /\ offset' \in Nat

LEMMA CallEffect ==
    ASSUME TypeOK, OperandsThere, status = "run", pc < Len(Code),
           NEW s, IsStack(s), NEW n \in Nat, NEW m,
           Len(s) > n + offset, CallsWith(s, n, m)
    PROVE  /\ offset' = 0
           /\ IsStack(stack')
           /\ \/ Goes /\ Len(stack') = Len(s) - n - offset
              \/ Stops("raised")
<1> DEFINE all == n + offset
<1>1. offset \in Nat /\ all \in Nat /\ all + 1 \in 0..Len(s)
  BY LenProperties DEF TypeOK, IsStack
<1>2. CASE Stops("raised") /\ stack' = s /\ offset' = 0
  BY <1>2
<1>3. CASE /\ stack' = Append(SubSeq(s, 1, Len(s) - all - 1),
                              Result(s[Len(s) - all].n, SubSeq(s, Len(s) - all + 1, Len(s)), m))
           /\ Goes /\ offset' = 0
  <2> DEFINE v == Result(s[Len(s) - all].n, SubSeq(s, Len(s) - all + 1, Len(s)), m)
             t == SubSeq(s, 1, Len(s) - (all + 1))
  <2>1. IsStack(t) /\ Len(t) = Len(s) - (all + 1) /\ Len(s) \in Nat
    BY <1>1, StackCut
  <2>2. IsOperand(v)
    BY DEF IsOperand, Iterable, Result
  <2>3. Len(s) - all - 1 = Len(s) - (all + 1)
    BY <1>1, <2>1
  <2>4. stack' = Append(t, v)
    BY <1>3, <2>3
  <2> HIDE DEF t, v
  <2>5. IsStack(stack') /\ Len(stack') = Len(t) + 1
    BY <2>1, <2>2, <2>4, StackPush
  <2>6. QED
    BY <1>1, <1>3, <2>1, <2>5
<1>4. QED
  BY <1>2, <1>3 DEF CallsWith

LEMMA StepEffect ==
    ASSUME TypeOK, OperandsThere, Step
    PROVE  \/ Continues
           \/ Ends
           \/ End
<1>1. CASE End
  BY <1>1
<1>2. CASE ~ End
  <2>1. status = "run" /\ pc < Len(Code)
    BY <1>2 DEF Step, Load, LoadUnknown, GetMissing, GetFunction, GetMethod, GetProperty, Unpack,
                UnpackRefused, NewDict, DictCombine, CombineRefused, CallPlain, CallMapped,
                CallMisread, At
  <2> USE <2>1
  <2>2. /\ IsInstruction(Now) /\ Height \in Nat /\ offset \in Nat
        /\ Now.n \in Nat /\ Needs(Now) \in Nat /\ Needs(Now) + offset <= Height
        /\ DOMAIN stack = 1..Height
    <3>1. Depth[pc] \in Nat /\ Depth[pc] >= Needs(Now) /\ Height >= Depth[pc] + offset
          /\ Height \in Nat /\ offset \in Nat /\ Now.n \in Nat
      BY Here
    <3>2. Needs(Now) \in Nat
      BY Here, EffectSize
    <3>3. QED
      BY <3>1, <3>2, Here
  <2>3. \A j \in 1..Height : IsOperand(stack[j])
    BY <2>2 DEF TypeOK, IsStack
  <2>4. \A n \in 0..Height : IsStack(Popped(n)) /\ Len(Popped(n)) = Height - n
    BY StackCut DEF TypeOK, Popped, Height
  <2>5. \A n \in 0..Height : Error(n) => Ends
    BY <2>2, <2>4 DEF Error, Ends
  <2>6. \A n \in 0..Height : \A v : IsOperand(v) =>
            IsStack(Append(Popped(n), v)) /\ Len(Append(Popped(n), v)) = Height - n + 1
    BY <2>4, StackPush
  <2>7. CASE Load
    <3>1. At("LOAD") /\ Goes /\ stack' = Append(stack, Now.v) /\ offset' = offset
      BY <2>7 DEF Load
    <3>2. IsOperand(Now.v)
      BY <2>2, <3>1, LiteralAssumption DEF IsOperand, IsInstruction, At
    <3>3. IsStack(stack') /\ Len(stack') = Height + 1
      BY <3>1, <3>2, StackPush DEF TypeOK, Height
    <3>4. Counts(Now) = 1 /\ ~ Forgets(Now) /\ Now.op # "CALL"
      BY <3>1 DEF At, Counts, Needs, Forgets, Warm
    <3>5. QED
      BY <2>2, <3>1, <3>3, <3>4 DEF Continues
  <2>8. CASE LoadUnknown
    BY <2>2, <2>5, <2>8 DEF LoadUnknown
  <2>9. CASE GetMissing \/ UnpackRefused
    <3>1. Needs(Now) = 1 /\ Error(1)
      BY <2>9 DEF GetMissing, UnpackRefused, At, Needs
    <3>2. QED
      BY <2>2, <2>5, <3>1
  <2>10. CASE CombineRefused
    <3>1. Needs(Now) = 2 /\ Error(2)
      BY <2>10 DEF CombineRefused, At, Needs
    <3>2. QED
      BY <2>2, <2>5, <3>1
  <2>11. CASE GetFunction
    <3>1. At("GET_ATTR") /\ Goes /\ stack' = Append(Popped(1), Fn(Now.v.n)) /\ offset' = offset
          /\ (Finds({"own"}) \/ Now.x = 0)
      BY <2>11 DEF GetFunction
    <3>2. Needs(Now) = 1 /\ Counts(Now) = 0 /\ Now.op # "CALL"
      BY <3>1 DEF At, Needs, Counts
    <3>3. IsStack(stack') /\ Len(stack') = Height - 1 + 1
      BY <2>2, <2>6, <3>1, <3>2 DEF Fn, IsOperand, Iterable
    <3>4. ~ Forgets(Now)
      BY <3>1 DEF Forgets, Warm, Finds, At
    <3>5. QED
      BY <2>2, <3>1, <3>2, <3>3, <3>4 DEF Continues
  <2>12. CASE GetMethod
    <3> DEFINE f == IF Finds({"prop"}) THEN Property ELSE Fn(Now.v.n)
               t == <<f, Peek(0)>>
    <3>1. At("GET_ATTR") /\ Goes /\ stack' = Popped(1) \o t /\ offset' = 1
          /\ Finds({"method", "prop"}) /\ Now.x = 1
      BY <2>12 DEF GetMethod
    <3>2. Needs(Now) = 1 /\ Counts(Now) = 0
      BY <3>1 DEF At, Needs, Counts
    <3>3. IsOperand(f) /\ IsOperand(Peek(0))
      BY <2>2, <2>3, <3>2 DEF IsOperand, Iterable, Fn, Property, Peek
    <3>4. IsStack(stack') /\ Len(stack') = Height - 1 + 2
      <4>1. t \in Seq({f, Peek(0)}) /\ Len(t) = 2 /\ \A j \in DOMAIN t : IsOperand(t[j])
        BY <3>3
      <4>2. IsStack(Popped(1)) /\ Len(Popped(1)) = Height - 1
        BY <2>2, <2>4, <3>2
      <4> HIDE DEF t
      <4>3. QED
        BY <3>1, <4>1, <4>2, StackConcat
    <3>5. Forgets(Now)
      BY <3>1 DEF Forgets, Warm, Finds, At, Name
    <3>6. QED
      BY <2>2, <3>1, <3>2, <3>4, <3>5 DEF Continues, Forgets
  <2>13. CASE GetProperty
    <3> DEFINE t == <<Fn("getter"), Peek(0)>>
               s == Popped(1) \o t
    <3>1. At("GET_ATTR") /\ CallsWith(s, 1, NoMap) /\ Now.x = 0
      BY <2>13 DEF GetProperty
    <3>2. Needs(Now) = 1 /\ Counts(Now) = 0 /\ ~ Forgets(Now)
      BY <3>1 DEF At, Needs, Counts, Forgets, Warm
    <3>3. IsStack(s) /\ Len(s) = Height + 1
      <4>1. IsOperand(Fn("getter")) /\ IsOperand(Peek(0))
        BY <2>2, <2>3, <3>2 DEF IsOperand, Iterable, Fn, Peek
      <4>2. t \in Seq({Fn("getter"), Peek(0)}) /\ Len(t) = 2 /\ \A j \in DOMAIN t : IsOperand(t[j])
        BY <4>1
      <4>3. IsStack(Popped(1)) /\ Len(Popped(1)) = Height - 1
        BY <2>2, <2>4, <3>2
      <4> HIDE DEF t
      <4>4. QED
        <5>1. IsStack(s) /\ Len(s) = Height - 1 + 2
          BY <4>2, <4>3, StackConcat
        <5>2. QED
          BY <2>2, <5>1
    <3> HIDE DEF s
    <3>4. Len(s) > 1 + offset
      BY <2>2, <3>2, <3>3
    <3>5. offset' = 0 /\ IsStack(stack')
          /\ ((Goes /\ Len(stack') = Len(s) - 1 - offset) \/ Stops("raised"))
      BY <3>1, <3>3, <3>4, CallEffect
    <3>6. QED
      BY <2>2, <3>2, <3>3, <3>5 DEF Continues, Ends
  <2>14. CASE Unpack
    <3> DEFINE t == Elements(Peek(0))
    <3>1. At("UNPACK_ARG") /\ Goes /\ stack' = Popped(1) \o t /\ offset' = offset + Len(t)
          /\ Iterable(Peek(0))
      BY <2>14 DEF Unpack
    <3>2. Needs(Now) = 1 /\ Counts(Now) = -1 /\ Warm(Now) /\ ~ Forgets(Now)
      BY <3>1 DEF At, Needs, Counts, Forgets, Warm
    <3>3. t \in Seq(Literals)
      BY <2>2, <2>3, <3>1, <3>2 DEF IsOperand, Peek
    <3> HIDE DEF t
    <3>4. \A j \in DOMAIN t : IsOperand(t[j])
      BY <3>3, LiteralAssumption, ElementOfSeq, LenProperties DEF IsOperand
    <3>5. IsStack(Popped(1)) /\ Len(Popped(1)) = Height - 1
      BY <2>2, <2>4, <3>2
    <3>6. IsStack(stack') /\ Len(stack') = Height - 1 + Len(t) /\ Len(t) \in Nat
      BY <3>1, <3>3, <3>4, <3>5, StackConcat, LenProperties
    <3>7. offset' \in Nat /\ Len(stack') - offset' = Height + Counts(Now) - offset
      BY <2>2, <3>1, <3>2, <3>6
    <3>8. QED
      BY <3>1, <3>2, <3>6, <3>7 DEF Continues
  <2>15. CASE NewDict
    <3> DEFINE n == Now.n
               v == Dict(DictOf(SubSeq(stack, Height - 2 * n + 1, Height), n))
    <3>1. At("NEW_DICT") /\ Goes /\ stack' = Append(Popped(2 * n), v) /\ offset' = offset
      BY <2>15 DEF NewDict
    <3>2. Needs(Now) = 2 * n /\ Counts(Now) = 1 - 2 * n /\ ~ Forgets(Now) /\ Now.op # "CALL"
      BY <3>1 DEF At, Needs, Counts, Forgets, Warm
    <3>3. IsOperand(v)
      BY DEF IsOperand, Iterable, Dict
    <3> HIDE DEF v
    <3>4. n \in Nat /\ 2 * n \in 0..Height
      BY <2>2, <3>2
    <3>5. IsStack(stack') /\ Len(stack') = Height - 2 * n + 1
      BY <2>6, <3>1, <3>3, <3>4
    <3> HIDE DEF n
    <3>6. offset' \in Nat /\ Len(stack') - offset' = Height + Counts(Now) - offset
      BY <2>2, <3>1, <3>2, <3>4, <3>5
    <3>7. QED
      BY <3>1, <3>2, <3>5, <3>6 DEF Continues
  <2>16. CASE DictCombine
    <3> DEFINE v == Dict(Updated(Peek(1).map, Peek(0).map))
    <3>1. At("DICT_COMBINE") /\ Goes /\ stack' = Append(Popped(2), v) /\ offset' = offset
      BY <2>16 DEF DictCombine
    <3>2. Needs(Now) = 2 /\ Counts(Now) = -1 /\ ~ Forgets(Now) /\ Now.op # "CALL"
      BY <3>1 DEF At, Needs, Counts, Forgets, Warm
    <3>3. IsOperand(v)
      BY DEF IsOperand, Iterable, Dict
    <3> HIDE DEF v
    <3>4. IsStack(stack') /\ Len(stack') = Height - 2 + 1
      BY <2>2, <2>6, <3>1, <3>2, <3>3
    <3>5. QED
      BY <2>2, <3>1, <3>2, <3>4 DEF Continues
  <2>17. CASE CallPlain
    <3> DEFINE n == Now.n
    <3>1. At("CALL") /\ Now.x = 0 /\ CallsWith(stack, n, NoMap)
      BY <2>17 DEF CallPlain
    <3>2. Needs(Now) = 0 + n + 1 /\ Counts(Now) = 1 - (0 + n + 1) /\ ~ Forgets(Now)
      BY <3>1 DEF At, Needs, Counts, Forgets, Warm
    <3>3. n \in Nat /\ Len(stack) > n + offset /\ IsStack(stack)
      BY <2>2, <3>2 DEF Height, TypeOK
    <3>4. offset' = 0 /\ IsStack(stack')
          /\ ((Goes /\ Len(stack') = Len(stack) - n - offset) \/ Stops("raised"))
      BY <3>1, <3>3, CallEffect
    <3>5. CASE Stops("raised")
      BY <3>4, <3>5 DEF Ends
    <3>6. CASE Goes /\ Len(stack') = Len(stack) - n - offset
      <4> HIDE DEF n
      <4>1. Len(stack') = Height - n - offset
        BY <3>6 DEF Height
      <4>2. Len(stack') - offset' = Height + Counts(Now) - offset
        BY <2>2, <3>2, <3>3, <3>4, <4>1
      <4>3. QED
        BY <3>2, <3>4, <3>6, <4>2 DEF Continues
    <3>7. QED
      BY <3>4, <3>5, <3>6
  <2>18. CASE CallMapped
    <3> DEFINE n == Now.n
               s == Popped(1)
    <3>1. At("CALL") /\ Now.x = 1 /\ CallsWith(s, n, Peek(0).map)
      BY <2>18 DEF CallMapped
    <3>2. Needs(Now) = 1 + n + 1 /\ Counts(Now) = 1 - (1 + n + 1) /\ ~ Forgets(Now)
      BY <3>1 DEF At, Needs, Counts, Forgets, Warm
    <3>3. IsStack(s) /\ Len(s) = Height - 1
      BY <2>2, <2>4, <3>2
    <3> HIDE DEF s
    <3>4. n \in Nat /\ Len(s) > n + offset
      BY <2>2, <3>2, <3>3
    <3>5. offset' = 0 /\ IsStack(stack')
          /\ ((Goes /\ Len(stack') = Len(s) - n - offset) \/ Stops("raised"))
      BY <3>1, <3>3, <3>4, CallEffect
    <3>6. CASE Stops("raised")
      BY <3>5, <3>6 DEF Ends
    <3>7. CASE Goes /\ Len(stack') = Len(s) - n - offset
      <4> HIDE DEF n
      <4>1. Len(stack') - offset' = Height + Counts(Now) - offset
        BY <2>2, <3>2, <3>3, <3>4, <3>5, <3>7
      <4>2. QED
        BY <3>2, <3>5, <3>7, <4>1 DEF Continues
    <3>8. QED
      BY <3>5, <3>6, <3>7
  <2>19. CASE CallMisread
    <3>1. Stops("astray") /\ stack' = Popped(1) /\ offset' = 0 /\ Needs(Now) >= 1
      BY <2>2, <2>19 DEF CallMisread, At, Needs
    <3>2. 1 \in 0..Height
      BY <2>2, <3>1
    <3>3. IsStack(stack') /\ offset' \in Nat
      BY <2>4, <3>1, <3>2
    <3>4. QED
      BY <3>1, <3>3 DEF Ends
  <2>20. QED
    BY <1>2, <2>7, <2>8, <2>9, <2>10, <2>11, <2>12, <2>13, <2>14, <2>15, <2>16, <2>17, <2>18, <2>19
       DEF Step
<1>3. QED
  BY <1>1, <1>2
----------------------------------------------------------------------------
IInv == TypeOK /\ OperandsThere

LEMMA InitIInv == Init => IInv
<1> SUFFICES ASSUME Init PROVE IInv
  OBVIOUS
<1>1. IsProgram(Program[id])
  BY ProgramAssumption DEF Init
<1>2. Len(Code) \in Nat /\ Depth[0] = 0
  BY <1>1 DEF IsProgram, Code, Depth
<1>3. IsStack(<<>>) /\ Len(<<>>) = 0
  BY DEF IsStack
<1>4. QED
  BY <1>2, <1>3 DEF Init, IInv, TypeOK, OperandsThere, Height

LEMMA NextIInv == IInv /\ [Next]_vars => IInv'
<1> SUFFICES ASSUME IInv, [Next]_vars PROVE IInv'
  OBVIOUS
<1>1. CASE UNCHANGED vars
  BY <1>1 DEF vars, IInv, TypeOK, OperandsThere, Height, Depth, Code
<1>2. CASE Continues
  <2>1. /\ status' = "run" /\ id' = id /\ pc' = pc + 1 /\ Code' = Code /\ Depth' = Depth
    BY <1>2 DEF Continues, Goes, Code, Depth
  <2>2. /\ Len(Code) \in Nat /\ pc + 1 \in 0..Len(Code)
        /\ Depth[pc + 1] = Depth[pc] + Counts(Now) /\ Depth[pc] \in Nat /\ Depth[pc + 1] \in Nat
        /\ Height \in Nat /\ offset \in Nat /\ Height >= Depth[pc] + offset
    BY <1>2, Here DEF Continues, IInv
  <2>3. TypeOK'
    BY <1>2, <2>1, <2>2 DEF Continues, IInv, TypeOK
  <2>4. /\ Len(stack') \in Nat /\ offset' \in Nat
        /\ Len(stack') - offset' = Height + Counts(Now) - IF Forgets(Now) THEN 0 ELSE offset
    BY <1>2, LenProperties DEF Continues, IsStack
  <2>5. Counts(Now) \in Int
    BY <1>2, Here, EffectSize DEF Continues, IInv
  <2>6. Len(stack') >= Depth[pc + 1] + offset'
    <3>1. Len(stack') - offset' >= Height + Counts(Now) - offset
      BY <2>2, <2>4, <2>5
    <3>2. Height + Counts(Now) - offset >= Depth[pc + 1]
      BY <2>2, <2>5
    <3>3. Len(stack') - offset' >= Depth[pc + 1]
      BY <2>2, <2>4, <2>5, <3>1, <3>2, SMTT(30)
    <3>4. QED
      BY <2>2, <2>4, <3>3
  <2>7. QED
    BY <2>1, <2>3, <2>6 DEF IInv, OperandsThere, Height
<1>3. CASE Ends
  BY <1>3 DEF Ends, Stops, IInv, TypeOK, OperandsThere, Code
<1>4. CASE End
  BY <1>4 DEF End, Stops, IInv, TypeOK, OperandsThere, Code
<1>5. QED
  BY <1>1, <1>2, <1>3, <1>4, StepEffect DEF IInv, Next

(* No instruction of any program pops an operand that is not there, nor    *)
(* does a BC_CALL with what params_offset adds (vm.c:487-709, 863-890).    *)
THEOREM Invariance == Spec => [](TypeOK /\ OperandsThere)
<1>1. QED
  BY InitIInv, NextIInv, PTL DEF Spec, IInv
----------------------------------------------------------------------------
(* The discipline says where uncounted operands may be waiting.            *)
LEMMA HotAfter ==
    ASSUME IInv, status = "run", pc < Len(Code), Disciplined(Program[id])
    PROVE  /\ Forgets(Now) => Hot[pc] = 0
           /\ Hot[pc + 1] = 0 => ~ Warm(Now) /\ (Now.op = "CALL" \/ Hot[pc] = 0)
<1> DEFINE p == Program[id]
<1>1. /\ pc \in 0 .. Len(p.code) - 1
      /\ Now = p.code[pc + 1] /\ Depth = p.depth /\ Hot = p.hot
      /\ Now.op = "GET_ATTR" => Depth[pc] >= 1
      /\ Depth[pc] \in Nat /\ IsInstruction(Now)
  BY Here, SMTT(30) DEF IInv, Code, Now, Depth, Hot, Needs
<1>2. CASE Now.op = "CALL"
  BY <1>2 DEF Forgets, Warm
<1>3. CASE Now.op = "UNPACK_ARG"
  <2>1. Hot[pc + 1] \in 1 .. Depth[pc + 1]
    BY <1>1, <1>3 DEF Disciplined
  <2>2. QED
    BY <1>3, <2>1 DEF Forgets, Warm
<1>4. CASE Now.op = "GET_ATTR" /\ (Now.x = 1 \/ Now.v = Name("prop"))
  <2>1. /\ Hot[pc] = 0
        /\ Hot[pc + 1] = IF Now.x = 1 /\ Now.v # Name("own") /\ Now.v # Name("nothing")
                          THEN Depth[pc] ELSE 0
    BY <1>1, <1>4 DEF Disciplined
  <2>2. QED
    BY <1>1, <1>4, <2>1 DEF Forgets, Warm
<1>5. CASE /\ Now.op # "CALL" /\ Now.op # "UNPACK_ARG"
           /\ ~ (Now.op = "GET_ATTR" /\ (Now.x = 1 \/ Now.v = Name("prop")))
  <2>1. Hot[pc + 1] = Hot[pc]
    BY <1>1, <1>5 DEF Disciplined
  <2>2. QED
    BY <1>5, <2>1 DEF Forgets, Warm
<1>6. QED
  BY <1>2, <1>3, <1>4, <1>5

LEMMA NextCounted == IInv /\ HeightCounted /\ [Next]_vars => HeightCounted'
<1> SUFFICES ASSUME IInv, HeightCounted, [Next]_vars, Disciplined(Program[id'])
             PROVE  /\ status' \in {"run", "done"} => Height' = Depth'[pc'] + offset'
                    /\ status' \in {"run", "done"} /\ Hot'[pc'] = 0 => offset' = 0
                    /\ status' = "done" => Height' = 1
  BY DEF HeightCounted
<1>1. CASE UNCHANGED vars
  BY <1>1 DEF vars, HeightCounted, Height, Depth, Hot
<1>2. CASE Continues
  <2>1. /\ status = "run" /\ pc < Len(Code) /\ status' = "run" /\ id' = id /\ pc' = pc + 1
        /\ Hot' = Hot /\ Depth' = Depth /\ Disciplined(Program[id])
    BY <1>2 DEF Continues, Goes, Hot, Depth
  <2>2. /\ Depth[pc + 1] = Depth[pc] + Counts(Now) /\ Depth[pc] \in Nat /\ Depth[pc + 1] \in Nat
        /\ Height \in Nat /\ offset \in Nat
    BY <2>1, Here DEF IInv
  <2>3. Counts(Now) \in Int
    BY <2>1, Here, EffectSize DEF IInv
  <2>4. Height = Depth[pc] + offset /\ (Hot[pc] = 0 => offset = 0)
    BY <2>1 DEF HeightCounted
  <2>5. /\ Forgets(Now) => Hot[pc] = 0
        /\ Hot[pc + 1] = 0 => ~ Warm(Now) /\ (Now.op = "CALL" \/ Hot[pc] = 0)
    BY <2>1, HotAfter
  <2>6. /\ Len(stack') \in Nat /\ offset' \in Nat
        /\ Len(stack') - offset' = Height + Counts(Now) - IF Forgets(Now) THEN 0 ELSE offset
        /\ offset' = 0 \/ Warm(Now) \/ (offset' = offset /\ Now.op # "CALL")
    BY <1>2, LenProperties DEF Continues, IsStack
  <2>7. Len(stack') - offset' = Height + Counts(Now) - offset
    BY <2>2, <2>3, <2>4, <2>5, <2>6
  <2>8. Len(stack') = Depth[pc + 1] + offset'
    <3>1. Height + Counts(Now) - offset = Depth[pc + 1]
      BY <2>2, <2>3, <2>4
    <3>2. Len(stack') - offset' = Depth[pc + 1]
      BY <2>7, <3>1
    <3>3. QED
      BY <2>2, <2>6, <3>2
  <2>9. Hot[pc + 1] = 0 => offset' = 0
    BY <2>4, <2>5, <2>6
  <2>10. QED
    BY <2>1, <2>8, <2>9 DEF Height
<1>3. CASE Ends
  BY <1>3 DEF Ends, Stops
<1>4. CASE End
  <2>1. /\ status = "run" /\ pc = Len(Code) /\ UNCHANGED <<id, pc, stack, offset>>
        /\ Disciplined(Program[id])
    BY <1>4 DEF End, Stops
  <2>2. /\ Height = Depth[pc] + offset /\ (Hot[pc] = 0 => offset = 0)
    BY <2>1 DEF HeightCounted
  <2>3. Hot[pc] = 0
    BY <2>1 DEF Disciplined, Hot, Code
  <2>4. Depth[pc] = 1
    <3>1. IsProgram(Program[id])
      BY ProgramAssumption DEF IInv, TypeOK
    <3>2. QED
      BY <2>1, <3>1 DEF IsProgram, Depth, Code
  <2>5. QED
    BY <2>1, <2>2, <2>3, <2>4 DEF Height, Depth, Hot
<1>5. QED
  BY <1>1, <1>2, <1>3, <1>4, StepEffect DEF IInv, Next

(* In disciplined code a BC_CALL finds its callee where the parser counted *)
(* it, and params_offset is spent at the end (vm.c:667-671).               *)
THEOREM Counted == Spec => []HeightCounted
<1>1. Init => HeightCounted
  <2> SUFFICES ASSUME Init PROVE HeightCounted
    OBVIOUS
  <2>1. IsProgram(Program[id])
    BY ProgramAssumption DEF Init
  <2>2. Depth[0] = 0 /\ Len(<<>>) = 0
    BY <2>1 DEF IsProgram, Depth
  <2>3. QED
    BY <2>2 DEF Init, HeightCounted, Height
<1>2. QED
  BY <1>1, InitIInv, NextIInv, NextCounted, PTL DEF Spec
=============================================================================
