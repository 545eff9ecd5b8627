------------------------ MODULE PyLiteBinding_proofs ------------------------
(***************************************************************************)
(* BC_CALL binds the parameters as the call means, for every signature,    *)
(* every number of arguments and every mapping of keywords, wherever the   *)
(* operand stack moves while it grows.                                     *)
(***************************************************************************)
EXTENDS PyLiteBinding, SequenceTheorems, TLAPS

LEMMA Listed ==
    ASSUME NEW S, NEW n \in Nat, NEW f \in [1..n -> S]
    PROVE  f \in Seq(S) /\ Len(f) = n
<1>1. f \in Seq(S)
  BY SeqDef
<1>2. QED
  BY <1>1, LenProperties

(* What does not change during a call: the definitions that read it mean   *)
(* the same after a step.                                                  *)
LEMMA CallStays ==
    ASSUME UNCHANGED call
    PROVE  /\ params' = params /\ plain' = plain /\ below' = below /\ given' = given
           /\ mapping' = mapping /\ hasKw' = hasKw
           /\ Base' = Base /\ Length' = Length /\ Passed' = Passed
           /\ \A k : After(k)' <=> After(k)
           /\ \A k : Filled(k)' <=> Filled(k)
           /\ \A k : Given(k)' <=> Given(k)
           /\ \A k : Expected(k)' = Expected(k)
           /\ Admissible' <=> Admissible
           /\ CallMade' <=> CallMade
<1>1. /\ params' = params /\ plain' = plain /\ below' = below /\ given' = given
      /\ mapping' = mapping /\ hasKw' = hasKw
  BY DEF call
<1>2. Base' = Base /\ Length' = Length /\ Passed' = Passed
  BY <1>1 DEF Base, Length, Passed
<1>3. \A k : (After(k)' <=> After(k)) /\ (Filled(k)' <=> Filled(k))
  BY <1>1, <1>2 DEF After, Filled
<1>4. \A k : Given(k)' <=> Given(k)
  BY <1>1, <1>3 DEF Given
<1>5. \A k : Expected(k)' = Expected(k)
  BY <1>1, <1>2, <1>3 DEF Expected
<1>6. Admissible' <=> Admissible
  BY <1>1, <1>2, <1>3, <1>4, <1>5 DEF Admissible
<1>7. CallMade' <=> CallMade
  BY <1>1, <1>2 DEF CallMade, Signature
<1>8. QED
  BY <1>1, <1>2, <1>3, <1>4, <1>5, <1>6, <1>7

LEMMA Sizes ==
    ASSUME TypeOK
    PROVE  /\ Base \in Nat /\ Length \in Nat /\ Height \in Nat
           /\ Passed \in Seq(Objects) /\ Len(Passed) \in Nat
           /\ Len(Passed) = IF plain THEN Len(given) ELSE Len(given) + 1
           /\ Len(given) \in Nat
           /\ \A k \in 1..Length : params[k] \in Param
<1>1. Base \in Nat /\ Length \in Nat /\ Height \in Nat /\ Len(given) \in Nat
  BY LenProperties DEF TypeOK, Base, Length, Height
<1>2. \A k \in 1..Length : params[k] \in Param
  BY ElementOfSeq DEF TypeOK, Length
<1>3. given \in Seq(Objects) /\ <<Callee>> \in Seq(Objects) /\ Len(<<Callee>>) = 1
  BY BindingAssumption DEF TypeOK
<1>4. /\ <<Callee>> \o given \in Seq(Objects)
      /\ Len(<<Callee>> \o given) = Len(given) + 1
  BY <1>1, <1>3, ConcatProperties
<1>5. Passed \in Seq(Objects)
  BY <1>3, <1>4 DEF Passed
<1>6. Len(Passed) = IF plain THEN Len(given) ELSE Len(given) + 1
  BY <1>4 DEF Passed
<1>7. QED
  BY <1>1, <1>2, <1>5, <1>6

LEMMA PassedIs ==
    ASSUME TypeOK, NEW k \in 1 .. Len(Passed)
    PROVE  /\ plain => Passed[k] = given[k]
           /\ ~ plain => Passed[k] = IF k = 1 THEN Callee ELSE given[k - 1]
<1>1. given \in Seq(Objects) /\ <<Callee>> \in Seq(Objects) /\ Len(<<Callee>>) = 1
  BY BindingAssumption DEF TypeOK
<1>2. CASE plain
  BY <1>2 DEF Passed
<1>3. CASE ~ plain
  <2>1. k \in 1 .. 1 + Len(given)
    BY <1>3, Sizes
  <2>2. (<<Callee>> \o given)[k] = IF k <= 1 THEN <<Callee>>[k] ELSE given[k - 1]
    BY <1>1, <2>1, ConcatProperties
  <2>3. QED
    BY <1>3, <2>1, <2>2, Sizes DEF Passed
<1>4. QED
  BY <1>2, <1>3

(* What a parameter is meant to get is something that a slot can hold.     *)
LEMMA ExpectedType ==
    ASSUME TypeOK, NEW k \in 1..Length, Given(k)
    PROVE  Expected(k) \in Cell
<1>1. params[k] \in Param /\ params[k].name \in Names
  BY Sizes DEF Param
<1>2. Length \in Nat /\ Len(Passed) \in Nat /\ Passed \in Seq(Objects)
  BY Sizes
<1>3. CASE params[k].kind = "rest"
  <2> DEFINE f == [j \in 1 .. Len(Passed) - k + 1 |-> Passed[k - 1 + j]]
  <2>1. ASSUME NEW j \in 1 .. Len(Passed) - k + 1
        PROVE  Passed[k - 1 + j] \in Objects \cup {Garbage}
    <3>1. k - 1 + j \in 1 .. Len(Passed)
      BY <1>2
    <3>2. QED
      BY <1>2, <3>1, ElementOfSeq
  <2>2. f \in Seq(Objects \cup {Garbage})
    <3>1. CASE Len(Passed) - k + 1 \in Nat
      <4>1. f \in [1 .. Len(Passed) - k + 1 -> Objects \cup {Garbage}]
        BY <2>1
      <4>2. QED
        BY <3>1, <4>1, Listed
    <3>2. CASE Len(Passed) - k + 1 \notin Nat
      <4>1. 1 .. Len(Passed) - k + 1 = 1 .. 0
        BY <1>2, <3>2
      <4>2. f \in [1 .. 0 -> Objects \cup {Garbage}]
        BY <2>1, <4>1
      <4>3. QED
        BY <4>2, Listed
    <3>3. QED
      BY <3>1, <3>2
  <2>3. Expected(k) = [rest |-> f]
    BY <1>3 DEF Expected, Tuple
  <2>4. QED
    BY <2>2, <2>3 DEF Cell
<1>4. CASE params[k].kind # "rest" /\ Filled(k)
  <2>1. k \in 1 .. Len(Passed) /\ Expected(k) = Passed[k]
    BY <1>2, <1>4 DEF Filled, Expected
  <2>2. QED
    BY <1>2, <2>1, ElementOfSeq DEF Cell
<1>5. CASE params[k].kind # "rest" /\ ~ Filled(k) /\ params[k].name \in DOMAIN mapping
  <2>1. mapping[params[k].name] \in Objects
    BY <1>5 DEF TypeOK, Named
  <2>2. QED
    BY <1>5, <2>1 DEF Expected, Cell
<1>6. CASE params[k].kind # "rest" /\ ~ Filled(k) /\ params[k].name \notin DOMAIN mapping
  BY <1>1, <1>6 DEF Expected, Cell, DefaultOf
<1>7. QED
  BY <1>3, <1>4, <1>5, <1>6

(* In front of *args a parameter gets the argument at its place.           *)
LEMMA Positional ==
    ASSUME TypeOK, NEW n \in 0..Length, ~ After(n), n <= Len(Passed), NEW k \in 1..n
    PROVE  Given(k) /\ Expected(k) = Passed[k] /\ ~ After(k)
<1>1. Length \in Nat /\ Len(Passed) \in Nat
  BY Sizes
<1>2. ~ After(k) /\ params[k].kind # "rest" /\ k <= Len(Passed)
  BY <1>1 DEF After
<1>3. QED
  BY <1>2 DEF Given, Expected, Filled
----------------------------------------------------------------------------
LEMMA InitIInv == Init => IInv
<1> SUFFICES ASSUME Init PROVE IInv
  OBVIOUS
<1>1. ASSUME NEW S, NEW n \in Nat, NEW s \in UpTo(S, n) PROVE s \in Seq(S)
  <2>1. PICK k \in 0..n : s \in [1..k -> S]
    BY DEF UpTo
  <2>2. QED
    BY <2>1, Listed
<1>2. params \in Seq(Param) /\ below \in Seq(Objects) /\ given \in Seq(Objects)
  BY <1>1, BindingAssumption DEF Init
<1>3. Base \in Nat /\ Len(given) \in Nat
  BY <1>2, LenProperties DEF Base
<1>4. /\ stack = below \o <<Callee>> \o given
      /\ below \o <<Callee>> \in Seq(Objects) /\ Len(below \o <<Callee>>) = Base + 1
      /\ \A k \in 1..Base : (below \o <<Callee>>)[k] = below[k]
      /\ (below \o <<Callee>>)[Base + 1] = Callee
  <2>1. <<Callee>> \in Seq(Objects) /\ Len(<<Callee>>) = 1 /\ <<Callee>>[1] = Callee
    BY BindingAssumption
  <2>2. QED
    BY <1>2, <1>3, <2>1, ConcatProperties DEF Init, Base
<1>5. /\ stack \in Seq(Objects) /\ Height = Base + 1 + Len(given)
      /\ \A k \in 1 .. Base + 1 : stack[k] = (below \o <<Callee>>)[k]
      /\ \A k \in 1 .. Len(given) : stack[Base + 1 + k] = given[k]
  <2> DEFINE s == below \o <<Callee>>
  <2>1. s \in Seq(Objects) /\ Len(s) = Base + 1 /\ stack = s \o given
    BY <1>4
  <2> HIDE DEF s
  <2>2. /\ stack \in Seq(Objects) /\ Len(stack) = Base + 1 + Len(given)
        /\ \A k \in 1 .. Base + 1 + Len(given) :
              stack[k] = IF k <= Base + 1 THEN s[k] ELSE given[k - (Base + 1)]
    BY <1>2, <2>1, ConcatProperties
  <2>3. ASSUME NEW k \in 1 .. Len(given) PROVE stack[Base + 1 + k] = given[k]
    <3>1. PICK j \in 1 .. Base + 1 + Len(given) :
             j = Base + 1 + k /\ ~ (j <= Base + 1) /\ j - (Base + 1) = k
      BY <1>3
    <3>2. stack[j] = given[j - (Base + 1)]
      BY <2>2, <3>1
    <3>3. QED
      BY <3>1, <3>2
  <2>4. \A k \in 1 .. Base + 1 : stack[k] = s[k]
    BY <1>3, <2>2
  <2>5. QED
    BY <2>2, <2>3, <2>4 DEF Height, s
<1>6. stack \in Seq(Cell)
  BY <1>5, SeqMonotonic, Objects \subseteq Cell DEF Cell
<1>7. TypeOK
  <2>1. mapping \in Named(Names) /\ kwargs = mapping /\ locals = <<>>
    BY DEF Init
  <2>2. locals \in [DOMAIN locals -> Cell]
    BY <2>1
  <2>3. QED
    BY <1>2, <1>3, <1>6, <2>1, <2>2 DEF TypeOK, Init
<1>8. CallMade
  BY DEF CallMade, Init
<1>9. CallerKept /\ CallerUntouched
  BY <1>3, <1>4, <1>5 DEF CallerKept, CallerUntouched, Init
<1>10. Entered
  BY <1>5 DEF Entered, Operands, Init
<1>11. QED
  BY <1>7, <1>8, <1>9, <1>10 DEF IInv, BindsAsMeant, Init
----------------------------------------------------------------------------
LEMMA Untouched ==
    ASSUME TypeOK', CallerKept', pc' # "bound"
    PROVE  CallerUntouched'
<1>1. Len(stack') \in Nat /\ Len(below') \in Nat
  BY LenProperties DEF TypeOK
<1>2. QED
  BY <1>1 DEF CallerKept, CallerUntouched, Height, Base

(* A step that leaves the stack alone, and the mapping.                    *)
LEMMA Quietly ==
    ASSUME IInv, UNCHANGED call,
           UNCHANGED <<stack, kwargs, locals, buf>>,
           pc \notin {"bound", "refused"}, pc' # "bound",
           pc' \in {"check", "loop", "types", "ready", "refused"},
           args' \in Nat, i' \in Nat, argsI' \in Nat, num' = num
    PROVE  TypeOK' /\ CallMade' /\ CallerKept' /\ CallerUntouched'
<1>1. TypeOK'
  BY CallStays DEF IInv, TypeOK
<1>2. CallerKept /\ CallMade
  BY DEF IInv
<1>3. CallerKept'
  BY <1>2, CallStays DEF CallerKept, Height
<1>4. QED
  BY <1>1, <1>2, <1>3, CallStays, Untouched

(* A refusal is right when the call has no meaning.                        *)
LEMMA Refused ==
    ASSUME IInv, UNCHANGED call, Refuse, pc \notin {"bound", "refused"}, ~ Admissible
    PROVE  IInv'
<1>1. TypeOK' /\ CallMade' /\ CallerKept' /\ CallerUntouched'
  BY Quietly DEF Refuse, IInv, TypeOK
<1>2. BindsAsMeant'
  BY CallStays DEF BindsAsMeant, Refuse
<1>3. QED
  BY <1>1, <1>2 DEF IInv, Refuse

LEMMA EnterStep == ASSUME IInv, Enter PROVE IInv'
<1>1. /\ UNCHANGED call /\ pc = "enter" /\ pc' = "check"
      /\ UNCHANGED <<args, kwargs, i, argsI, locals>>
      /\ TypeOK /\ CallMade /\ CallerKept /\ Entered
  BY DEF Enter, At, IInv
<1>2. /\ Base \in Nat /\ Height \in Nat /\ Len(given) \in Nat /\ Callee \in Cell
      /\ Len(Passed) = IF plain THEN Len(given) ELSE Len(given) + 1
      /\ Height = Base + 1 + Len(given) /\ num = Len(given)
      /\ \A k \in 1 .. Len(given) : stack[Base + 1 + k] = given[k]
  BY <1>1, Sizes, BindingAssumption DEF Entered, Operands, Cell
<1>3. TypeOK' /\ CallerKept' /\ Checked'
  <2>1. CASE plain
    <3>1. stack' = stack /\ buf' = buf /\ num' = num /\ Height' = Height
      BY <2>1 DEF Enter, Height
    <3>2. TypeOK' /\ CallerKept'
      BY <1>1, <3>1, CallStays DEF TypeOK, CallerKept
    <3>3. Passed = given
      BY <2>1 DEF Passed
    <3>4. QED
      BY <1>1, <3>1, <3>2, <3>3, CallStays DEF Checked, Entered, Operands
  <2>2. CASE ~ plain
    <3> DEFINE s == [k \in 1 .. Height + 1 |->
                        IF k <= Height - num THEN stack[k]
                        ELSE IF k = Height - num + 1 THEN Callee ELSE stack[k - 1]]
    <3>1. stack' = s /\ buf' \in {buf, buf + 1} /\ num' = num + 1
      BY <2>2 DEF Enter
    <3>2. stack \in Seq(Cell) /\ \A k \in 1 .. Height : stack[k] \in Cell
      BY <1>1, ElementOfSeq DEF TypeOK, Height
    <3>3. s \in [1 .. Height + 1 -> Cell]
      BY <1>2, <3>2
    <3>4. stack' \in Seq(Cell) /\ Height' = Height + 1
      <4>1. Height + 1 \in Nat
        BY <1>2
      <4> HIDE DEF s
      <4>2. s \in Seq(Cell) /\ Len(s) = Height + 1
        BY <3>3, <4>1, Listed
      <4>3. QED
        BY <3>1, <4>2 DEF Height
    <3>5. TypeOK'
      BY <1>1, <3>1, <3>4, CallStays DEF TypeOK
    <3>6. \A k \in 1 .. Base + 1 : stack'[k] = stack[k]
      BY <1>2, <3>1
    <3>7. CallerKept'
      BY <1>1, <1>2, <3>4, <3>6, CallStays DEF CallerKept
    <3>8. ASSUME NEW k \in 1 .. Len(Passed) PROVE stack'[Base + 1 + k] = Passed[k]
      <4>1. stack'[Base + 1 + k] = IF k = 1 THEN Callee ELSE stack[Base + 1 + (k - 1)]
        <5>1. PICK m \in 1 .. Height + 1 :
                 /\ m = Base + 1 + k /\ m - 1 = Base + 1 + (k - 1)
                 /\ ~ (m <= Height - num) /\ (m = Height - num + 1 <=> k = 1)
          BY <1>2, <2>2
        <5>2. s[m] = IF m = Height - num + 1 THEN Callee ELSE stack[m - 1]
          BY <5>1
        <5>3. QED
          BY <3>1, <5>1, <5>2
      <4>2. k # 1 => stack[Base + 1 + (k - 1)] = given[k - 1]
        BY <1>2, <2>2
      <4>3. QED
        BY <1>1, <2>2, <4>1, <4>2, PassedIs
    <3>9. Operands(Passed)'
      <4>1. Base' = Base /\ Passed' = Passed
        BY <1>1, CallStays
      <4>2. Height' = Base + 1 + Len(Passed)
        BY <1>2, <2>2, <3>4
      <4>3. QED
        BY <3>8, <4>1, <4>2 DEF Operands
    <3>10. num' = Len(Passed') /\ i' = 0 /\ argsI' = 0 /\ kwargs' = mapping'
      BY <1>1, <1>2, <2>2, <3>1, CallStays DEF Entered
    <3>11. QED
      BY <3>5, <3>7, <3>9, <3>10 DEF Checked
  <2>3. QED
    BY <2>1, <2>2
<1>4. CallerUntouched'
  BY <1>1, <1>3, Untouched
<1>5. QED
  BY <1>1, <1>3, <1>4, CallStays DEF IInv, BindsAsMeant
----------------------------------------------------------------------------
LEMMA CheckSimpleStep == ASSUME IInv, CheckSimple PROVE IInv'
<1>1. /\ UNCHANGED call /\ pc = "check" /\ Simple /\ Checked /\ CallMade /\ CallerKept
      /\ TypeOK
  BY DEF CheckSimple, At, IInv
<1>2. /\ Length \in Nat /\ Base \in Nat /\ Height \in Nat /\ Len(Passed) \in Nat
      /\ num = Len(Passed) /\ Operands(Passed)
  BY <1>1, Sizes DEF Checked
<1>3. /\ DOMAIN mapping = {}
      /\ \A k \in 1..Length : params[k].kind = "required"
  BY <1>1 DEF Simple, CallMade
<1>4. \A k \in 0..Length : ~ After(k)
  BY <1>2, <1>3 DEF After
<1>5. CASE num = Length /\ pc' = "types"
           /\ UNCHANGED <<stack, buf, args, kwargs, i, argsI, num, locals>>
  <2>1. TypeOK' /\ CallMade' /\ CallerKept' /\ CallerUntouched'
    BY <1>1, <1>5, Quietly DEF TypeOK
  <2>2. ASSUME NEW k \in 1..Length
        PROVE  Given(k) /\ stack[Base + 1 + k] = Expected(k)
    <3>1. Given(k) /\ Expected(k) = Passed[k]
      BY <1>1, <1>2, <1>4, <1>5, Positional
    <3>2. QED
      BY <1>2, <1>5, <3>1 DEF Operands
  <2>3. Complete
    BY <1>2, <1>5, <2>2 DEF Complete, Operands
  <2>4. Complete'
    BY <1>1, <1>5, <2>3, CallStays DEF Complete, Height
  <2>5. QED
    BY <1>5, <2>1, <2>4 DEF IInv, BindsAsMeant
<1>6. CASE num # Length /\ Refuse
  <2>1. ~ Admissible
    <3>1. CASE Len(Passed) < Length
      <4>1. Length \in 1..Length /\ ~ Filled(Length)
        BY <1>2, <3>1 DEF Filled
      <4>2. ~ Given(Length)
        BY <1>3, <4>1 DEF Given
      <4>3. QED
        BY <4>1, <4>2 DEF Admissible
    <3>2. CASE Len(Passed) > Length
      BY <1>2, <1>4, <3>2 DEF Admissible
    <3>3. QED
      BY <1>2, <1>6, <3>1, <3>2
  <2>2. QED
    BY <1>1, <1>6, <2>1, Refused
<1>7. QED
  BY <1>5, <1>6 DEF CheckSimple

LEMMA CheckParamsStep == ASSUME IInv, CheckParams PROVE IInv'
<1>1. /\ UNCHANGED call /\ pc = "check" /\ pc' = "loop" /\ args' = buf
      /\ UNCHANGED <<stack, buf, kwargs, i, argsI, num, locals>>
      /\ Checked /\ TypeOK
  BY DEF CheckParams, At, IInv
<1>2. TypeOK' /\ CallMade' /\ CallerKept' /\ CallerUntouched'
  BY <1>1, Quietly DEF TypeOK
<1>3. /\ Length \in Nat /\ Len(Passed) \in Nat /\ num = Len(Passed) /\ i = 0 /\ argsI = 0
      /\ kwargs = mapping /\ Operands(Passed) /\ ~ After(0)
  BY <1>1, Sizes DEF Checked, After
<1>4. 1 .. 0 = {} /\ Left' = Left /\ Height' = Height /\ Operands(Passed)' = Operands(Passed)
  BY <1>1, CallStays DEF Left, Height, Operands
<1>5. ~ Left => num = 0 /\ Height = Base + 1
  BY <1>1, <1>3, Sizes DEF Left, Operands
<1>6. Filling'
  <2>1. i' = 0 /\ argsI' = 0 /\ num' = num /\ kwargs' = mapping /\ args' = buf'
    BY <1>1, <1>3
  <2>2. /\ Base' = Base /\ Length' = Length /\ Passed' = Passed /\ mapping' = mapping
        /\ params' = params /\ ~ After(0)'
    BY <1>1, <1>3, CallStays
  <2>3. i' <= Length' /\ argsI' <= num' /\ num' = Len(Passed')
    BY <1>3, <2>1, <2>2
  <2>4. ~ Left' => Height' = Base' + 1 + i' /\ num' <= i' /\ 1 .. i' = {}
    BY <1>3, <1>4, <1>5, <2>1, <2>2, Sizes, <1>1
  <2>5. Left' => Operands(Passed)'
    BY <1>3, <1>4
  <2>6. QED
    BY <2>1, <2>2, <2>3, <2>4, <2>5 DEF Filling
<1>7. QED
  BY <1>1, <1>2, <1>6 DEF IInv, BindsAsMeant
----------------------------------------------------------------------------
(* What holds while the loop runs, and what is known of the parameter that *)
(* has its turn.                                                           *)
LEMMA InLoop ==
    ASSUME IInv, pc = "loop"
    PROVE  /\ TypeOK /\ CallMade /\ CallerKept /\ Filling
           /\ Length \in Nat /\ Base \in Nat /\ Height \in Nat /\ Len(Passed) \in Nat
           /\ i \in Nat /\ argsI \in Nat /\ num \in Nat /\ i <= Length
<1>1. TypeOK /\ CallMade /\ CallerKept /\ Filling
  BY DEF IInv
<1>2. QED
  BY <1>1, Sizes DEF TypeOK, Filling

LEMMA NextParam ==
    ASSUME IInv, pc = "loop", i < Length
    PROVE  /\ i + 1 \in 1..Length /\ This = params[i + 1] /\ This \in Param
           /\ ~ Left => ~ Filled(i + 1)
           /\ (This.name \in DOMAIN kwargs) <=> (This.name \in DOMAIN mapping)
           /\ This.name \in DOMAIN mapping => kwargs[This.name] = mapping[This.name]
<1>1. i + 1 \in 1..Length /\ i + 1 \in i + 1 .. Length
  BY InLoop
<1>2. ASSUME Filled(i + 1), ~ Left PROVE FALSE
  <2>1. ~ After(i + 1) /\ i + 1 <= Len(Passed)
    BY <1>2 DEF Filled
  <2>2. ~ After(i)
    BY <2>1, InLoop DEF After
  <2>3. num = Len(Passed) /\ num <= i
    BY <1>2, <2>2, InLoop DEF Filling
  <2>4. QED
    BY <2>1, <2>3, InLoop
<1>3. This = params[i + 1] /\ This \in Param
  BY <1>1, InLoop, Sizes DEF This
<1>4. QED
  BY <1>1, <1>2, <1>3, InLoop DEF Filling

(* A step that pushes what the next parameter is meant to get.             *)
LEMMA Pushed ==
    ASSUME IInv, pc = "loop", i < Length, ~ Left, UNCHANGED call,
           i' = i + 1, UNCHANGED <<pc, args, locals, argsI, num>>,
           NEW x \in Cell, Push(x), Given(i + 1), x = Expected(i + 1),
           kwargs' \in Named(Names),
           \A k \in i + 2 .. Length :
              /\ (params[k].name \in DOMAIN kwargs') <=> (params[k].name \in DOMAIN kwargs)
              /\ params[k].name \in DOMAIN kwargs' =>
                    kwargs'[params[k].name] = kwargs[params[k].name]
    PROVE  IInv'
<1>1. stack \in Seq(Cell) /\ Height = Base + 1 + i
  BY InLoop DEF TypeOK, Filling
<1>2. /\ stack' \in Seq(Cell) /\ Height' = Height + 1 /\ buf' \in Nat
      /\ \A k \in 1 .. Height : stack'[k] = stack[k]
      /\ stack'[Height + 1] = x
  <2>1. Height = Len(stack) /\ Height' = Len(stack') /\ buf \in Nat
    BY InLoop DEF Height, TypeOK
  <2>2. stack' = Append(stack, x) /\ buf' \in {buf, buf + 1}
    BY DEF Push
  <2>3. QED
    BY <1>1, <2>1, <2>2, AppendProperties
<1>3. TypeOK'
  <2>1. TypeOK /\ i' \in Nat
    BY InLoop
  <2>2. /\ params' = params /\ plain' = plain /\ below' = below /\ given' = given
        /\ mapping' = mapping /\ hasKw' = hasKw
    BY CallStays
  <2>3. QED
    BY <1>2, <2>1, <2>2 DEF TypeOK
<1>4. CallerKept'
  <2>1. Base + 1 \in 1 .. Height /\ \A k \in 1..Base : k \in 1 .. Height
    BY <1>1, InLoop
  <2>2. Base + 1 <= Height + 1
    BY <1>1, InLoop
  <2>3. below' = below /\ Base' = Base
    BY CallStays
  <2>4. QED
    BY <1>2, <2>1, <2>2, <2>3, InLoop DEF CallerKept
<1>5. ASSUME NEW k \in 1 .. i + 1
      PROVE  Given(k) /\ stack'[Base + 1 + k] = Expected(k)
  <2>1. CASE k = i + 1
    <3>1. Base + 1 + k = Height + 1
      BY <1>1, <2>1, InLoop
    <3>2. QED
      BY <1>2, <2>1, <3>1
  <2>2. CASE k # i + 1
    <3>1. k \in 1..i /\ Base + 1 + k \in 1 .. Height
      BY <1>1, <2>2, InLoop, SMTT(30)
    <3>2. Given(k) /\ stack[Base + 1 + k] = Expected(k)
      BY <3>1, InLoop DEF Filling
    <3>3. QED
      BY <1>2, <3>1, <3>2
  <2>3. QED
    BY <2>1, <2>2
<1>6. After(i + 1) \/ (num = Len(Passed) /\ num <= i + 1)
  BY InLoop DEF Filling, After
<1>7. \A k \in i + 2 .. Length :
         /\ (params[k].name \in DOMAIN kwargs') <=> (params[k].name \in DOMAIN mapping)
         /\ params[k].name \in DOMAIN mapping => kwargs'[params[k].name] = mapping[params[k].name]
  <2>1. \A k \in i + 2 .. Length : k \in i + 1 .. Length
    BY InLoop
  <2>2. QED
    BY <2>1, InLoop DEF Filling
<1>8. ~ Left' /\ i' <= Length /\ argsI' <= num' /\ i' + 1 = i + 2 /\ Height' = Base + 1 + i'
  <2>1. ~ Left' /\ argsI' = num'
    BY DEF Left
  <2>2. i' <= Length /\ i' + 1 = i + 2 /\ argsI' <= num'
    BY <2>1, InLoop
  <2>3. Height' = Base + 1 + i'
    BY <1>1, <1>2, InLoop, SMTT(30)
  <2>4. QED
    BY <2>1, <2>2, <2>3
<1>9. Filling'
  BY <1>5, <1>6, <1>7, <1>8, CallStays DEF Filling
<1>10. CallMade' /\ CallerUntouched'
  BY <1>3, <1>4, InLoop, CallStays, Untouched
<1>11. QED
  BY <1>3, <1>4, <1>9, <1>10 DEF IInv, BindsAsMeant
----------------------------------------------------------------------------
LEMMA TakePositionalStep == ASSUME IInv, TakePositional PROVE IInv'
<1>1. /\ UNCHANGED call /\ pc = "loop" /\ i < Length /\ This.kind # "rest" /\ i' = i + 1
      /\ UNCHANGED <<pc, args, locals, stack, buf, kwargs, num>>
      /\ Left /\ argsI' = argsI + 1
  BY DEF TakePositional, Round, At
<1>2. TypeOK' /\ CallMade' /\ CallerKept' /\ CallerUntouched'
  BY <1>1, InLoop, Quietly DEF TypeOK
<1>3. /\ i = argsI /\ num = Len(Passed) /\ Operands(Passed) /\ args = buf /\ ~ After(i)
      /\ i < Len(Passed)
  BY <1>1, InLoop DEF Filling, Left
<1>4. i' \in 0..Length /\ ~ After(i') /\ i' <= Len(Passed)
  BY <1>1, <1>3, InLoop DEF After, This
<1>5. \A k \in 1 .. i' : Given(k) /\ stack[Base + 1 + k] = Expected(k)
  <2>1. ASSUME NEW k \in 1 .. i' PROVE Given(k) /\ stack[Base + 1 + k] = Expected(k)
    <3>1. k \in 1 .. Len(Passed)
      BY <1>4, InLoop, <1>1
    <3>2. TypeOK /\ Given(k) /\ Expected(k) = Passed[k]
      BY <1>1, <1>4, InLoop, Positional
    <3>3. QED
      BY <1>3, <3>1, <3>2 DEF Operands
  <2>2. QED
    BY <2>1
<1>6. Filling'
  <2>1. /\ i' = argsI' /\ num' = Len(Passed) /\ args' = buf'
        /\ i' <= Length /\ argsI' <= num'
    BY <1>1, <1>3, <1>4
  <2>2. Height' = Height /\ Operands(Passed)' = Operands(Passed)
    BY <1>1, CallStays DEF Height, Operands
  <2>3. ~ Left' => Height' = Base + 1 + i' /\ num' <= i'
    BY <1>3, <1>4, <2>1, <2>2, InLoop DEF Left, Operands
  <2>4. \A k \in i' + 1 .. Length : k \in i + 1 .. Length
    BY <1>1, InLoop
  <2>5. \A k \in i' + 1 .. Length :
           /\ (params[k].name \in DOMAIN kwargs) <=> (params[k].name \in DOMAIN mapping)
           /\ params[k].name \in DOMAIN mapping =>
                 kwargs[params[k].name] = mapping[params[k].name]
    BY <1>1, <2>4, InLoop DEF Filling
  <2>6. After(i)' <=> After(i')
    BY <1>1 DEF call, After
  <2>7. QED
    BY <1>1, <1>3, <1>4, <1>5, <2>1, <2>2, <2>3, <2>5, <2>6, CallStays DEF Filling
<1>7. QED
  BY <1>1, <1>2, <1>6 DEF IInv, BindsAsMeant

LEMMA TakeKeywordStep == ASSUME IInv, TakeKeyword PROVE IInv'
<1> DEFINE x == kwargs[This.name]
<1>1. /\ UNCHANGED call /\ pc = "loop" /\ i < Length /\ This.kind = "required" /\ i' = i + 1
      /\ UNCHANGED <<pc, args, locals, argsI, num>> /\ ~ Left
      /\ This.name \in DOMAIN kwargs /\ Push(x)
      /\ kwargs' = Without(kwargs, This.name)
  BY DEF TakeKeyword, Round, At
<1>2. i + 1 \in 1..Length /\ This = params[i + 1] /\ ~ Filled(i + 1)
  BY <1>1, NextParam
<1>3. Given(i + 1) /\ x = Expected(i + 1)
  BY <1>1, <1>2, NextParam DEF Given, Expected
<1>4. x \in Cell /\ kwargs' \in Named(Names)
  <2>1. PICK N \in SUBSET Names : kwargs \in [N -> Objects]
    BY <1>1, InLoop DEF TypeOK, Named
  <2>2. x \in Objects
    BY <1>1, <2>1
  <2>3. kwargs' \in [N \ {This.name} -> Objects]
    BY <1>1, <2>1 DEF Without
  <2>4. QED
    BY <2>2, <2>3 DEF Named, Cell
<1>5. ASSUME NEW k \in i + 2 .. Length
      PROVE  /\ (params[k].name \in DOMAIN kwargs') <=> (params[k].name \in DOMAIN kwargs)
             /\ params[k].name \in DOMAIN kwargs' =>
                   kwargs'[params[k].name] = kwargs[params[k].name]
  <2>1. k \in 1..Length /\ k # i + 1
    BY InLoop, <1>1
  <2>2. params[k].name # This.name
    BY <1>1, <1>2, <2>1, InLoop DEF CallMade, Signature, Length
  <2>3. QED
    BY <1>1, <2>2 DEF Without
<1> HIDE DEF x
<1>6. QED
  BY <1>1, <1>3, <1>4, <1>5, Pushed

LEMMA TakeDefaultStep == ASSUME IInv, TakeDefault PROVE IInv'
<1> DEFINE x == IF This.name \in DOMAIN kwargs THEN kwargs[This.name] ELSE DefaultOf(This.name)
<1>1. /\ UNCHANGED call /\ pc = "loop" /\ i < Length /\ This.kind = "default" /\ i' = i + 1
      /\ UNCHANGED <<pc, args, locals, argsI, num, kwargs>> /\ ~ Left /\ Push(x)
  BY DEF TakeDefault, Round, At
<1>2. i + 1 \in 1..Length /\ This = params[i + 1] /\ ~ Filled(i + 1)
  BY <1>1, NextParam
<1>3. Given(i + 1) /\ x = Expected(i + 1)
  BY <1>1, <1>2, NextParam DEF Given, Expected
<1>4. x \in Cell /\ kwargs' \in Named(Names)
  BY <1>1, <1>2, <1>3, InLoop, ExpectedType DEF TypeOK
<1> HIDE DEF x
<1>5. QED
  BY <1>1, <1>3, <1>4, Pushed

LEMMA TakeNoRestStep == ASSUME IInv, TakeNoRest PROVE IInv'
<1> DEFINE x == Tuple(<<>>)
<1>1. /\ UNCHANGED call /\ pc = "loop" /\ i < Length /\ This.kind = "rest" /\ i' = i + 1
      /\ UNCHANGED <<pc, args, locals, argsI, num, kwargs>> /\ ~ Left /\ Push(x)
  BY DEF TakeNoRest, Round, At
<1>2. i + 1 \in 1..Length /\ This = params[i + 1]
  BY <1>1, InLoop DEF This
<1>3. ~ After(i)
  <2>1. ASSUME NEW r \in 1..i, params[r].kind = "rest" PROVE FALSE
    <3>1. r \in 1..Length /\ r # i + 1
      BY <1>1, <1>2, InLoop
    <3>2. QED
      BY <1>1, <1>2, <2>1, <3>1, InLoop DEF CallMade, Signature, Length
  <2>2. QED
    BY <2>1 DEF After
<1>4. num = Len(Passed) /\ num <= i
  BY <1>1, <1>3, InLoop DEF Filling
<1>5. Given(i + 1) /\ x = Expected(i + 1)
  <2>1. Expected(i + 1) =
           Tuple([j \in 1 .. Len(Passed) - (i + 1) + 1 |-> Passed[(i + 1) - 1 + j]])
    BY <1>1, <1>2 DEF Expected
  <2>2. 1 .. Len(Passed) - (i + 1) + 1 = {}
    BY <1>1, <1>4, InLoop
  <2>3. [j \in 1 .. Len(Passed) - (i + 1) + 1 |-> Passed[(i + 1) - 1 + j]] = <<>>
    BY <2>2
  <2>4. QED
    BY <1>1, <1>2, <2>1, <2>3 DEF Given
<1>6. x \in Cell /\ kwargs' \in Named(Names)
  BY <1>1, <1>2, <1>5, InLoop, ExpectedType DEF TypeOK
<1> HIDE DEF x
<1>7. QED
  BY <1>1, <1>5, <1>6, Pushed

LEMMA TakeRestStep == ASSUME IInv, TakeRest PROVE IInv'
<1> DEFINE f == [j \in 1 .. num - argsI |-> Memory(argsI + j)]
           x == Tuple(f)
<1>1. /\ UNCHANGED call /\ pc = "loop" /\ i < Length /\ This.kind = "rest" /\ i' = i + 1
      /\ UNCHANGED <<pc, args, locals, argsI, kwargs>> /\ Left
      /\ stack' = Append(SubSeq(stack, 1, Height - (num - argsI)), x)
      /\ buf' \in {buf, buf + 1} /\ num' = argsI
  BY DEF TakeRest, Round, At
<1>0. /\ TypeOK /\ CallMade /\ CallerKept /\ Filling
      /\ Length \in Nat /\ Base \in Nat /\ Height \in Nat /\ Len(Passed) \in Nat
      /\ i \in Nat /\ argsI \in Nat /\ num \in Nat
  BY <1>1, InLoop
<1>2. /\ i = argsI /\ num = Len(Passed) /\ Operands(Passed) /\ args = buf /\ ~ After(i)
      /\ i < Len(Passed) /\ Height = Base + 1 + num
  <2>1. /\ i = argsI /\ num = Len(Passed) /\ Operands(Passed) /\ args = buf /\ ~ After(i)
        /\ argsI <= num /\ argsI # num
    BY <1>0, <1>1 DEF Filling, Left
  <2>2. Height = Base + 1 + num
    BY <2>1 DEF Operands
  <2>3. i < Len(Passed)
    BY <1>0, <2>1
  <2>4. QED
    BY <2>1, <2>2, <2>3
<1>3. i + 1 \in 1..Length /\ This = params[i + 1] /\ i \in 0..Length
  BY <1>1, InLoop, SMTT(30) DEF This
<1>4. x = Expected(i + 1) /\ Given(i + 1)
  <2>1. Expected(i + 1) =
           Tuple([j \in 1 .. Len(Passed) - (i + 1) + 1 |-> Passed[(i + 1) - 1 + j]])
    BY <1>1, <1>3 DEF Expected
  <2>2. Len(Passed) - (i + 1) + 1 = num - argsI
    BY <1>2, InLoop, <1>1
  <2>3. ASSUME NEW j \in 1 .. num - argsI
        PROVE  Memory(argsI + j) = Passed[(i + 1) - 1 + j]
    <3>1. PICK k \in 1 .. Len(Passed) : k = argsI + j /\ k = (i + 1) - 1 + j
      BY <1>0, <1>2
    <3>2. Memory(k) = stack[Base + 1 + k]
      <4>1. Height - num + k = Base + 1 + k
        BY <1>0, <1>2, <3>1
      <4>2. QED
        BY <1>2, <4>1 DEF Memory
    <3>3. QED
      BY <1>2, <3>1, <3>2 DEF Operands
  <2>4. f = [j \in 1 .. Len(Passed) - (i + 1) + 1 |-> Passed[(i + 1) - 1 + j]]
    BY <2>2, <2>3
  <2>5. QED
    BY <1>1, <1>3, <2>1, <2>4 DEF Given
<1>5. x \in Cell
  BY <1>1, <1>3, <1>4, InLoop, ExpectedType
<1> HIDE DEF x
<1> DEFINE s == SubSeq(stack, 1, Base + 1 + i)
<1>6. /\ s \in Seq(Cell) /\ Len(s) = Base + 1 + i
      /\ \A k \in 1 .. Base + 1 + i : s[k] = stack[k]
  <2>1. \A k \in 1 .. Base + 1 + i : stack[k] \in Cell
    <3>1. \A k \in 1 .. Base + 1 + i : k \in 1 .. Height
      BY <1>0, <1>2
    <3>2. QED
      BY <1>0, <3>1, ElementOfSeq DEF TypeOK, Height
  <2>2. PICK n \in Int : n = Base + 1 + i /\ 1 <= n /\ n - 1 + 1 = n
    BY <1>0
  <2>3. \A k \in 1 .. n : stack[k] \in Cell
    BY <2>1, <2>2
  <2>4. /\ SubSeq(stack, 1, n) \in Seq(Cell) /\ Len(SubSeq(stack, 1, n)) = n - 1 + 1
        /\ \A k \in 1 .. n - 1 + 1 : SubSeq(stack, 1, n)[k] = stack[1 + k - 1]
    BY <2>2, <2>3, SubSeqProperties
  <2>5. \A k \in 1 .. n : SubSeq(stack, 1, n)[k] = stack[k]
    BY <2>2, <2>4
  <2>6. QED
    BY <2>2, <2>4, <2>5
<1>7. stack' = Append(s, x)
  <2>1. Height - (num - argsI) = Base + 1 + i
    BY <1>1, <1>2, InLoop
  <2>2. QED
    BY <1>1, <2>1
<1> HIDE DEF s
<1>8. /\ stack' \in Seq(Cell) /\ Height' = Base + 1 + (i + 1)
      /\ \A k \in 1 .. Base + 1 + i : stack'[k] = stack[k]
      /\ stack'[Base + 1 + (i + 1)] = x
  <2>1. /\ stack' \in Seq(Cell) /\ Len(stack') = Base + 1 + i + 1
        /\ \A k \in 1 .. Base + 1 + i : stack'[k] = s[k]
        /\ stack'[Base + 1 + i + 1] = x
    BY <1>5, <1>6, <1>7, AppendProperties
  <2>2. Base + 1 + i + 1 = Base + 1 + (i + 1)
    BY <1>1, InLoop
  <2>3. QED
    BY <1>6, <2>1, <2>2 DEF Height
<1>9. TypeOK'
  <2>1. buf' \in Nat /\ num' \in Nat /\ i' \in Nat
    <3>1. buf \in Nat
      BY <1>0 DEF TypeOK
    <3>2. QED
      BY <1>0, <1>1, <3>1
  <2>2. QED
    BY <1>0, <1>1, <1>8, <2>1, CallStays DEF TypeOK
<1>10. CallerKept'
  <2>1. /\ Base + 1 \in 1 .. Base + 1 + i /\ Base + 1 <= Base + 1 + (i + 1)
        /\ \A k \in 1..Base : k \in 1 .. Base + 1 + i
    BY <1>0
  <2>2. below' = below /\ Base' = Base
    BY <1>1, CallStays
  <2>3. QED
    BY <1>0, <1>8, <2>1, <2>2 DEF CallerKept
<1>11. ASSUME NEW k \in 1 .. i + 1
       PROVE  Given(k) /\ stack'[Base + 1 + k] = Expected(k)
  <2>1. CASE k = i + 1
    BY <1>4, <1>8, <2>1
  <2>2. CASE k # i + 1
    <3>1. k \in 1..i /\ Base + 1 + k \in 1 .. Base + 1 + i /\ k \in 1 .. Len(Passed)
      BY <1>0, <1>2, <2>2
    <3>2. Given(k) /\ Expected(k) = Passed[k]
      BY <1>0, <1>2, <1>3, <3>1, Positional
    <3>3. stack[Base + 1 + k] = Passed[k]
      BY <1>2, <3>1 DEF Operands
    <3>4. QED
      BY <1>8, <3>1, <3>2, <3>3
  <2>3. QED
    BY <2>1, <2>2
<1>12. Filling'
  <2>1. ~ Left' /\ argsI' <= num' /\ i' <= Length /\ After(i + 1)
    <3>1. After(i + 1)
      BY <1>0, <1>1, <1>3 DEF After
    <3>2. QED
      BY <1>0, <1>1, <1>3, <3>1 DEF Left
  <2>2. \A k \in i' + 1 .. Length : k \in i + 1 .. Length
    BY <1>0, <1>1
  <2>3. \A k \in i' + 1 .. Length :
           /\ (params[k].name \in DOMAIN kwargs) <=> (params[k].name \in DOMAIN mapping)
           /\ params[k].name \in DOMAIN mapping =>
                 kwargs[params[k].name] = mapping[params[k].name]
    BY <1>0, <1>1, <2>2 DEF Filling
  <2>4. QED
    BY <1>1, <1>8, <1>11, <2>1, <2>3, CallStays DEF Filling
<1>13. CallMade' /\ CallerUntouched'
  BY <1>1, <1>9, <1>10, InLoop, CallStays, Untouched
<1>14. QED
  BY <1>1, <1>9, <1>10, <1>12, <1>13 DEF IInv, BindsAsMeant

LEMMA MissingStep == ASSUME IInv, Missing PROVE IInv'
<1>1. /\ UNCHANGED call /\ pc = "loop" /\ i < Length /\ This.kind = "required" /\ ~ Left
      /\ This.name \notin DOMAIN kwargs /\ Refuse
  BY DEF Missing, At
<1>2. i + 1 \in 1..Length /\ This = params[i + 1] /\ ~ Filled(i + 1)
  BY <1>1, NextParam
<1>3. ~ Given(i + 1)
  BY <1>1, <1>2, NextParam DEF Given
<1>4. QED
  BY <1>1, <1>2, <1>3, Refused DEF Admissible

LEMMA LoopEndsStep == ASSUME IInv, LoopEnds PROVE IInv'
<1>1. /\ UNCHANGED call /\ pc = "loop" /\ i = Length
  BY DEF LoopEnds, At
<1>2. CASE ~ Left /\ pc' = "types"
           /\ UNCHANGED <<stack, buf, args, kwargs, i, argsI, num, locals>>
  <2>1. TypeOK' /\ CallMade' /\ CallerKept' /\ CallerUntouched'
    BY <1>1, <1>2, InLoop, Quietly DEF TypeOK
  <2>2. Complete
    BY <1>1, <1>2, InLoop DEF Filling, Complete
  <2>3. Complete'
    BY <1>1, <1>2, <2>2, CallStays DEF Complete, Height
  <2>4. QED
    BY <1>2, <2>1, <2>3 DEF IInv, BindsAsMeant
<1>3. CASE Left /\ Refuse
  <2>1. Len(Passed) > Length /\ ~ After(Length)
    BY <1>1, <1>3, InLoop DEF Filling, Left
  <2>2. QED
    BY <1>1, <1>3, <2>1, Refused DEF Admissible
<1>4. QED
  BY <1>2, <1>3 DEF LoopEnds
----------------------------------------------------------------------------
(* When the loop is over the operands are what the parameters should get.  *)
LEMMA OperandIs ==
    ASSUME TypeOK, Complete, NEW k \in 1..Length
    PROVE  Operand(k) = Expected(k)
<1>1. Height - Length + k = Base + 1 + k
  BY Sizes DEF Complete
<1>2. QED
  BY <1>1 DEF Operand, Complete

LEMMA CheckTypesStep == ASSUME IInv, CheckTypes PROVE IInv'
<1>1. UNCHANGED call /\ pc = "types" /\ TypeOK /\ Complete
  BY DEF CheckTypes, At, IInv
<1>2. \A k \in 1..Length :
         Fits(k) <=> (params[k].typed => Expected(k) \in Ints \cup {DefaultOf(params[k].name)})
  BY <1>1, OperandIs DEF Fits
<1>3. CASE (\A k \in 1..Length : Fits(k)) /\ pc' = "ready"
           /\ UNCHANGED <<stack, buf, args, kwargs, i, argsI, num, locals>>
  <2>1. TypeOK' /\ CallMade' /\ CallerKept' /\ CallerUntouched'
    BY <1>1, <1>3, Quietly DEF TypeOK
  <2>2. Complete'
    BY <1>1, <1>3, CallStays DEF Complete, Height
  <2>3. Admissible
    BY <1>1, <1>2, <1>3 DEF Admissible, Complete
  <2>4. QED
    BY <1>1, <1>3, <2>1, <2>2, <2>3, CallStays DEF IInv, BindsAsMeant
<1>4. CASE (\E k \in 1..Length : ~ Fits(k)) /\ Refuse
  <2>1. ~ Admissible
    BY <1>2, <1>4 DEF Admissible
  <2>2. QED
    BY <1>1, <1>4, <2>1, Refused
<1>5. QED
  BY <1>3, <1>4 DEF CheckTypes

LEMMA AssignStep == ASSUME IInv, Assign PROVE IInv'
<1> DEFINE c(n) == CHOOSE k \in 1..Length : params[k].name = n
           N == {params[k].name : k \in 1..Length}
<1>1. /\ UNCHANGED call /\ pc = "ready" /\ pc' = "bound"
      /\ UNCHANGED <<buf, args, kwargs, i, argsI, num>>
      /\ TypeOK /\ Complete /\ Admissible /\ CallMade /\ CallerKept
      /\ locals' = [n \in N |-> Operand(c(n))]
      /\ stack' = SubSeq(stack, 1, Height - (Length + 1))
  BY DEF Assign, At, IInv
<1>2. ASSUME NEW k \in 1..Length PROVE c(params[k].name) = k
  <2>1. c(params[k].name) \in 1..Length /\ params[c(params[k].name)].name = params[k].name
    OBVIOUS
  <2>2. QED
    BY <1>1, <2>1 DEF CallMade, Signature, Length
<1>3. ASSUME NEW k \in 1..Length PROVE locals'[params[k].name] = Expected(k)
  BY <1>1, <1>2, OperandIs
<1>4. locals' \in [DOMAIN locals' -> Cell]
  <2>1. \A k \in 1..Length : Expected(k) \in Cell
    BY <1>1, ExpectedType DEF Complete
  <2>2. DOMAIN locals' = N /\ locals' = [n \in N |-> locals'[n]]
    BY <1>1
  <2>3. \A n \in N : locals'[n] \in Cell
    BY <1>3, <2>1
  <2>4. QED
    BY <2>2, <2>3
<1>5. /\ Base \in Nat /\ Length \in Nat /\ Height = Base + 1 + Length
      /\ Height - (Length + 1) = Base
  BY <1>1, Sizes DEF Complete
<1>6. stack' \in Seq(Cell) /\ Height' = Base /\ \A k \in 1..Base : stack'[k] = stack[k]
  <2>1. \A k \in 1..Base : stack[k] \in Cell
    BY <1>1, <1>5, ElementOfSeq, SMTT(30) DEF TypeOK, Height
  <2>2. stack' = SubSeq(stack, 1, Base) /\ 1 \in Int /\ Base \in Int
    BY <1>1, <1>5
  <2>3. /\ stack' \in Seq(Cell) /\ Len(stack') = IF 1 <= Base THEN Base - 1 + 1 ELSE 0
        /\ \A k \in 1 .. Base - 1 + 1 : stack'[k] = stack[1 + k - 1]
    BY <2>1, <2>2, SubSeqProperties
  <2>4. QED
    BY <1>5, <2>3 DEF Height
<1>7. TypeOK' /\ CallMade'
  BY <1>1, <1>4, <1>6, CallStays DEF TypeOK
<1>8. CallerUntouched'
  BY <1>1, <1>6, CallStays DEF CallerUntouched, CallerKept
<1>9. BindsAsMeant'
  BY <1>1, <1>3, CallStays DEF BindsAsMeant
<1>10. QED
  BY <1>1, <1>7, <1>8, <1>9 DEF IInv

LEMMA StutterStep == ASSUME IInv, UNCHANGED vars PROVE IInv'
<1>1. UNCHANGED <<params, plain, below, given, mapping, pc, stack, buf, args, kwargs, hasKw,
                  i, argsI, num, locals>>
  BY DEF vars
<1>2. UNCHANGED call
  BY <1>1 DEF call
<1>3. TypeOK' /\ CallMade'
  BY <1>1, <1>2, CallStays DEF IInv, TypeOK
<1>4. Height' = Height /\ Left' = Left /\ (CallerKept' <=> CallerKept)
      /\ (CallerUntouched' <=> CallerUntouched) /\ (BindsAsMeant' <=> BindsAsMeant)
  BY <1>1, <1>2, CallStays
     DEF Height, Left, CallerKept, CallerUntouched, BindsAsMeant
<1>5. Operands(given)' = Operands(given) /\ Operands(Passed)' = Operands(Passed)
      /\ After(i)' = After(i)
  BY <1>1, <1>2, <1>4, CallStays DEF Operands, After
<1>6. (Entered' <=> Entered) /\ (Checked' <=> Checked) /\ (Complete' <=> Complete)
  BY <1>1, <1>2, <1>4, <1>5, CallStays DEF Entered, Checked, Complete
<1>7. Filling' <=> Filling
  BY <1>1, <1>2, <1>4, <1>5, CallStays DEF Filling
<1>8. QED
  BY <1>1, <1>2, <1>3, <1>4, <1>6, <1>7, CallStays DEF IInv
----------------------------------------------------------------------------
(* The invariant of the binding, in every state of every call.             *)
THEOREM Invariance == Spec => []IInv
<1>1. IInv /\ [Next]_vars => IInv'
  BY EnterStep, CheckSimpleStep, CheckParamsStep, TakePositionalStep, TakeKeywordStep,
     MissingStep, TakeDefaultStep, TakeRestStep, TakeNoRestStep, LoopEndsStep,
     CheckTypesStep, AssignStep, StutterStep
     DEF Next, Step
<1>2. QED
  BY InitIInv, <1>1, PTL DEF Spec

(* Every parameter gets what the call means for it, and only a call without*)
(* a meaning is refused (vm.c:224-316, vm.c:687-692), for every signature. *)
THEOREM BindsEveryCall == Spec => []BindsAsMeant
BY Invariance, PTL DEF IInv

(* The operands of the caller survive every call (vm.c:212-303, vm.c:692). *)
THEOREM KeepsCaller == Spec => []CallerUntouched
BY Invariance, PTL DEF IInv

(* *args is never copied through a pointer into memory that was given back *)
(* when the stack grew (vm.c:235, vm.c:267).                               *)
THEOREM PointerFresh == Spec => []ArgsFresh
<1>1. IInv => ArgsFresh
  BY DEF IInv, ArgsFresh, Filling
<1>2. QED
  BY Invariance, <1>1, PTL
=============================================================================
