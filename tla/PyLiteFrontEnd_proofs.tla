------------------------ MODULE PyLiteFrontEnd_proofs ------------------------
(***************************************************************************)
(* What the front end does in place: the parser links the jumps of an if   *)
(* statement with any number of arms, the lexer records characters to read *)
(* them again; and that the tokens it hands out are the lexemes of the     *)
(* text.                                                                   *)
(***************************************************************************)
EXTENDS PyLiteIfChain, PyLiteTokens, SequenceTheorems, FiniteSetTheorems, TLAPS

-----------------------------------------------------------------------------
(* If chains.  What is said here of a code c, tests ts and jumps js is     *)
(* said of the variables below.                                            *)

Codes == Seq(Opcode)
Aim(c, i) == i + 1 + c[i + 1].n

(* Where the tests and the jumps of the arms stand *)
Sites(c, ts, js) ==
    /\ c \in Codes /\ ts \in Seq(Nat) /\ js \in Seq(Nat)
    /\ \A k \in 1 .. Len(ts) : ts[k] < Len(c) /\ c[ts[k] + 1].op = "TEST"
    /\ \A k \in 1 .. Len(js) : js[k] < Len(c) /\ c[js[k] + 1].op = "JMP"
    /\ \A k, l \in 1 .. Len(ts) : k < l => ts[k] < ts[l]
    /\ \A k, l \in 1 .. Len(js) : k < l => js[k] < js[l]

(* A failed test goes on behind the jump of its arm, the last to the end.  *)
TestsAimed(c, ts, js) ==
    \A k \in 1 .. Len(ts) : Aim(c, ts[k]) = IF k <= Len(js) THEN js[k] + 1 ELSE Len(c)

(* The jumps before w lead to the end, the others behind the next one, and *)
(* the last of them to e.                                                  *)
JumpsLinked(c, js, w, e) ==
    \A k \in 1 .. Len(js) :
        Aim(c, js[k]) = IF k < w THEN Len(c) ELSE IF k < Len(js) THEN js[k + 1] + 1 ELSE e

(* The inductive invariant *)
ArmsOpen ==
    /\ Sites(code, tests, jumps) /\ TestsAimed(code, tests, jumps)
    /\ JumpsLinked(code, jumps, 1, Len(code) + 1)
    /\ Len(tests) = Len(jumps) + 1
    /\ tmp = tests[Len(tests)] + 1 /\ tmp3 = tests[1] + 1
    /\ tmp2 = 0 <=> Len(jumps) = 0
    /\ tmp2 \in Nat
ArmsClosed ==
    /\ Sites(code, tests, jumps) /\ TestsAimed(code, tests, jumps)
    /\ Len(tests) >= 1 /\ (Len(jumps) = Len(tests) \/ Len(jumps) = 0)
    /\ Len(jumps) = 0 => Len(tests) = 1
Walking(w) ==
    /\ w \in 1 .. Len(jumps) + 1
    /\ tmp3 = IF w <= Len(jumps) THEN jumps[w] + 1 ELSE final
    /\ JumpsLinked(code, jumps, w, Len(code))
ChainInv ==
    /\ ~BareElif
    /\ ps \in {"if", "arms", "link", "walk", "done"}
    /\ ps = "if" => code \in Codes /\ tests = <<>> /\ jumps = <<>>
    /\ ps = "arms" => ArmsOpen
    /\ ps = "link" => ArmsClosed /\ JumpsLinked(code, jumps, 1, Len(code)) /\ tmp3 = tests[1] + 1
    /\ ps = "walk" => ArmsClosed /\ final = Len(code) /\ \E w \in 1 .. Len(jumps) + 1 : Walking(w)
    /\ ps = "done" => ArmsClosed /\ JumpsLinked(code, jumps, Len(jumps) + 1, Len(code))

(* d is c with the operand of the instruction at i written, and nothing else. *)
IsSet(c, i, n, d) ==
    /\ d \in Codes /\ Len(d) = Len(c)
    /\ d[i + 1].op = c[i + 1].op /\ d[i + 1].n = n
    /\ \A j \in 1 .. Len(c) : j # i + 1 => d[j] = c[j]

(* One operand set, nothing else changed. *)
LEMMA SetIs ==
    ASSUME NEW c \in Codes, NEW i \in Nat, i < Len(c), NEW n \in Nat,
           NEW d, d = SetExtra(c, i, n)
    PROVE  IsSet(c, i, n, d)
<1> DEFINE e == [c[i + 1] EXCEPT !.n = n]
<1>1. i + 1 \in 1 .. Len(c) /\ Len(c) \in Nat /\ DOMAIN c = 1 .. Len(c)
    BY DEF Codes
<1>2. e \in Opcode /\ e.op = c[i + 1].op /\ e.n = n
    <2>1. c[i + 1] \in Opcode
        BY <1>1 DEF Codes
    <2> QED BY <2>1 DEF Opcode
<1>3. d = [c EXCEPT ![i + 1] = e]
    BY <1>1 DEF SetExtra
<1> HIDE DEF e
<1>4. DOMAIN d = 1 .. Len(c) /\ d[i + 1] = e /\ \A j \in 1 .. Len(c) : j # i + 1 => d[j] = c[j]
    BY <1>1, <1>3
<1>5. d \in [1 .. Len(c) -> Opcode]
    BY <1>1, <1>2, <1>3 DEF Codes
<1>6. d \in Codes /\ Len(d) = Len(c)
    BY <1>1, <1>4, <1>5 DEF Codes
<1> QED BY <1>2, <1>4, <1>6 DEF IsSet

(* d is the code c with b emitted behind it. *)
IsGrown(c, b, d) ==
    /\ d \in Codes /\ Len(d) = Len(c) + Len(b)
    /\ \A j \in 1 .. Len(c) : d[j] = c[j]
    /\ \A j \in 1 .. Len(b) : d[Len(c) + j] = b[j]

(* Code behind code. *)
LEMMA Grown ==
    ASSUME NEW c \in Codes, NEW b \in Codes, NEW d, d = c \o b
    PROVE  IsGrown(c, b, d)
BY ConcatProperties DEF Codes, IsGrown

(* Code has a length. *)
LEMMA Length ==
    ASSUME NEW c \in Codes
    PROVE  Len(c) \in Nat
BY DEF Codes

(* d is the code c with one opcode e emitted behind it. *)
IsLonger(c, e, d) ==
    /\ d \in Codes /\ Len(d) = Len(c) + 1 /\ d[Len(c) + 1] = e
    /\ \A j \in 1 .. Len(c) : d[j] = c[j]

(* One instruction more. *)
LEMMA Longer ==
    ASSUME NEW c \in Codes, NEW e \in Opcode, NEW d, d = Append(c, e)
    PROVE  IsLonger(c, e, d)
BY AppendProperties DEF Codes, IsLonger

(* An emitted operand is 0, and a block has its size. *)
LEMMA Emitted ==
    /\ \A op \in {"OTHER", "TEST", "JMP"} : Emit(op) \in Opcode /\ Emit(op).op = op /\ Emit(op).n = 0
    /\ \A n \in Nat : Block(n) \in Codes /\ Len(Block(n)) = n
<1>1. \A op \in {"OTHER", "TEST", "JMP"} : Emit(op) \in Opcode /\ Emit(op).op = op /\ Emit(op).n = 0
    BY DEF Emit, Opcode
<1>2. ASSUME NEW n \in Nat PROVE Block(n) \in Codes /\ Len(Block(n)) = n
    <2>1. Block(n) \in [1 .. n -> Opcode]
        BY <1>1 DEF Block
    <2> HIDE DEF Block
    <2> QED BY <2>1 DEF Codes
<1> QED BY <1>1, <1>2

(* The code of an arm that follows c *)
ArmAfter(c, n) == SetExtra((c \o <<Emit("OTHER"), Emit("TEST")>>) \o Block(n), Len(c) + 1, n)

(* d is c with an arm behind it: its test is aimed at the end. *)
IsArm(c, n, d) ==
    /\ d \in Codes /\ Len(d) = Len(c) + 2 + n
    /\ \A j \in 1 .. Len(c) : d[j] = c[j]
    /\ d[Len(c) + 2].op = "TEST" /\ d[Len(c) + 2].n = n

(* A test, its block, and the test aimed behind the block. *)
LEMMA ArmIs ==
    ASSUME NEW c \in Codes, NEW n \in Nat, NEW d, d = ArmAfter(c, n)
    PROVE  IsArm(c, n, d)
<1>0. PICK m : m = Len(c)
    OBVIOUS
<1>1. PICK two : two = <<Emit("OTHER"), Emit("TEST")>>
    OBVIOUS
<1>2. PICK test : test = c \o two
    OBVIOUS
<1>3. PICK block : block = Block(n)
    OBVIOUS
<1>4. PICK bd : bd = test \o block
    OBVIOUS
<1>5. PICK i : i = m + 1
    OBVIOUS
<1>6. m \in Nat /\ two \in Codes /\ Len(two) = 2 /\ two[2] = Emit("TEST") /\ 2 \in 1 .. Len(two)
    BY <1>0, <1>1, Emitted DEF Codes
<1>7. IsGrown(c, two, test)
    BY <1>2, <1>6, Grown
<1>8. Len(test) = m + 2 /\ test[m + 2].op = "TEST"
    BY <1>0, <1>6, <1>7, Emitted DEF IsGrown
<1>9. block \in Codes /\ Len(block) = n
    BY <1>3, Emitted
<1>10. /\ bd \in Codes /\ Len(bd) = m + 2 + n
       /\ \A j \in 1 .. m + 2 : bd[j] = test[j]
    <2>1. test \in Codes
        BY <1>7 DEF IsGrown
    <2>2. IsGrown(test, block, bd)
        BY <2>1, <1>4, <1>9, Grown
    <2> QED BY <2>2, <1>6, <1>8, <1>9 DEF IsGrown
<1>11. i \in Nat /\ i < Len(bd) /\ m + 2 \in 1 .. m + 2 /\ i + 1 = m + 2
    BY <1>5, <1>6, <1>10
<1>12. d = SetExtra(bd, i, n)
    BY <1>0, <1>1, <1>2, <1>3, <1>4, <1>5 DEF ArmAfter
<1>13. IsSet(bd, i, n, d)
    BY <1>10, <1>11, <1>12, SetIs
<1>14. d[m + 2].op = "TEST" /\ d[m + 2].n = n
    BY <1>8, <1>10, <1>11, <1>13 DEF IsSet
<1>15. \A j \in 1 .. m : j \in 1 .. Len(bd) /\ j \in 1 .. m + 2 /\ j # i + 1
    BY <1>6, <1>10, <1>11
<1>16. \A j \in 1 .. m : d[j] = c[j]
    BY <1>0, <1>7, <1>10, <1>13, <1>15 DEF IsGrown, IsSet
<1>17. d \in Codes /\ Len(d) = m + 2 + n
    BY <1>10, <1>13 DEF IsSet
<1> QED BY <1>0, <1>14, <1>16, <1>17 DEF IsArm

(* WriteArm at the end of the code adds an arm. *)
LEMMA ArmWritten ==
    ASSUME NEW c \in Codes, NEW n \in Nat, NEW at \in Int, WriteArm(c, n, at)
    PROVE  at = Len(c) + 2 /\ tests' = Append(tests, Len(c) + 1) /\ code' = ArmAfter(c, n)
<1>0. PICK two : two = <<Emit("OTHER"), Emit("TEST")>>
    OBVIOUS
<1>1. two \in Codes /\ Len(two) = 2
    BY <1>0, Emitted DEF Codes
<1>2. PICK test : test = c \o two
    OBVIOUS
<1>3. PICK body : body = test \o Block(n)
    OBVIOUS
<1>4. /\ at = Len(test) /\ tests' = Append(tests, at - 1)
      /\ code' = SetExtra(body, at - 1, Len(body) - at)
    BY <1>0, <1>2, <1>3 DEF WriteArm, Size
<1>5. test \in Codes /\ Len(test) = Len(c) + 2
    <2>1. IsGrown(c, two, test)
        BY <1>1, <1>2, Grown
    <2> QED BY <2>1, <1>1 DEF IsGrown
<1>6. Len(body) = Len(c) + 2 + n
    <2>1. Block(n) \in Codes /\ Len(Block(n)) = n
        BY Emitted
    <2>2. IsGrown(test, Block(n), body)
        BY <2>1, <1>3, <1>5, Grown
    <2> QED BY <2>1, <2>2, <1>5 DEF IsGrown
<1>7. at - 1 = Len(c) + 1 /\ Len(body) - at = n /\ at = Len(c) + 2
    BY <1>4, <1>5, <1>6, Length
<1> QED BY <1>0, <1>2, <1>3, <1>4, <1>7 DEF ArmAfter

-----------------------------------------------------------------------------
(* Where tests and jumps stand there is an instruction. *)
LEMMA SitesAre ==
    ASSUME NEW c, NEW ts, NEW js, Sites(c, ts, js)
    PROVE  /\ \A k \in 1 .. Len(ts) : ts[k] \in Nat /\ ts[k] < Len(c) /\ c[ts[k] + 1].op = "TEST"
           /\ \A k \in 1 .. Len(js) : js[k] \in Nat /\ js[k] < Len(c) /\ c[js[k] + 1].op = "JMP"
<1>1. \A k \in 1 .. Len(ts) : ts[k] \in Nat
    BY DEF Sites
<1>2. \A k \in 1 .. Len(js) : js[k] \in Nat
    BY DEF Sites
<1> QED BY <1>1, <1>2 DEF Sites

(* The first arm *)
LEMMA FirstArm ==
    ASSUME NEW c \in Codes, NEW n \in Nat, NEW d, d = ArmAfter(c, n),
           NEW ts, ts = Append(<<>>, Len(c) + 1), NEW js, js = <<>>
    PROVE  Sites(d, ts, js) /\ TestsAimed(d, ts, js) /\ JumpsLinked(d, js, 1, Len(d) + 1)
<1>1. Len(c) \in Nat
    BY Length
<1>2. d \in Codes /\ Len(d) = Len(c) + 2 + n /\ d[Len(c) + 2].op = "TEST" /\ d[Len(c) + 2].n = n
    <2>1. IsArm(c, n, d)
        BY ArmIs
    <2> QED BY <2>1 DEF IsArm
<1>3. ts \in Seq(Nat) /\ Len(ts) = 1 /\ ts[1] = Len(c) + 1
    BY <1>1
<1>4. js \in Seq(Nat) /\ Len(js) = 0
    OBVIOUS
<1> DEFINE q == Len(c)  e == Len(d)
<1>5. q \in Nat /\ e = q + 2 + n /\ ts[1] + 1 = q + 2
    BY <1>1, <1>2, <1>3
<1> HIDE DEF q, e
<1>6. ts[1] < e /\ d[ts[1] + 1].op = "TEST" /\ Aim(d, ts[1]) = e
    BY <1>2, <1>3, <1>5 DEF Aim, q, e
<1>7. Sites(d, ts, js)
    BY <1>2, <1>3, <1>4, <1>6 DEF Sites, e
<1> QED BY <1>3, <1>4, <1>6, <1>7 DEF TestsAimed, JumpsLinked, e

(* The jump at the end of the last arm is written behind the code c, whose *)
(* last test is at t: the test skips it, what c has besides stays.         *)
ArmLeft(c, t, d) ==
    /\ d \in Codes /\ Len(c) < Len(d)
    /\ \A j \in 1 .. Len(c) : j # t + 1 => d[j] = c[j]
    /\ d[t + 1].op = "TEST" /\ d[t + 1].n = Len(c) - t
    /\ d[Len(c) + 1].op = "JMP"

(* Leaving an arm adds a jump and sends the test behind it. *)
LEMMA LeftAs ==
    ASSUME NEW c \in Codes, NEW t \in Nat, t < Len(c), c[t + 1].op = "TEST", Aim(c, t) = Len(c),
           NEW d, d = Append(SetExtra(c, t, c[t + 1].n + 1), Emit("JMP"))
    PROVE  ArmLeft(c, t, d) /\ Len(d) = Len(c) + 1
<1>1. PICK n : n = c[t + 1].n + 1
    OBVIOUS
<1>2. Len(c) \in Nat /\ c[t + 1] \in Opcode
    BY DEF Codes
<1>3. n = Len(c) - t /\ n \in Nat
    BY <1>1, <1>2 DEF Aim, Opcode
<1>4. PICK skip : skip = SetExtra(c, t, n)
    OBVIOUS
<1>5. IsSet(c, t, n, skip)
    BY <1>3, <1>4, SetIs
<1>6. skip \in Codes /\ Len(skip) = Len(c)
    BY <1>5 DEF IsSet
<1>7. Emit("JMP") \in Opcode /\ Emit("JMP").op = "JMP"
    BY Emitted
<1>8. d = Append(skip, Emit("JMP"))
    BY <1>1, <1>4
<1>9. /\ d \in Codes /\ Len(d) = Len(c) + 1 /\ d[Len(c) + 1] = Emit("JMP")
      /\ \A j \in 1 .. Len(c) : d[j] = skip[j]
    <2>1. IsLonger(skip, Emit("JMP"), d)
        BY <1>6, <1>7, <1>8, Longer
    <2> QED BY <2>1, <1>6 DEF IsLonger
<1>10. t + 1 \in 1 .. Len(c) /\ Len(c) < Len(d)
    BY <1>2, <1>9
<1> QED BY <1>3, <1>5, <1>7, <1>9, <1>10 DEF ArmLeft, IsSet

(* Code written behind it changes none of that. *)
LEMMA LeftGrows ==
    ASSUME NEW c \in Codes, NEW t \in Nat, t < Len(c), NEW d, ArmLeft(c, t, d), NEW e \in Codes,
           Len(d) <= Len(e), \A j \in 1 .. Len(d) : j # Len(c) + 1 => e[j] = d[j],
           e[Len(c) + 1].op = "JMP"
    PROVE  ArmLeft(c, t, e)
<1> DEFINE q == Len(c)  l == Len(d)  m == Len(e)
<1>1. q \in Nat /\ l \in Nat /\ m \in Nat /\ q < l /\ l <= m /\ t < q
    BY Length DEF ArmLeft
<1>2. \A j \in 1 .. q : e[j] = d[j]
    <2> HIDE DEF q, l, m
    <2>1. \A j \in 1 .. q : j \in 1 .. l /\ j # q + 1
        BY <1>1
    <2> QED BY <2>1 DEF q, l
<1>3. q < m /\ t + 1 \in 1 .. q
    <2> HIDE DEF q, l, m
    <2> QED BY <1>1
<1> QED BY <1>2, <1>3 DEF ArmLeft

(* The sites and links of d, whose last arm ends with a jump at p *)
LinkedTo(d, ts, ks, p) ==
    /\ Sites(d, ts, ks) /\ TestsAimed(d, ts, ks)
    /\ JumpsLinked(d, ks, 1, Aim(d, p))
    /\ Len(ks) = Len(ts)

(* The jump of the arm that is left is where the last one leads to. *)
LEMMA LeftLinks ==
    ASSUME NEW c, NEW ts, NEW js, Sites(c, ts, js), TestsAimed(c, ts, js),
           JumpsLinked(c, js, 1, Len(c) + 1), Len(ts) = Len(js) + 1,
           NEW d, ArmLeft(c, ts[Len(ts)], d), NEW ks, ks = Append(js, Len(c))
    PROVE  LinkedTo(d, ts, ks, Len(c))
<1> DEFINE q == Len(c)  e == Len(d)  x == Len(ts)  y == Len(js)  t == ts[x]
<1>1. c \in Codes /\ d \in Codes /\ ts \in Seq(Nat) /\ js \in Seq(Nat)
    BY DEF Sites, ArmLeft
<1>2. /\ q \in Nat /\ e \in Nat /\ x \in Nat /\ y \in Nat /\ q < e
      /\ x = y + 1 /\ x \in 1 .. x
    BY <1>1, Length DEF ArmLeft
<1>3. /\ ks \in Seq(Nat) /\ Len(ks) = y + 1 /\ ks[y + 1] = q
      /\ \A k \in 1 .. y : ks[k] = js[k]
    BY <1>1, <1>2
<1>4. /\ \A k \in 1 .. x : ts[k] \in Nat /\ ts[k] < q /\ c[ts[k] + 1].op = "TEST"
      /\ \A k \in 1 .. y : js[k] \in Nat /\ js[k] < q /\ c[js[k] + 1].op = "JMP"
    BY SitesAre
<1>5. /\ \A k, l \in 1 .. x : k < l => ts[k] < ts[l]
      /\ \A k, l \in 1 .. y : k < l => js[k] < js[l]
    BY DEF Sites
<1>6. /\ \A j \in 1 .. q : j # t + 1 => d[j] = c[j]
      /\ d[t + 1].op = "TEST" /\ d[t + 1].n = q - t /\ d[q + 1].op = "JMP"
    BY DEF ArmLeft
<1>7. \A k \in 1 .. x : ts[k] + 1 + c[ts[k] + 1].n = IF k <= y THEN js[k] + 1 ELSE q
    BY DEF TestsAimed, Aim
<1>8. \A k \in 1 .. y : js[k] + 1 + c[js[k] + 1].n = IF k < y THEN js[k + 1] + 1 ELSE q + 1
    BY <1>2 DEF JumpsLinked, Aim
<1> HIDE DEF q, e, x, y
<1>9. t \in Nat /\ t < q /\ t + 1 \in 1 .. q
    BY <1>2, <1>4
<1> HIDE DEF t
<1>10. \A k \in 1 .. y : d[js[k] + 1] = c[js[k] + 1]
    <2> SUFFICES ASSUME NEW k \in 1 .. y
                 PROVE  d[js[k] + 1] = c[js[k] + 1]
        OBVIOUS
    <2>1. js[k] # t
        <3>1. c[js[k] + 1].op = "JMP" /\ c[t + 1].op = "TEST"
            BY <1>2, <1>4 DEF t
        <3> QED BY <3>1
    <2>2. js[k] + 1 \in 1 .. q /\ js[k] + 1 # t + 1
        BY <2>1, <1>2, <1>4, <1>9
    <2> QED BY <2>2, <1>6
<1>11. \A k \in 1 .. y : d[ts[k] + 1] = c[ts[k] + 1]
    <2> SUFFICES ASSUME NEW k \in 1 .. y
                 PROVE  d[ts[k] + 1] = c[ts[k] + 1]
        OBVIOUS
    <2>1. k \in 1 .. x /\ k < x
        BY <1>2
    <2>2. ts[k] < t
        BY <2>1, <1>2, <1>5 DEF t
    <2>3. ts[k] \in Nat /\ ts[k] < q
        BY <2>1, <1>4
    <2>4. ts[k] + 1 \in 1 .. q /\ ts[k] + 1 # t + 1
        BY <2>2, <2>3, <1>2, <1>9
    <2> QED BY <2>4, <1>6
<1>12. Sites(d, ts, ks)
    <2>1. \A k \in 1 .. x : ts[k] < e /\ d[ts[k] + 1].op = "TEST"
        <3> SUFFICES ASSUME NEW k \in 1 .. x
                     PROVE  ts[k] < e /\ d[ts[k] + 1].op = "TEST"
            OBVIOUS
        <3>1. ts[k] \in Nat /\ ts[k] < q /\ c[ts[k] + 1].op = "TEST"
            BY <1>4
        <3>2. ts[k] < e
            BY <3>1, <1>2
        <3>3. CASE k = x
            BY <3>2, <3>3, <1>6 DEF t
        <3>4. CASE k # x
            <4>1. k \in 1 .. y
                BY <3>4, <1>2
            <4> QED BY <4>1, <3>1, <3>2, <1>11
        <3> QED BY <3>3, <3>4
    <2>2. \A k \in 1 .. y + 1 : ks[k] < e /\ d[ks[k] + 1].op = "JMP"
        <3> SUFFICES ASSUME NEW k \in 1 .. y + 1
                     PROVE  ks[k] < e /\ d[ks[k] + 1].op = "JMP"
            OBVIOUS
        <3>1. CASE k = y + 1
            BY <3>1, <1>2, <1>3, <1>6
        <3>2. CASE k # y + 1
            <4>1. k \in 1 .. y
                BY <3>2, <1>2
            <4>2. ks[k] = js[k] /\ js[k] \in Nat /\ js[k] < q
                BY <4>1, <1>3, <1>4
            <4>3. d[js[k] + 1].op = "JMP"
                BY <4>1, <1>4, <1>10
            <4>4. js[k] < e
                BY <4>2, <1>2
            <4> QED BY <4>2, <4>3, <4>4
        <3> QED BY <3>1, <3>2
    <2>3. \A k, l \in 1 .. y + 1 : k < l => ks[k] < ks[l]
        <3> SUFFICES ASSUME NEW k \in 1 .. y + 1, NEW l \in 1 .. y + 1, k < l
                     PROVE  ks[k] < ks[l]
            OBVIOUS
        <3>1. k \in 1 .. y
            BY <1>2
        <3>2. CASE l = y + 1
            BY <3>1, <3>2, <1>3, <1>4
        <3>3. CASE l # y + 1
            <4>1. l \in 1 .. y
                BY <3>3, <1>2
            <4> QED BY <4>1, <3>1, <1>3, <1>5
        <3> QED BY <3>2, <3>3
    <2> QED BY <2>1, <2>2, <2>3, <1>1, <1>3, <1>5 DEF Sites, x, e
<1>13. TestsAimed(d, ts, ks)
    <2>1. \A k \in 1 .. x : Aim(d, ts[k]) = ks[k] + 1 /\ k <= y + 1
        <3> SUFFICES ASSUME NEW k \in 1 .. x
                     PROVE  Aim(d, ts[k]) = ks[k] + 1 /\ k <= y + 1
            OBVIOUS
        <3>1. CASE k = x
            BY <3>1, <1>2, <1>3, <1>6, <1>9 DEF t, Aim
        <3>2. CASE k # x
            <4>1. k \in 1 .. y /\ k <= y
                BY <3>2, <1>2
            <4> QED BY <4>1, <1>2, <1>3, <1>7, <1>11, SMTT(30) DEF Aim
        <3> QED BY <3>1, <3>2
    <2> QED BY <2>1, <1>3 DEF TestsAimed, x
<1>14. JumpsLinked(d, ks, 1, Aim(d, q))
    <2> SUFFICES ASSUME NEW k \in 1 .. y + 1
                 PROVE  Aim(d, ks[k]) = IF k < y + 1 THEN ks[k + 1] + 1 ELSE Aim(d, q)
        BY <1>2, <1>3 DEF JumpsLinked
    <2>1. CASE k = y + 1
        BY <2>1, <1>2, <1>3
    <2>2. CASE k # y + 1
        <3>1. k \in 1 .. y /\ k < y + 1
            BY <2>2, <1>2
        <3>2. ks[k + 1] = IF k < y THEN js[k + 1] ELSE q
            <4>1. CASE k < y
                <5>1. k + 1 \in 1 .. y
                    BY <4>1, <3>1, <1>2
                <5> QED BY <4>1, <5>1, <1>3
            <4>2. CASE ~(k < y)
                <5>1. k + 1 = y + 1
                    BY <4>2, <3>1, <1>2
                <5> QED BY <4>2, <5>1, <1>3
            <4> QED BY <4>1, <4>2
        <3>3. Aim(d, ks[k]) = IF k < y THEN js[k + 1] + 1 ELSE q + 1
            BY <3>1, <1>3, <1>8, <1>10 DEF Aim
        <3> QED BY <3>1, <3>2, <3>3
    <2> QED BY <2>1, <2>2
<1> QED BY <1>2, <1>3, <1>12, <1>13, <1>14 DEF q, x, LinkedTo

(* d is e, with the jump at the end of c aimed one past the end, and the   *)
(* arm of an elif behind it.                                               *)
IsElif(c, t, n, e, d) ==
    /\ e \in Codes /\ Len(e) = Len(c) + 1
    /\ ArmLeft(c, t, d) /\ Aim(d, Len(c)) = Len(d) + 1 /\ Len(d) = Len(c) + 3 + n
    /\ d[Len(c) + 3].op = "TEST" /\ d[Len(c) + 3].n = n

(* Another arm, whose jump is aimed one past it. *)
LEMMA ElifIs ==
    ASSUME NEW c \in Codes, NEW t \in Nat, t < Len(c), NEW jmp, ArmLeft(c, t, jmp),
           Len(jmp) = Len(c) + 1, NEW n \in Nat,
           NEW e, e = SetExtra(jmp, Len(c), n + 3), NEW d, d = ArmAfter(e, n)
    PROVE  IsElif(c, t, n, e, d)
<1> DEFINE q == Len(c)
<1>1. q \in Nat /\ jmp \in Codes /\ Len(jmp) = q + 1 /\ jmp[q + 1].op = "JMP"
    BY Length DEF ArmLeft
<1> HIDE DEF q
<1>2. IsSet(jmp, q, n + 3, e)
    <2>1. q < Len(jmp) /\ n + 3 \in Nat
        BY <1>1
    <2> QED BY <2>1, <1>1, SetIs DEF q
<1>3. e \in Codes /\ Len(e) = q + 1 /\ e[q + 1].op = "JMP" /\ e[q + 1].n = n + 3
    BY <1>1, <1>2 DEF IsSet
<1>4. IsArm(e, n, d)
    BY <1>3, ArmIs
<1>5. /\ d \in Codes /\ Len(d) = (q + 1) + 2 + n /\ \A j \in 1 .. q + 1 : d[j] = e[j]
      /\ d[(q + 1) + 2].op = "TEST" /\ d[(q + 1) + 2].n = n
    BY <1>3, <1>4 DEF IsArm
<1>6. (q + 1) + 2 = q + 3 /\ (q + 1) + 2 + n = q + 3 + n /\ q + 1 \in 1 .. q + 1
    BY <1>1
<1>7. d[q + 1].op = "JMP" /\ d[q + 1].n = n + 3
    BY <1>3, <1>5, <1>6
<1>8. ArmLeft(c, t, d)
    <2>1. \A j \in 1 .. Len(jmp) : j # q + 1 => d[j] = jmp[j]
        BY <1>1, <1>2, <1>5 DEF IsSet
    <2>2. Len(jmp) <= Len(d)
        BY <1>1, <1>5
    <2> QED BY <2>1, <2>2, <1>5, <1>7, LeftGrows DEF q
<1>9. Aim(d, q) = Len(d) + 1
    <2>1. Aim(d, q) = q + 1 + (n + 3)
        BY <1>7 DEF Aim
    <2>2. q + 1 + (n + 3) = (q + 3 + n) + 1
        BY <1>1
    <2> QED BY <2>1, <2>2, <1>5, <1>6
<1> QED BY <1>3, <1>5, <1>6, <1>8, <1>9 DEF q, IsElif

(* The block of the else *)
LEMMA ElseIs ==
    ASSUME NEW c \in Codes, NEW t \in Nat, t < Len(c), NEW jmp, ArmLeft(c, t, jmp),
           Len(jmp) = Len(c) + 1, NEW n \in Nat,
           NEW d, d = SetExtra(jmp \o Block(n), Len(c), n)
    PROVE  ArmLeft(c, t, d) /\ Aim(d, Len(c)) = Len(d)
<1> DEFINE q == Len(c)
<1>1. q \in Nat /\ jmp \in Codes /\ Len(jmp) = q + 1 /\ jmp[q + 1].op = "JMP"
    BY Length DEF ArmLeft
<1> HIDE DEF q
<1>2. PICK body : body = jmp \o Block(n)
    OBVIOUS
<1>3. IsGrown(jmp, Block(n), body) /\ Len(Block(n)) = n
    BY <1>1, <1>2, Emitted, Grown
<1>4. body \in Codes /\ Len(body) = q + 1 + n /\ \A j \in 1 .. q + 1 : body[j] = jmp[j]
    BY <1>1, <1>3 DEF IsGrown
<1>5. IsSet(body, q, n, d)
    <2>1. q < Len(body)
        BY <1>1, <1>4
    <2> QED BY <2>1, <1>1, <1>2, <1>4, SetIs DEF q
<1>6. /\ d \in Codes /\ Len(d) = q + 1 + n /\ d[q + 1].op = body[q + 1].op /\ d[q + 1].n = n
      /\ \A j \in 1 .. Len(body) : j # q + 1 => d[j] = body[j]
    BY <1>4, <1>5 DEF IsSet
<1>7. q + 1 \in 1 .. q + 1 /\ Len(jmp) <= Len(d)
    BY <1>1, <1>6
<1>8. d[q + 1].op = "JMP"
    BY <1>1, <1>4, <1>6, <1>7
<1>9. ArmLeft(c, t, d)
    <2>1. \A j \in 1 .. q + 1 : j \in 1 .. Len(body)
        BY <1>1, <1>4
    <2>2. \A j \in 1 .. Len(jmp) : j # q + 1 => d[j] = jmp[j]
        BY <2>1, <1>1, <1>4, <1>6
    <2> QED BY <2>2, <1>6, <1>7, <1>8, LeftGrows DEF q
<1>10. Aim(d, q) = Len(d)
    <2>1. Aim(d, q) = q + 1 + n
        BY <1>6 DEF Aim
    <2> QED BY <2>1, <1>6
<1> QED BY <1>9, <1>10 DEF q

(* One more arm: its test is aimed at the end. *)
LEMMA ArmJoins ==
    ASSUME NEW d, NEW ts, NEW ks, Sites(d, ts, ks), TestsAimed(d, ts, ks), Len(ks) = Len(ts),
           NEW p \in Nat, p < Len(d), d[p + 1].op = "TEST", Aim(d, p) = Len(d),
           \A k \in 1 .. Len(ts) : ts[k] < p,
           NEW us, us = Append(ts, p)
    PROVE  Sites(d, us, ks) /\ TestsAimed(d, us, ks)
<1> DEFINE e == Len(d)  x == Len(ts)
<1>0. x \in Nat
    BY DEF Sites
<1>1. /\ ts \in Seq(Nat) /\ x \in Nat
      /\ \A k \in 1 .. x : ts[k] < e /\ d[ts[k] + 1].op = "TEST"
      /\ \A k, l \in 1 .. x : k < l => ts[k] < ts[l]
    BY DEF Sites
<1>2. us \in Seq(Nat) /\ Len(us) = x + 1 /\ us[x + 1] = p /\ \A k \in 1 .. x : us[k] = ts[k]
    BY <1>1
<1>3. \A k \in 1 .. x : Aim(d, ts[k]) = ks[k] + 1
    BY <1>1 DEF TestsAimed
<1>4. p < e /\ Aim(d, p) = e /\ \A k \in 1 .. x : ts[k] < p
    OBVIOUS
<1>5. Len(ks) = x
    OBVIOUS
<1> HIDE DEF e, x
<1>6. \A k \in 1 .. x + 1 : us[k] < e /\ d[us[k] + 1].op = "TEST"
    <2> SUFFICES ASSUME NEW k \in 1 .. x + 1
                 PROVE  us[k] < e /\ d[us[k] + 1].op = "TEST"
        OBVIOUS
    <2>1. CASE k = x + 1
        BY <2>1, <1>2, <1>4
    <2>2. CASE k # x + 1
        <3>1. k \in 1 .. x
            BY <2>2, <1>0
        <3> QED BY <3>1, <1>1, <1>2
    <2> QED BY <2>1, <2>2
<1>7. \A k, l \in 1 .. x + 1 : k < l => us[k] < us[l]
    <2> SUFFICES ASSUME NEW k \in 1 .. x + 1, NEW l \in 1 .. x + 1, k < l
                 PROVE  us[k] < us[l]
        OBVIOUS
    <2>1. k \in 1 .. x
        BY <1>0
    <2>2. CASE l = x + 1
        BY <2>1, <2>2, <1>2, <1>4
    <2>3. CASE l # x + 1
        <3>1. l \in 1 .. x
            BY <2>3, <1>0
        <3> QED BY <3>1, <2>1, <1>1, <1>2
    <2> QED BY <2>2, <2>3
<1>8. Sites(d, us, ks)
    BY <1>2, <1>6, <1>7 DEF Sites, e
<1>9. \A k \in 1 .. x + 1 : Aim(d, us[k]) = IF k <= x THEN ks[k] + 1 ELSE e
    <2> SUFFICES ASSUME NEW k \in 1 .. x + 1
                 PROVE  Aim(d, us[k]) = IF k <= x THEN ks[k] + 1 ELSE e
        OBVIOUS
    <2>1. CASE k = x + 1
        BY <2>1, <1>1, <1>2, <1>4
    <2>2. CASE k # x + 1
        <3>1. k \in 1 .. x /\ k <= x
            BY <2>2, <1>0
        <3> QED BY <3>1, <1>2, <1>3
    <2> QED BY <2>1, <2>2
<1>10. TestsAimed(d, us, ks)
    BY <1>2, <1>5, <1>9 DEF TestsAimed, e
<1> QED BY <1>8, <1>10

(* The walk patches the jump of one arm. *)
LEMMA Patched ==
    ASSUME NEW c, NEW ts, NEW js, Sites(c, ts, js), TestsAimed(c, ts, js),
           NEW w \in 1 .. Len(js), JumpsLinked(c, js, w, Len(c)),
           NEW d, d = SetExtra(c, js[w], Len(c) - (js[w] + 1))
    PROVE  /\ Sites(d, ts, js) /\ TestsAimed(d, ts, js) /\ Len(d) = Len(c)
           /\ JumpsLinked(d, js, w + 1, Len(c))
           /\ \A i \in 1 .. Len(c) : i # js[w] + 1 => d[i] = c[i]
<1> DEFINE q == Len(c)  x == Len(ts)  y == Len(js)
<1>0. PICK p, n : p = js[w] /\ n = q - (p + 1)
    OBVIOUS
<1>1. c \in Codes /\ ts \in Seq(Nat) /\ js \in Seq(Nat)
    BY DEF Sites
<1>2. q \in Nat /\ x \in Nat /\ y \in Nat
    BY <1>1, Length
<1>3. /\ \A k \in 1 .. x : ts[k] \in Nat /\ ts[k] < q /\ c[ts[k] + 1].op = "TEST"
      /\ \A k \in 1 .. y : js[k] \in Nat /\ js[k] < q /\ c[js[k] + 1].op = "JMP"
    BY SitesAre
<1>4. /\ \A k, l \in 1 .. x : k < l => ts[k] < ts[l]
      /\ \A k, l \in 1 .. y : k < l => js[k] < js[l]
    BY DEF Sites
<1>5. \A k \in 1 .. x : Aim(c, ts[k]) = IF k <= y THEN js[k] + 1 ELSE q
    BY DEF TestsAimed
<1>6. \A k \in 1 .. y : Aim(c, js[k]) = IF k < w THEN q ELSE IF k < y THEN js[k + 1] + 1 ELSE q
    BY DEF JumpsLinked
<1>7. w \in 1 .. y
    OBVIOUS
<1> HIDE DEF q, x, y
<1>8. p \in Nat /\ p < q /\ c[p + 1].op = "JMP"
    BY <1>0, <1>3, <1>7
<1>9. n \in Nat /\ p + 1 + n = q /\ p + 1 \in 1 .. q
    <2>1. \A i, z \in Nat : i < z => /\ z - (i + 1) \in Nat /\ i + 1 \in 1 .. z
                                   /\ i + 1 + (z - (i + 1)) = z
        OBVIOUS
    <2>2. p \in Nat /\ q \in Nat /\ p < q
        BY <1>2, <1>8
    <2>3. n = q - (p + 1)
        BY <1>0 DEF q
    <2> QED BY ONLY <2>1, <2>2, <2>3, Zenon
<1>10. IsSet(c, p, n, d)
    <2>1. d = SetExtra(c, p, n)
        BY <1>0 DEF q
    <2> QED BY <2>1, <1>1, <1>8, <1>9, SetIs DEF q
<1>11. /\ d \in Codes /\ Len(d) = q /\ d[p + 1].op = "JMP" /\ d[p + 1].n = n
       /\ \A i \in 1 .. q : i # p + 1 => d[i] = c[i]
    BY <1>8, <1>10 DEF IsSet, q
<1>12. \A k \in 1 .. x : d[ts[k] + 1] = c[ts[k] + 1]
    <2> SUFFICES ASSUME NEW k \in 1 .. x
                 PROVE  d[ts[k] + 1] = c[ts[k] + 1]
        OBVIOUS
    <2>1. ts[k] \in Nat /\ ts[k] < q /\ c[ts[k] + 1].op = "TEST"
        BY <1>3
    <2>2. ts[k] # p
        BY <2>1, <1>8
    <2>3. ts[k] + 1 \in 1 .. q /\ ts[k] + 1 # p + 1
        BY <2>1, <2>2, <1>2, <1>8, SMTT(30)
    <2> QED BY <2>3, <1>11
<1>13. \A k \in 1 .. y : k # w => d[js[k] + 1] = c[js[k] + 1]
    <2> SUFFICES ASSUME NEW k \in 1 .. y, k # w
                 PROVE  d[js[k] + 1] = c[js[k] + 1]
        OBVIOUS
    <2>1. js[k] \in Nat /\ js[k] < q
        BY <1>3
    <2>2. js[k] # p
        <3>1. k < w \/ w < k
            BY <1>2, <1>7
        <3>2. js[k] < js[w] \/ js[w] < js[k]
            BY <3>1, <1>4, <1>7
        <3> QED BY <3>2, <2>1, <1>0, <1>8
    <2>3. js[k] + 1 \in 1 .. q /\ js[k] + 1 # p + 1
        BY <2>1, <2>2, <1>2, <1>8
    <2> QED BY <2>3, <1>11
<1>14. Sites(d, ts, js)
    <2>1. \A k \in 1 .. x : ts[k] < q /\ d[ts[k] + 1].op = "TEST"
        BY <1>3, <1>12
    <2>2. \A k \in 1 .. y : js[k] < q /\ d[js[k] + 1].op = "JMP"
        <3> SUFFICES ASSUME NEW k \in 1 .. y
                     PROVE  js[k] < q /\ d[js[k] + 1].op = "JMP"
            OBVIOUS
        <3>1. CASE k = w
            BY <3>1, <1>0, <1>8, <1>11
        <3>2. CASE k # w
            <4>1. d[js[k] + 1] = c[js[k] + 1]
                BY <3>2, <1>13
            <4> QED BY <4>1, <1>3
        <3> QED BY <3>1, <3>2
    <2> QED BY <2>1, <2>2, <1>1, <1>4, <1>11 DEF Sites, x, y
<1>15. TestsAimed(d, ts, js)
    BY <1>5, <1>11, <1>12 DEF TestsAimed, Aim, x, y
<1>16. JumpsLinked(d, js, w + 1, q)
    <2> SUFFICES ASSUME NEW k \in 1 .. y
                 PROVE  Aim(d, js[k]) = IF k < w + 1 THEN q ELSE IF k < y THEN js[k + 1] + 1 ELSE q
        BY <1>11 DEF JumpsLinked, y
    <2>1. CASE k = w
        <3>1. Aim(d, js[k]) = q
            BY <2>1, <1>0, <1>9, <1>11 DEF Aim
        <3> QED BY <3>1, <2>1, <1>2
    <2>2. CASE k # w
        <3>1. Aim(d, js[k]) = Aim(c, js[k])
            BY <2>2, <1>13 DEF Aim
        <3>2. k < w <=> k < w + 1
            BY <2>2, <1>2, <1>7
        <3> QED BY <3>1, <3>2, <1>6
    <2> QED BY <2>1, <2>2
<1> QED BY <1>0, <1>11, <1>14, <1>15, <1>16 DEF q

-----------------------------------------------------------------------------
(* The steps of the parser *)
LEMMA ChainStarts == ~BareElif /\ Init => ChainInv
<1>1. \A n \in 0 .. MaxBody : Block(n) \in Codes
    BY BoundsAssumption, Emitted
<1> QED BY <1>1 DEF Init, ChainInv

(* if. *)
LEMMA IfKeeps ==
    ASSUME ChainInv, ParseIf
    PROVE  ChainInv'
<1>1. ps' = "arms" /\ tmp2' = 0 /\ tests = <<>> /\ jumps = <<>> /\ jumps' = jumps /\ code \in Codes
    BY DEF ParseIf, ChainInv
<1>2. PICK n \in 0 .. MaxBody : tmp' = Size(code) + 2 /\ tmp3' = tmp' /\ WriteArm(code, n, tmp')
    BY DEF ParseIf
<1>3. n \in Nat /\ Len(code) \in Nat /\ tmp' \in Int
    BY <1>1, <1>2, BoundsAssumption, Length DEF Size
<1>4. tests' = Append(<<>>, Len(code) + 1) /\ code' = ArmAfter(code, n)
    BY <1>1, <1>2, <1>3, ArmWritten
<1>5. /\ Sites(code', tests', jumps') /\ TestsAimed(code', tests', jumps')
      /\ JumpsLinked(code', jumps', 1, Len(code') + 1)
    BY <1>1, <1>3, <1>4, FirstArm
<1>6. Len(tests') = 1 /\ tests'[1] = Len(code) + 1 /\ Len(jumps') = 0
    BY <1>1, <1>3, <1>4
<1>7. tmp' = tests'[1] + 1 /\ tmp3' = tests'[1] + 1
    BY <1>2, <1>3, <1>6 DEF Size
<1>8. ArmsOpen'
    BY <1>1, <1>5, <1>6, <1>7 DEF ArmsOpen
<1> QED BY <1>1, <1>8 DEF ChainInv

(* What an open chain is followed by: the jump behind its last arm *)
LEMMA JumpBehind ==
    ASSUME ArmsOpen, NEW t, t = tests[Len(tests)],
           NEW jmp, jmp = Append(SetExtra(code, tmp - 1, code[tmp].n + 1), Emit("JMP"))
    PROVE  /\ code \in Codes /\ Len(code) \in Nat /\ t \in Nat /\ t < Len(code) /\ tmp = t + 1
           /\ ArmLeft(code, t, jmp) /\ Len(jmp) = Len(code) + 1
<1>1. code \in Codes /\ Len(code) \in Nat
    BY Length DEF ArmsOpen, Sites
<1>2. Len(tests) \in 1 .. Len(tests) /\ ~(Len(tests) <= Len(jumps))
    <2>1. Len(tests) \in Nat /\ Len(jumps) \in Nat /\ Len(tests) = Len(jumps) + 1
        BY DEF ArmsOpen, Sites
    <2> QED BY <2>1
<1>3. t \in Nat /\ t < Len(code) /\ code[t + 1].op = "TEST"
    BY <1>2, SitesAre DEF ArmsOpen
<1>4. Aim(code, t) = Len(code)
    BY <1>2 DEF ArmsOpen, TestsAimed
<1>5. tmp = t + 1
    BY DEF ArmsOpen
<1>6. tmp - 1 = t
    BY <1>3, <1>5
<1>7. jmp = Append(SetExtra(code, t, code[t + 1].n + 1), Emit("JMP"))
    BY <1>5, <1>6
<1> QED BY <1>1, <1>3, <1>4, <1>5, <1>7, LeftAs

(* elif. *)
LEMMA ElifKeeps ==
    ASSUME ChainInv, ParseElif
    PROVE  ChainInv'
<1>1. ps = "arms" /\ ps' = "arms" /\ tmp3' = tmp3 /\ jumps' = Append(jumps, Len(code)) /\ ArmsOpen
    BY DEF ParseElif, ElifAimed, ChainInv, Size
<1>2. PICK jmp : jmp = Append(SetExtra(code, tmp - 1, code[tmp].n + 1), Emit("JMP"))
    OBVIOUS
<1>3. PICK n \in 0 .. MaxBody :
          /\ tmp' = Len(jmp) + 2 /\ tmp2' = Len(jmp)
          /\ WriteArm(SetExtra(jmp, Len(jmp) - 1, (Len(jmp) + 2 + n) - Len(jmp) + 1), n, tmp')
    BY <1>2 DEF ParseElif, ElifAimed, Size
<1>4. PICK t : t = tests[Len(tests)]
    OBVIOUS
<1>5. /\ code \in Codes /\ Len(code) \in Nat /\ t \in Nat /\ t < Len(code) /\ tmp = t + 1
      /\ ArmLeft(code, t, jmp) /\ Len(jmp) = Len(code) + 1
    BY <1>1, <1>2, <1>4, JumpBehind
<1>6. n \in Nat /\ Len(jmp) - 1 = Len(code) /\ (Len(jmp) + 2 + n) - Len(jmp) + 1 = n + 3
      /\ tmp' \in Int
    BY <1>3, <1>5, BoundsAssumption
<1>7. PICK e : e = SetExtra(jmp, Len(code), n + 3)
    OBVIOUS
<1>8. WriteArm(e, n, tmp')
    BY <1>3, <1>6, <1>7
<1>9. PICK d : d = ArmAfter(e, n)
    OBVIOUS
<1>10. /\ e \in Codes /\ Len(e) = Len(code) + 1
       /\ ArmLeft(code, t, d) /\ Aim(d, Len(code)) = Len(d) + 1 /\ Len(d) = Len(code) + 3 + n
       /\ d[Len(code) + 3].op = "TEST" /\ d[Len(code) + 3].n = n
    <2>1. IsElif(code, t, n, e, d)
        BY <1>5, <1>6, <1>7, <1>9, ElifIs
    <2> QED BY <2>1 DEF IsElif
<1>11. tests' = Append(tests, Len(e) + 1) /\ code' = d
    BY <1>6, <1>8, <1>9, <1>10, ArmWritten
<1>12. PICK p : p = Len(code) + 2
    OBVIOUS
<1>13. /\ p \in Nat /\ p < Len(d) /\ p + 1 = Len(code) + 3 /\ Len(e) + 1 = p
       /\ p + 1 + n = Len(d)
    BY <1>5, <1>6, <1>10, <1>12
<1>14. PICK ks : ks = Append(jumps, Len(code))
    OBVIOUS
<1>15. /\ Sites(d, tests, ks) /\ TestsAimed(d, tests, ks)
       /\ JumpsLinked(d, ks, 1, Aim(d, Len(code))) /\ Len(ks) = Len(tests)
    <2>1. /\ Sites(code, tests, jumps) /\ TestsAimed(code, tests, jumps)
          /\ JumpsLinked(code, jumps, 1, Len(code) + 1) /\ Len(tests) = Len(jumps) + 1
        BY <1>1 DEF ArmsOpen
    <2>2. ArmLeft(code, tests[Len(tests)], d)
        BY <1>4, <1>10
    <2>3. LinkedTo(d, tests, ks, Len(code))
        BY <2>1, <2>2, <1>14, LeftLinks
    <2> QED BY <2>3 DEF LinkedTo
<1>16. \A k \in 1 .. Len(tests) : tests[k] < p
    <2>1. \A k \in 1 .. Len(tests) : tests[k] \in Nat /\ tests[k] < Len(code)
        BY <1>1, SitesAre DEF ArmsOpen
    <2> QED BY <2>1, <1>5, <1>12
<1>17. PICK us : us = Append(tests, p)
    OBVIOUS
<1>18. Aim(d, p) = Len(d)
    BY <1>10, <1>13 DEF Aim
<1>19. Sites(d, us, ks) /\ TestsAimed(d, us, ks)
    BY <1>10, <1>13, <1>15, <1>16, <1>17, <1>18, ArmJoins
<1>20. tests' = us /\ jumps' = ks
    BY <1>1, <1>11, <1>13, <1>14, <1>17
<1>21. tests \in Seq(Nat) /\ jumps \in Seq(Nat) /\ Len(tests) = Len(jumps) + 1
    BY <1>1 DEF ArmsOpen, Sites
<1>22. /\ Len(us) = Len(tests) + 1 /\ us[Len(us)] = p /\ us[1] = tests[1]
       /\ Len(ks) = Len(jumps) + 1
    BY <1>5, <1>13, <1>14, <1>17, <1>21, SMTT(30)
<1>23. tmp' = p + 1 /\ tmp2' \in Nat /\ tmp2' # 0 /\ Len(ks) # 0
    BY <1>3, <1>5, <1>12, <1>21, <1>22
<1>24. tmp3' = us[1] + 1
    BY <1>1, <1>22 DEF ArmsOpen
<1>25. ArmsOpen'
    BY <1>10, <1>11, <1>15, <1>19, <1>20, <1>22, <1>23, <1>24 DEF ArmsOpen
<1> QED BY <1>1, <1>25 DEF ChainInv

(* else. *)
LEMMA ElseKeeps ==
    ASSUME ChainInv, ParseElse
    PROVE  ChainInv'
<1>1. ps = "arms" /\ ps' = "link" /\ tmp3' = tmp3 /\ jumps' = Append(jumps, Len(code))
      /\ tests' = tests /\ ArmsOpen
    BY DEF ParseElse, ChainInv, Size
<1>2. PICK jmp : jmp = Append(SetExtra(code, tmp - 1, code[tmp].n + 1), Emit("JMP"))
    OBVIOUS
<1>3. PICK n \in 0 .. MaxBody :
          code' = SetExtra(jmp \o Block(n), Len(jmp) - 1, Len(jmp \o Block(n)) - Len(jmp))
    BY <1>2 DEF ParseElse, Size
<1>4. PICK t : t = tests[Len(tests)]
    OBVIOUS
<1>5. /\ code \in Codes /\ Len(code) \in Nat /\ t \in Nat /\ t < Len(code)
      /\ ArmLeft(code, t, jmp) /\ Len(jmp) = Len(code) + 1
    BY <1>1, <1>2, <1>4, JumpBehind
<1>6. n \in Nat
    BY BoundsAssumption
<1>7. Len(jmp) - 1 = Len(code) /\ Len(jmp \o Block(n)) - Len(jmp) = n
    <2>1. jmp \in Codes /\ Block(n) \in Codes /\ Len(Block(n)) = n
        BY <1>5, <1>6, Emitted DEF ArmLeft
    <2>2. IsGrown(jmp, Block(n), jmp \o Block(n))
        BY <2>1, Grown
    <2>3. Len(jmp \o Block(n)) = Len(jmp) + n
        BY <2>1, <2>2 DEF IsGrown
    <2> QED BY <2>3, <1>5, <1>6
<1>8. PICK d : d = SetExtra(jmp \o Block(n), Len(code), n)
    OBVIOUS
<1>9. code' = d
    BY <1>3, <1>7, <1>8
<1>10. ArmLeft(code, t, d) /\ Aim(d, Len(code)) = Len(d)
    BY <1>5, <1>6, <1>8, ElseIs
<1>11. PICK ks : ks = Append(jumps, Len(code))
    OBVIOUS
<1>12. /\ Sites(d, tests, ks) /\ TestsAimed(d, tests, ks)
       /\ JumpsLinked(d, ks, 1, Len(d)) /\ Len(ks) = Len(tests)
    <2>1. /\ Sites(code, tests, jumps) /\ TestsAimed(code, tests, jumps)
          /\ JumpsLinked(code, jumps, 1, Len(code) + 1) /\ Len(tests) = Len(jumps) + 1
        BY <1>1 DEF ArmsOpen
    <2>2. ArmLeft(code, tests[Len(tests)], d)
        BY <1>4, <1>10
    <2>3. LinkedTo(d, tests, ks, Len(code))
        BY <2>1, <2>2, <1>11, LeftLinks
    <2> QED BY <2>3, <1>10 DEF LinkedTo
<1>13. Len(tests) >= 1 /\ Len(ks) # 0
    <2>1. Len(tests) = Len(jumps) + 1 /\ Len(jumps) \in Nat
        BY <1>1 DEF ArmsOpen, Sites
    <2> QED BY <2>1, <1>12
<1>14. ArmsClosed'
    BY <1>1, <1>9, <1>11, <1>12, <1>13 DEF ArmsClosed
<1>15. tmp3' = tests'[1] + 1
    BY <1>1 DEF ArmsOpen
<1> QED BY <1>1, <1>9, <1>11, <1>12, <1>14, <1>15 DEF ChainInv

(* No else: only where there is no elif, so the test already leads to the end. *)
LEMMA NoElseKeeps ==
    ASSUME ChainInv, NoElse
    PROVE  ChainInv'
<1>1. ps = "arms" /\ ps' = "link" /\ tmp3' = tmp3 /\ jumps' = jumps /\ tests' = tests
      /\ ArmsOpen /\ ~BareElif /\ Len(tests) = 1
    BY DEF NoElse, ChainInv
<1>2. Len(jumps) = 0
    <2>1. Len(tests) = Len(jumps) + 1 /\ Len(jumps) \in Nat /\ Len(tests) = 1
        BY <1>1, SMTT(30) DEF ArmsOpen, Sites
    <2>2. \A x, y \in Nat : x = y + 1 /\ x = 1 => y = 0
        OBVIOUS
    <2> QED BY <2>1, <2>2
<1>3. tmp2 = 0
    BY <1>1, <1>2 DEF ArmsOpen
<1>4. code' = code
    BY <1>3 DEF NoElse
<1>5. Sites(code, tests, jumps) /\ TestsAimed(code, tests, jumps) /\ tmp3 = tests[1] + 1
    BY <1>1 DEF ArmsOpen
<1>6. JumpsLinked(code, jumps, 1, Len(code))
    BY <1>2 DEF JumpsLinked
<1>7. ArmsClosed'
    BY <1>1, <1>2, <1>4, <1>5 DEF ArmsClosed
<1> QED BY <1>1, <1>4, <1>5, <1>6, <1>7 DEF ChainInv

(* The walk starts behind the first jump, or at the end when there is none. *)
LEMMA StartKeeps ==
    ASSUME ChainInv, StartWalk
    PROVE  ChainInv'
<1>1. /\ ps = "link" /\ ps' = "walk" /\ jumps' = jumps /\ tests' = tests /\ code' = code
      /\ final' = Len(code) /\ tmp3' = tmp3 + code[tmp3].n
      /\ ArmsClosed /\ JumpsLinked(code, jumps, 1, Len(code)) /\ tmp3 = tests[1] + 1 /\ ~BareElif
    BY DEF StartWalk, ChainInv, Size
<1>2. Len(tests) \in Nat /\ Len(jumps) \in Nat
    BY <1>1 DEF ArmsClosed, Sites
<1>3. tmp3' = Aim(code, tests[1])
    BY <1>1 DEF Aim
<1>4. 1 \in 1 .. Len(tests) /\ 1 \in 1 .. Len(jumps) + 1
    BY <1>1, <1>2 DEF ArmsClosed
<1>5. tmp3' = IF 1 <= Len(jumps) THEN jumps[1] + 1 ELSE Len(code)
    BY <1>1, <1>3, <1>4 DEF ArmsClosed, TestsAimed
<1>6. Walking(1)'
    BY <1>1, <1>4, <1>5 DEF Walking
<1>7. ArmsClosed'
    BY <1>1 DEF ArmsClosed
<1> QED BY <1>1, <1>4, <1>6, <1>7 DEF ChainInv

(* Where the walk is *)
LEMMA WalkIsAt ==
    ASSUME ChainInv, ps = "walk", tmp3 # final
    PROVE  /\ final = Len(code) /\ Len(code) \in Nat
           /\ \E w \in 1 .. Len(jumps) :
                 /\ Walking(w) /\ tmp3 = jumps[w] + 1 /\ jumps[w] \in Nat
                 /\ jumps[w] + 1 \in 1 .. Len(code)
<1>1. ArmsClosed /\ final = Len(code)
    BY DEF ChainInv
<1>2. PICK w \in 1 .. Len(jumps) + 1 : Walking(w)
    BY DEF ChainInv
<1>3. Len(jumps) \in Nat /\ Len(code) \in Nat
    BY <1>1, Length DEF ArmsClosed, Sites
<1>4. w <= Len(jumps) /\ tmp3 = jumps[w] + 1
    BY <1>2 DEF Walking
<1>5. w \in 1 .. Len(jumps)
    BY <1>3, <1>4
<1>6. jumps[w] \in Nat /\ jumps[w] < Len(code)
    BY <1>1, <1>5, SitesAre DEF ArmsClosed
<1>7. jumps[w] + 1 \in 1 .. Len(code)
    BY <1>3, <1>6
<1> QED BY <1>1, <1>2, <1>3, <1>4, <1>5, <1>6, <1>7

(* A step of the walk is at a jump of the statement. *)
LEMMA WalkIs ==
    ASSUME ChainInv, WalkStep
    PROVE  \E w \in 1 .. Len(jumps) :
              /\ Walking(w) /\ tmp3 = jumps[w] + 1 /\ tmp3 # Len(code) /\ final = Len(code)
              /\ ps' = "walk" /\ tmp3' = Aim(code, jumps[w])
              /\ code' = SetExtra(code, jumps[w], Len(code) - (jumps[w] + 1))
<1>1. ps = "walk" /\ tmp3 # final
    BY DEF WalkStep
<1>2. PICK w \in 1 .. Len(jumps) :
                 /\ Walking(w) /\ tmp3 = jumps[w] + 1 /\ jumps[w] \in Nat
                 /\ jumps[w] + 1 \in 1 .. Len(code)
    BY <1>1, WalkIsAt
<1>3. final = Len(code)
    BY <1>1, WalkIsAt
<1>4. InCode
    BY <1>2 DEF InCode, Size
<1>5. /\ tmp3' = tmp3 + code[tmp3].n /\ ps' = ps
      /\ code' = SetExtra(code, tmp3 - 1, final - tmp3)
    BY <1>4 DEF WalkStep
<1>6. tmp3 - 1 = jumps[w]
    BY <1>2
<1>7. tmp3' = Aim(code, jumps[w])
    BY <1>2, <1>5 DEF Aim
<1> QED BY <1>1, <1>2, <1>3, <1>5, <1>6, <1>7

(* The jump is sent to the end, and the walk goes on at the next one. *)
LEMMA WalkKeeps ==
    ASSUME ChainInv, WalkStep
    PROVE  ChainInv'
<1>1. PICK w \in 1 .. Len(jumps) :
              /\ Walking(w) /\ tmp3 = jumps[w] + 1 /\ tmp3 # Len(code) /\ final = Len(code)
              /\ ps' = "walk" /\ tmp3' = Aim(code, jumps[w])
              /\ code' = SetExtra(code, jumps[w], Len(code) - (jumps[w] + 1))
    BY WalkIs
<1>2. final' = final /\ tests' = tests /\ jumps' = jumps /\ ps = "walk"
    BY DEF WalkStep
<1>3. ArmsClosed /\ ~BareElif
    BY <1>2 DEF ChainInv
<1>4. JumpsLinked(code, jumps, w, Len(code))
    BY <1>1 DEF Walking
<1>5. PICK d : d = SetExtra(code, jumps[w], Len(code) - (jumps[w] + 1))
    OBVIOUS
<1>6. /\ Sites(d, tests, jumps) /\ TestsAimed(d, tests, jumps) /\ Len(d) = Len(code)
      /\ JumpsLinked(d, jumps, w + 1, Len(code))
    BY <1>3, <1>4, <1>5, Patched DEF ArmsClosed
<1>7. code' = d
    BY <1>1, <1>5
<1>8. Len(jumps) \in Nat
    BY <1>3 DEF ArmsClosed, Sites
<1>9. w + 1 \in 1 .. Len(jumps) + 1 /\ (w + 1 <= Len(jumps) <=> w < Len(jumps)) /\ ~(w < w)
    BY <1>8
<1>10. tmp3' = IF w + 1 <= Len(jumps) THEN jumps[w + 1] + 1 ELSE Len(code)
    BY <1>1, <1>4, <1>9 DEF JumpsLinked
<1>11. Walking(w + 1)'
    BY <1>1, <1>2, <1>6, <1>7, <1>9, <1>10 DEF Walking
<1>12. ArmsClosed'
    BY <1>2, <1>3, <1>6, <1>7 DEF ArmsClosed
<1> QED BY <1>1, <1>2, <1>3, <1>6, <1>7, <1>9, <1>11, <1>12 DEF ChainInv

(* The walk ends when every jump has been sent to the end. *)
LEMMA EndKeeps ==
    ASSUME ChainInv, WalkEnds
    PROVE  ChainInv'
<1>1. /\ ps = "walk" /\ ps' = "done" /\ code' = code /\ tests' = tests /\ jumps' = jumps
      /\ tmp3 = final /\ final = Len(code) /\ ArmsClosed /\ ~BareElif
    BY DEF WalkEnds, ChainInv
<1>2. PICK w \in 1 .. Len(jumps) + 1 : Walking(w)
    BY <1>1 DEF ChainInv
<1>3. Len(jumps) \in Nat /\ Len(code) \in Nat
    BY <1>1, Length DEF ArmsClosed, Sites
<1>4. \A k \in 1 .. Len(jumps) : jumps[k] \in Nat /\ jumps[k] < Len(code)
    BY <1>1, SitesAre DEF ArmsClosed
<1>5. \A k, l \in 1 .. Len(jumps) : k < l => jumps[k] < jumps[l]
    BY <1>1 DEF ArmsClosed, Sites
<1>6. \A k \in 1 .. Len(jumps) : k < w \/ k = Len(jumps)
    <2> SUFFICES ASSUME NEW k \in 1 .. Len(jumps), ~(k < w), k # Len(jumps)
                 PROVE  FALSE
        OBVIOUS
    <2>1. w \in 1 .. Len(jumps) /\ w < Len(jumps) /\ Len(jumps) \in 1 .. Len(jumps)
        BY <1>3
    <2>2. jumps[w] + 1 = Len(code)
        BY <2>1, <1>1, <1>2 DEF Walking
    <2>3. jumps[w] < jumps[Len(jumps)]
        BY <2>1, <1>5
    <2>4. jumps[w] \in Nat /\ jumps[Len(jumps)] \in Nat /\ jumps[Len(jumps)] < Len(code)
        BY <2>1, <1>4
    <2> QED BY <2>2, <2>3, <2>4, <1>3
<1>7. \A k \in 1 .. Len(jumps) : Aim(code, jumps[k]) = Len(code)
    BY <1>2, <1>3, <1>6 DEF Walking, JumpsLinked
<1>8. \A k \in 1 .. Len(jumps) : k < Len(jumps) + 1
    BY <1>3
<1>9. JumpsLinked(code, jumps, Len(jumps) + 1, Len(code))
    BY <1>7, <1>8 DEF JumpsLinked
<1>10. ArmsClosed'
    BY <1>1 DEF ArmsClosed
<1> QED BY <1>1, <1>9, <1>10 DEF ChainInv

(* A stutter. *)
LEMMA ChainStays ==
    ASSUME ChainInv, UNCHANGED vars
    PROVE  ChainInv'
BY DEF ChainInv, ArmsOpen, ArmsClosed, Walking, vars

(* The invariant of the if chain. *)
LEMMA ChainHolds ==
    ASSUME ~BareElif
    PROVE  Spec => []ChainInv
<1>1. Init => ChainInv
    BY ChainStarts
<1>2. ChainInv /\ [Next]_vars => ChainInv'
    <2> SUFFICES ASSUME ChainInv, [Next]_vars
                 PROVE  ChainInv'
        OBVIOUS
    <2>1. CASE ParseIf
        BY <2>1, IfKeeps
    <2>2. CASE ParseElif
        BY <2>2, ElifKeeps
    <2>3. CASE ParseElse
        BY <2>3, ElseKeeps
    <2>4. CASE NoElse
        BY <2>4, NoElseKeeps
    <2>5. CASE StartWalk
        BY <2>5, StartKeeps
    <2>6. CASE WalkStep
        BY <2>6, WalkKeeps
    <2>7. CASE WalkEnds
        BY <2>7, EndKeeps
    <2>8. CASE UNCHANGED vars
        BY <2>8, ChainStays
    <2> QED BY <2>1, <2>2, <2>3, <2>4, <2>5, <2>6, <2>7, <2>8 DEF Next, Step
<1> QED BY <1>1, <1>2, PTL DEF Spec

(* Unless a statement has an elif and no else, the walk that re-aims the   *)
(* jumps (parser.c, the loop to final_pos) stays in the emitted code,      *)
(* whatever the number of arms and the size of the blocks.                 *)
THEOREM WalkStaysInCode ==
    ASSUME ~BareElif
    PROVE  Spec => []WalkInCode
<1>1. ChainInv => WalkInCode
    BY DEF ChainInv, WalkInCode
<1> QED BY <1>1, ChainHolds, PTL

(* In the finished statement every failed test leads to the next arm, the  *)
(* else block or the end, and every arm ends with a jump to the end.       *)
THEOREM ChainLinked ==
    ASSUME ~BareElif
    PROVE  Spec => []ArmsLinked
<1>1. ChainInv => ArmsLinked
    <2> SUFFICES ASSUME ChainInv, ps = "done"
                 PROVE  ArmsLinked
        BY DEF ArmsLinked
    <2>1. ArmsClosed /\ JumpsLinked(code, jumps, Len(jumps) + 1, Len(code))
        BY DEF ChainInv
    <2>2. Len(jumps) \in Nat
        BY <2>1 DEF ArmsClosed, Sites
    <2>3. \A k \in 1 .. Len(jumps) : k < Len(jumps) + 1
        BY <2>2
    <2>4. \A k \in 1 .. Len(jumps) : code[jumps[k] + 1].op = "JMP"
        BY <2>1, SitesAre DEF ArmsClosed
    <2>5. \A k \in 1 .. Len(jumps) : Target(jumps[k]) = Size(code)
        BY <2>1, <2>3 DEF JumpsLinked, Aim, Target, Size
    <2>6. \A k \in 1 .. Len(tests) :
             Target(tests[k]) = IF k <= Len(jumps) THEN jumps[k] + 1 ELSE Size(code)
        BY <2>1 DEF ArmsClosed, TestsAimed, Aim, Target, Size
    <2> QED BY <2>4, <2>5, <2>6 DEF ArmsLinked
<1> QED BY <1>1, ChainHolds, PTL

(* The walk writes the operands of the jumps of this statement only: no    *)
(* instruction of a block is changed.                                      *)
THEOREM WalkPatchesOnlyJumps ==
    ASSUME ~BareElif
    PROVE  Spec => WalkPatchesJumps
<1> DEFINE Patches == ps = "walk" => \A i \in 1 .. Size(code) :
              code'[i] # code[i] => i - 1 \in {jumps[k] : k \in 1 .. Len(jumps)}
<1>1. ChainInv /\ [Next]_vars => [Patches]_vars
    <2> SUFFICES ASSUME ChainInv, [Next]_vars, ps = "walk",
                        NEW i \in 1 .. Len(code), code'[i] # code[i]
                 PROVE  i - 1 \in {jumps[k] : k \in 1 .. Len(jumps)}
        BY DEF Size
    <2>1. WalkStep
        BY DEF Next, Step, ParseIf, ParseElif, ElifAimed, ParseElse, NoElse, StartWalk, WalkEnds, vars
    <2>2. PICK w \in 1 .. Len(jumps) :
              /\ Walking(w)
              /\ code' = SetExtra(code, jumps[w], Len(code) - (jumps[w] + 1))
        BY <2>1, WalkIs
    <2>3. ArmsClosed
        BY DEF ChainInv
    <2>4. \A j \in 1 .. Len(code) : j # jumps[w] + 1 => code'[j] = code[j]
        BY <2>2, <2>3, Patched DEF ArmsClosed, Walking
    <2>5. i = jumps[w] + 1
        BY <2>4
    <2>6. jumps[w] \in Nat
        BY <2>3, SitesAre DEF ArmsClosed
    <2>7. i - 1 = jumps[w]
        BY <2>5, <2>6
    <2> QED BY <2>7
<1> QED BY <1>1, ChainHolds, PTL DEF Spec, WalkPatchesJumps

-----------------------------------------------------------------------------
(* The reader of the lexer.  What is said of a reader r is said of the     *)
(* text of the state.                                                      *)

Texts == UNION {Range(s) : s \in Scripts}
Symbols == {EOF} \cup Garbage \cup UNION {Range(t) : t \in Texts}
Readers == [upto : Nat, ch : Symbols, on : BOOLEAN, buf : Seq(Symbols)]

(* Its record holds the last characters read. *)
Recorded(r) ==
    /\ r \in Readers /\ r.upto > 0
    /\ \A k \in 1 .. Len(r.buf) : r.buf[k] = Char(r.upto - Len(r.buf) + k)

(* Characters are recorded, read again, and read without a record. *)
Recording(r) == Recorded(r) /\ r.on /\ r.ch = Char(r.upto)
Replaying(r) == Recorded(r) /\ ~r.on /\ r.ch = Char(r.upto - Len(r.buf))
Plain(r) == r \in Readers /\ r.upto > 0 /\ ~r.on /\ r.buf = <<>> /\ r.ch = Char(r.upto)

(* Before the first character *)
Unread(r) == r \in Readers /\ r.upto = 0 /\ ~r.on /\ r.buf = <<>>

Prefix == {"r", "u", "b"}
AllPrefix(b) == \A k \in 1 .. Len(b) : k < Len(b) => b[k] \in Prefix

HeadHeld ==
    /\ Recording(in) /\ AllPrefix(in.buf) /\ Len(in.buf) >= 1
    /\ Len(in.buf) <= 1 + (IF "r" \in head THEN 1 ELSE 0) + (IF head \cap {"u", "b"} # {} THEN 1 ELSE 0)
NameHeld == Replaying(in) /\ AllPrefix(in.buf) /\ Len(in.buf) <= 2
StringHeld ==
    \/ Plain(in)
    \/ /\ Replaying(in) /\ Len(in.buf) = 1 /\ in.ch = quote.sign /\ in.ch \in Quotes
       /\ ~quote.escape /\ ~quote.long

(* The inductive invariant *)
ReaderInv ==
    /\ text \in Texts /\ script \in Seq(Texts)
    /\ mode = "head" => HeadHeld
    /\ mode = "name" => NameHeld
    /\ mode = "string" => StringHeld
    /\ mode \notin {"head", "name", "string"} =>
          Plain(in) \/ (Unread(in) /\ mode = "between" /\ current_indent = -1)

(* A text is a sequence of its own characters. *)
LEMMA TextIs == \A t \in Texts : t \in Seq(Range(t))
<1> SUFFICES ASSUME NEW t \in Texts
             PROVE  t \in Seq(Range(t))
    OBVIOUS
<1>1. PICK s \in Scripts : t \in Range(s)
    BY DEF Texts
<1>2. PICK i \in DOMAIN s : t = s[i]
    BY <1>1 DEF Range
<1> QED BY <1>2, ScriptsAreTexts

(* Every position has a character, or the end of the file. *)
LEMMA CharIs ==
    ASSUME text \in Texts
    PROVE  Len(text) \in Nat /\ \A i \in Nat : i > 0 => Char(i) \in Symbols
<1>1. text \in Seq(Range(text))
    BY TextIs
<1>2. Len(text) \in Nat /\ \A i \in 1 .. Len(text) : text[i] \in Range(text)
    BY <1>1
<1>3. ASSUME NEW i \in Nat, i > 0
      PROVE  Char(i) \in Symbols
    <2>1. CASE i <= Len(text)
        <3>1. i \in 1 .. Len(text)
            BY <2>1, <1>2, <1>3
        <3> QED BY <3>1, <2>1, <1>2 DEF Char, Symbols
    <2>2. CASE ~(i <= Len(text))
        BY <2>2 DEF Char, Symbols
    <2> QED BY <2>1, <2>2
<1> QED BY <1>2, <1>3

(* One character is read from the file. *)
IsRead(r, d) ==
    /\ d \in Readers /\ d.on = r.on /\ d.buf = r.buf
    /\ \/ d = r /\ ~r.on
       \/ d.upto = r.upto + 1 /\ d.ch = Char(r.upto + 1)

(* Read takes the next character of the text. *)
LEMMA ReadIs ==
    ASSUME text \in Texts, NEW r \in Readers
    PROVE  IsRead(r, Read(r))
<1>1. PICK c, u : u = r.upto + 1 /\ c = Char(u)
    OBVIOUS
<1>2. u \in Nat /\ u > 0
    BY <1>1 DEF Readers
<1>3. c \in Symbols
    BY <1>1, <1>2, CharIs
<1>4. PICK d : d = [r EXCEPT !.upto = u, !.ch = c]
    OBVIOUS
<1>5. d \in Readers /\ d.on = r.on /\ d.buf = r.buf /\ d.upto = u /\ d.ch = c
    BY <1>2, <1>3, <1>4 DEF Readers
<1>6. (Read(r) = r /\ ~r.on) \/ Read(r) = d
    BY <1>1, <1>4 DEF Read
<1>7. IsRead(r, d)
    BY <1>1, <1>5 DEF IsRead
<1>8. ~r.on => IsRead(r, r)
    BY DEF IsRead
<1> QED BY <1>6, <1>7, <1>8

(* A plain reader stays plain. *)
LEMMA NextPlain ==
    ASSUME text \in Texts, NEW r, Plain(r)
    PROVE  Plain(Nextc(r))
<1>1. r \in Readers /\ r.upto > 0 /\ ~r.on /\ r.buf = <<>> /\ r.ch = Char(r.upto)
    BY DEF Plain
<1>2. PICK d : d = Read(r)
    OBVIOUS
<1>3. Nextc(r) = d
    BY <1>1, <1>2 DEF Nextc
<1>4. IsRead(r, d)
    BY <1>1, <1>2, ReadIs
<1>5. r.upto \in Nat
    BY <1>1 DEF Readers
<1> QED BY <1>1, <1>3, <1>4, <1>5 DEF Plain, IsRead

(* The first character makes a reader plain. *)
LEMMA FirstRead ==
    ASSUME text \in Texts, NEW r, Unread(r)
    PROVE  Plain(Nextc(r))
<1>1. r \in Readers /\ r.upto = 0 /\ ~r.on /\ r.buf = <<>>
    BY DEF Unread
<1>2. ~(r.upto > Len(text))
    BY <1>1, CharIs
<1>3. PICK u, c : u = r.upto + 1 /\ c = Char(u)
    OBVIOUS
<1>4. PICK d : d = [r EXCEPT !.upto = u, !.ch = c]
    OBVIOUS
<1>5. u \in Nat /\ u > 0
    BY <1>1, <1>3
<1>6. c \in Symbols
    BY <1>3, <1>5, CharIs
<1>7. d \in Readers /\ d.on = r.on /\ d.buf = r.buf /\ d.upto = u /\ d.ch = c
    BY <1>1, <1>4, <1>5, <1>6 DEF Readers
<1>8. Nextc(r) = d
    <2>1. Read(r) = [r EXCEPT !.upto = r.upto + 1, !.ch = Char(r.upto + 1)]
        BY <1>1, <1>2, Zenon DEF Read
    <2>2. Read(r) = d
        BY <2>1, <1>3, <1>4, Zenon
    <2> QED BY <1>1, <2>2, Zenon DEF Nextc
<1> QED BY <1>1, <1>3, <1>5, <1>7, <1>8 DEF Plain

(* d records one character more than r. *)
LongerRecord(r, d) == Recording(d) /\ d.buf = Append(r.buf, d.ch) /\ Len(d.buf) = Len(r.buf) + 1

(* A recording reader records what it reads. *)
LEMMA NextRecording ==
    ASSUME text \in Texts, NEW r, Recording(r)
    PROVE  LongerRecord(r, Nextc(r))
<1>1. r \in Readers /\ r.on /\ r.upto \in Nat /\ r.upto > 0 /\ r.buf \in Seq(Symbols)
    BY DEF Recording, Recorded, Readers
<1>2. PICK u, b, q : u = r.upto + 1 /\ b = r.buf /\ q = Read(r)
    OBVIOUS
<1>3. q \in Readers /\ q.on /\ q.upto = u /\ q.ch = Char(u) /\ q.buf = b
    BY <1>1, <1>2, ReadIs DEF IsRead
<1>4. PICK e : e = Append(b, q.ch)
    OBVIOUS
<1>5. PICK d : d = [q EXCEPT !.buf = e]
    OBVIOUS
<1>6. Nextc(r) = d
    BY <1>1, <1>2, <1>3, <1>4, <1>5 DEF Nextc
<1>7. u \in Nat /\ u > 0 /\ q.ch \in Symbols /\ b \in Seq(Symbols)
    BY <1>1, <1>2, <1>3 DEF Readers
<1>8. PICK m : m = Len(b)
    OBVIOUS
<1>9. /\ m \in Nat /\ e \in Seq(Symbols) /\ Len(e) = m + 1 /\ e[m + 1] = q.ch
      /\ \A k \in 1 .. m : e[k] = b[k]
    BY <1>4, <1>7, <1>8, AppendProperties
<1>10. d \in Readers /\ d.on /\ d.upto = u /\ d.ch = q.ch /\ d.buf = e
    BY <1>3, <1>5, <1>9 DEF Readers
<1>11. \A k \in 1 .. m : b[k] = Char(r.upto - m + k)
    BY <1>2, <1>8 DEF Recording, Recorded
<1>12. ASSUME NEW k \in 1 .. m + 1
       PROVE  e[k] = Char(u - (m + 1) + k)
    <2>1. CASE k = m + 1
        <3>1. u - (m + 1) + k = u
            BY <2>1, <1>7, <1>9
        <3> QED BY <3>1, <2>1, <1>3, <1>9
    <2>2. CASE k # m + 1
        <3>1. k \in 1 .. m /\ u - (m + 1) + k = r.upto - m + k
            BY <2>2, <1>1, <1>2, <1>7, <1>9
        <3> QED BY <3>1, <1>9, <1>11
    <2> QED BY <2>1, <2>2
<1>13. Recorded(d)
    BY <1>7, <1>9, <1>10, <1>12 DEF Recorded
<1> QED BY <1>2, <1>3, <1>4, <1>6, <1>8, <1>9, <1>10, <1>13 DEF Recording, LongerRecord

(* d reads the first character of the record b again. *)
Replayed(b, d) == Replaying(d) /\ d.buf = Tail(b) /\ d.ch = Head(b) /\ Len(d.buf) = Len(b) - 1

(* A replaying reader takes the first of the record. *)
LEMMA NextReplays ==
    ASSUME NEW r, Recorded(r), ~r.on, r.buf # <<>>
    PROVE  Replayed(r.buf, Nextc(r))
<1>1. r \in Readers /\ r.upto \in Nat /\ r.upto > 0 /\ r.buf \in Seq(Symbols)
    BY DEF Recorded, Readers
<1>2. PICK u, b, t, c : u = r.upto /\ b = r.buf /\ t = Tail(b) /\ c = Head(b)
    OBVIOUS
<1>3. PICK d : d = [r EXCEPT !.ch = c, !.buf = t]
    OBVIOUS
<1>4. Nextc(r) = d
    BY <1>2, <1>3 DEF Nextc
<1>5. PICK m : m = Len(b)
    OBVIOUS
<1>6. m \in Nat /\ m >= 1 /\ c = b[1] /\ c \in Symbols
    BY <1>1, <1>2, <1>5
<1>7. /\ t \in Seq(Symbols) /\ Len(t) = m - 1
      /\ \A k \in 1 .. m - 1 : t[k] = b[k + 1]
    BY <1>1, <1>2, <1>5, <1>6
<1>8. d \in Readers /\ ~d.on /\ d.upto = u /\ d.ch = c /\ d.buf = t
    BY <1>1, <1>2, <1>3, <1>6, <1>7 DEF Readers
<1>9. \A k \in 1 .. m : b[k] = Char(u - m + k)
    BY <1>2, <1>5 DEF Recorded
<1>10. ASSUME NEW k \in 1 .. m - 1
      PROVE  t[k] = Char(u - (m - 1) + k)
    <2>1. u \in Nat
        BY <1>1, <1>2
    <2>2. k + 1 \in 1 .. m /\ u - (m - 1) + k = u - m + (k + 1)
        BY <2>1, <1>6
    <2> QED BY <2>2, <1>7, <1>9
<1>11. Recorded(d)
    BY <1>1, <1>2, <1>7, <1>8, <1>10 DEF Recorded
<1>12. c = Char(u - (m - 1))
    <2>1. 1 \in 1 .. m /\ u - (m - 1) = u - m + 1
        BY <1>1, <1>2, <1>6
    <2> QED BY <2>1, <1>6, <1>9
<1> QED BY <1>2, <1>4, <1>5, <1>7, <1>8, <1>11, <1>12 DEF Replaying, Replayed

(* A record begins with the character at hand. *)
LEMMA RecordBegins ==
    ASSUME text \in Texts, NEW r, Plain(r)
    PROVE  Recording(RecordOn(r)) /\ RecordOn(r).buf = <<r.ch>> /\ RecordOn(r).ch = r.ch
<1>1. r \in Readers /\ r.upto \in Nat /\ r.upto > 0 /\ r.buf = <<>> /\ r.ch = Char(r.upto)
      /\ r.ch \in Symbols
    BY DEF Plain, Readers
<1>2. PICK b : b = <<r.ch>>
    OBVIOUS
<1>3. b \in Seq(Symbols) /\ Len(b) = 1 /\ b[1] = r.ch /\ Append(<<>>, r.ch) = b
    BY <1>1, <1>2
<1>4. PICK d : d = [r EXCEPT !.buf = b, !.on = TRUE]
    OBVIOUS
<1>5. RecordOn(r) = d
    BY <1>1, <1>3, <1>4 DEF RecordOn
<1>6. d \in Readers /\ d.on /\ d.upto = r.upto /\ d.ch = r.ch /\ d.buf = b
    BY <1>1, <1>3, <1>4 DEF Readers
<1>7. \A k \in 1 .. 1 : k = 1 /\ r.upto - 1 + k = r.upto
    BY <1>1
<1>8. Recorded(d)
    BY <1>1, <1>3, <1>6, <1>7 DEF Recorded
<1> QED BY <1>1, <1>2, <1>5, <1>6, <1>8 DEF Recording

(* A record that is dropped leaves the reader plain, at its character. *)
LEMMA RecordDropped ==
    ASSUME NEW r, Recording(r)
    PROVE  Plain(RecordHalt(r)) /\ RecordHalt(r).ch = r.ch
<1>1. r \in Readers /\ r.upto > 0 /\ r.ch = Char(r.upto)
    BY DEF Recording, Recorded
<1>2. PICK b : b = <<>>
    OBVIOUS
<1>3. PICK d : d = [r EXCEPT !.on = FALSE, !.buf = b]
    OBVIOUS
<1>4. d \in Readers /\ ~d.on /\ d.upto = r.upto /\ d.ch = r.ch /\ d.buf = b
    <2>1. b \in Seq(Symbols)
        BY <1>2
    <2> QED BY <2>1, <1>1, <1>3 DEF Readers
<1>5. RecordHalt(r) = d
    BY <1>2, <1>3 DEF RecordHalt
<1> QED BY <1>1, <1>2, <1>4, <1>5 DEF Plain

(* A record that is kept is replayed from its first character. *)
LEMMA RecordEnds ==
    ASSUME NEW r, Recording(r), r.buf # <<>>
    PROVE  Replayed(r.buf, RecordOff(r))
<1>1. r \in Readers
    BY DEF Recording, Recorded
<1>2. PICK s : s = [r EXCEPT !.on = FALSE]
    OBVIOUS
<1>3. s \in Readers /\ ~s.on /\ s.upto = r.upto /\ s.buf = r.buf
    BY <1>1, <1>2 DEF Readers
<1>4. Recorded(s)
    BY <1>3 DEF Recording, Recorded
<1>5. RecordOff(r) = Nextc(s)
    BY <1>2, <1>3 DEF RecordOff
<1> QED BY <1>3, <1>4, <1>5, NextReplays

(* What is said of r is said of the reader after a step that leaves the    *)
(* text alone and r to it.                                                 *)
LEMMA Carried ==
    ASSUME text' = text, NEW r, in' = r
    PROVE  /\ Plain(r) => Plain(in)'
           /\ Recording(r) => Recording(in)'
           /\ Replaying(r) => Replaying(in)'
           /\ Unread(r) => Unread(in)'
<1>1. \A i : Char(i)' = Char(i)
    BY DEF Char
<1> QED BY <1>1 DEF Plain, Recording, Replaying, Recorded, Unread

-----------------------------------------------------------------------------
(* The steps of the lexer *)

(* Where the record is empty *)
Outside == mode \notin {"head", "name", "string"} /\ Plain(in)

(* The call goes on, or returns, with nothing recorded. *)
PlainStep ==
    /\ UNCHANGED <<text, script>> /\ mode' # "head"
    /\ \E r : Plain(r) /\ in' = r

(* Steps that read on plainly. *)
LEMMA PlainKeeps ==
    ASSUME ReaderInv, PlainStep
    PROVE  ReaderInv'
<1>1. PICK r : Plain(r) /\ in' = r
    BY DEF PlainStep
<1>2. text' = text /\ script' = script /\ mode' # "head" /\ Plain(in)'
    BY <1>1, Carried DEF PlainStep
<1>3. text \in Texts /\ script \in Seq(Texts)
    BY DEF ReaderInv
<1>4. NameHeld'
    <2>1. Len(in'.buf) = 0 /\ in'.upto \in Nat /\ in' \in Readers /\ in'.upto > 0 /\ ~in'.on
        BY <1>2 DEF Plain, Readers
    <2>2. in'.upto - Len(in'.buf) = in'.upto /\ Len(in'.buf) <= 2 /\ \A k \in 1 .. Len(in'.buf) : FALSE
        BY <2>1
    <2>3. Replaying(in)'
        BY <1>2, <2>1, <2>2 DEF Plain, Replaying, Recorded
    <2> QED BY <2>2, <2>3 DEF NameHeld, AllPrefix
<1>5. StringHeld'
    BY <1>2 DEF StringHeld
<1> QED BY <1>2, <1>3, <1>4, <1>5 DEF ReaderInv

(* The beginning of a call. *)
LEMMA BeginKeeps ==
    ASSUME ReaderInv, BeginCall
    PROVE  ReaderInv'
<1>1. mode = "between" /\ text \in Texts /\ UNCHANGED <<text, script>> /\ mode' # "head"
    BY DEF BeginCall, source, Go, ReaderInv
<1>2. Plain(in) \/ (Unread(in) /\ current_indent = -1)
    BY <1>1 DEF ReaderInv
<1>3. in' = Nextc(in) \/ (in' = in /\ current_indent # -1)
    BY DEF BeginCall, Go
<1>4. Plain(in) => Plain(Nextc(in))
    BY <1>1, NextPlain
<1>5. Unread(in) => Plain(Nextc(in))
    BY <1>1, FirstRead
<1>6. PlainStep
    BY <1>1, <1>2, <1>3, <1>4, <1>5 DEF PlainStep
<1> QED BY <1>6, PlainKeeps

(* The steps that read outside of names, prefixes and strings *)
PlainScan ==
    \/ IndentComment \/ CommentChar \/ BlankLine \/ IndentBlank
    \/ LineBegins \/ Indent \/ Dedent \/ SameLevel
    \/ Comment \/ Blank \/ Newline \/ Bracket \/ Single \/ Doubled \/ WithEqual
    \/ NotEqual \/ EndOfFile \/ BadCharacter
    \/ Zero \/ Number \/ Digit \/ Point \/ NumberEnds \/ NameBegins

(* No step of a plain reader reads more than three characters. *)
LEMMA ThreeAhead ==
    ASSUME text \in Texts, Plain(in)
    PROVE  /\ Plain(Nextc(in)) /\ Plain(Nextc(Nextc(in)))
           /\ Plain(Nextc(Nextc(Nextc(in))))
BY NextPlain

(* Scanning without look-ahead. *)
LEMMA PlainScanKeeps ==
    ASSUME ReaderInv, PlainScan
    PROVE  ReaderInv'
<1>1. mode \notin {"head", "name", "string", "between"}
    BY DEF PlainScan, IndentComment, CommentChar, BlankLine, IndentBlank, LineBegins, Indent, Dedent,
           SameLevel, Comment, Blank, Newline, Bracket, Single, Doubled, WithEqual, NotEqual, EndOfFile,
           BadCharacter, Zero, Number, Digit, Point, NumberEnds, NameBegins, InTokens
<1>2. text \in Texts /\ Plain(in)
    BY <1>1 DEF ReaderInv
<1>3. PICK r1, r2, r3 : r1 = Nextc(in) /\ r2 = Nextc(r1) /\ r3 = Nextc(r2)
    OBVIOUS
<1>4. Plain(r1) /\ Plain(r2) /\ Plain(r3)
    BY <1>2, <1>3, ThreeAhead
<1>5. UNCHANGED <<text, script>>
    BY DEF PlainScan, IndentComment, CommentChar, BlankLine, IndentBlank, LineBegins, Indent, Dedent,
           SameLevel, Comment, Blank, Newline, Bracket, Single, Doubled, WithEqual, NotEqual, EndOfFile,
           BadCharacter, Zero, Number, Digit, Point, NumberEnds, NameBegins, Inline, source
<1>6. mode' # "head" /\ in' \in {in, r1, r2, r3}
    <2>1. CASE IndentComment \/ CommentChar \/ IndentBlank \/ LineBegins \/ SameLevel \/ Comment \/ Blank
        BY <1>1, <1>3, <2>1 DEF IndentComment, CommentChar, IndentBlank, LineBegins, SameLevel,
           Comment, Blank, InTokens, Go
    <2>2. CASE BlankLine
        BY <1>1, <1>3, <2>2 DEF BlankLine
    <2>3. CASE Indent \/ Dedent \/ Newline \/ EndOfFile
        BY <1>1, <1>3, <2>3 DEF Indent, Dedent, Newline, EndOfFile, Return, Issue, InTokens
    <2>4. CASE Bracket \/ Single \/ WithEqual
        BY <1>1, <1>3, <2>4 DEF Bracket, Single, WithEqual, Return, Issue
    <2>5. CASE Doubled
        BY <1>1, <1>3, <2>5 DEF Doubled, Return, Issue
    <2>6. CASE NotEqual \/ BadCharacter
        BY <1>1, <1>3, <2>6 DEF NotEqual, BadCharacter, Return, Issue, Refuse
    <2>7. CASE Zero
        BY <1>1, <1>3, <2>7 DEF Zero, Return, Issue, Refuse, Go
    <2>8. CASE Number \/ Digit \/ Point \/ NameBegins
        BY <1>1, <1>3, <2>8 DEF Number, Digit, Point, NameBegins, Go
    <2>9. CASE NumberEnds
        BY <1>1, <1>3, <2>9 DEF NumberEnds, Return, Issue
    <2> QED BY <2>1, <2>2, <2>3, <2>4, <2>5, <2>6, <2>7, <2>8, <2>9 DEF PlainScan
<1>7. PlainStep
    BY <1>2, <1>4, <1>5, <1>6 DEF PlainStep
<1> QED BY <1>7, PlainKeeps

(* A letter that may begin a prefix starts a record. *)
LEMMA HeadBeginKeeps ==
    ASSUME ReaderInv, HeadBegins
    PROVE  ReaderInv'
<1>1. mode = "tokens" /\ text' = text /\ script' = script /\ mode' = "head" /\ head' = {}
      /\ in' = RecordOn(in)
    BY DEF HeadBegins, InTokens, Go, Inline, source
<1>2. text \in Texts /\ script \in Seq(Texts) /\ Plain(in)
    BY <1>1 DEF ReaderInv
<1>3. PICK r : r = RecordOn(in)
    OBVIOUS
<1>4. Recording(r) /\ r.buf = <<in.ch>>
    BY <1>2, <1>3, RecordBegins
<1>5. Recording(in)' /\ in' = r
    BY <1>1, <1>3, <1>4, Carried
<1>6. Len(r.buf) = 1
    BY <1>4
<1>7. AllPrefix(r.buf) /\ Len(r.buf) >= 1
      /\ Len(r.buf) <= 1 + (IF "r" \in {} THEN 1 ELSE 0) + (IF {} \cap {"u", "b"} # {} THEN 1 ELSE 0)
    <2>1. \A k \in 1 .. 1 : ~(k < 1)
        OBVIOUS
    <2> QED BY <2>1, <1>6 DEF AllPrefix
<1>8. HeadHeld'
    BY <1>1, <1>5, <1>7 DEF HeadHeld
<1> QED BY <1>1, <1>2, <1>8 DEF ReaderInv

(* The letters of a prefix and the character behind them *)
LEMMA HeadLetterKeeps ==
    ASSUME ReaderInv, HeadLetter
    PROVE  ReaderInv'
<1>1. mode = "head" /\ text' = text /\ script' = script /\ mode' = "head" /\ in' = Nextc(in)
      /\ head' = head \cup {in.ch} /\ head \cap Excludes(in.ch) = {} /\ in.ch \in Prefix
    BY DEF HeadLetter, Go, Inline, source, Prefix
<1>2. text \in Texts /\ script \in Seq(Texts) /\ HeadHeld
    BY <1>1 DEF ReaderInv
<1>3. PICK r, n : r = Nextc(in) /\ n = Len(in.buf)
    OBVIOUS
<1>4. Recording(in) /\ AllPrefix(in.buf) /\ in.buf \in Seq(Symbols) /\ n \in Nat /\ n >= 1
    BY <1>2, <1>3 DEF HeadHeld, Recording, Recorded, Readers
<1>5. LongerRecord(in, r)
    BY <1>2, <1>3, <1>4, NextRecording
<1>6. Recording(r) /\ r.buf = Append(in.buf, r.ch) /\ Len(r.buf) = n + 1
    BY <1>3, <1>5 DEF LongerRecord
<1>7. Recording(in)' /\ in' = r
    BY <1>1, <1>3, <1>6, Carried
<1>8. AllPrefix(r.buf)
    <2> SUFFICES ASSUME NEW k \in 1 .. n + 1, k < n + 1
                 PROVE  r.buf[k] \in Prefix
        BY <1>6 DEF AllPrefix
    <2>1. k \in 1 .. n /\ (k < n \/ k = n)
        BY <1>4
    <2>2. r.buf[k] = in.buf[k]
        BY <2>1, <1>3, <1>4, <1>6
    <2>3. in.buf[n] = in.ch
        <3>1. in.buf[n] = Char(in.upto - n + n) /\ in.ch = Char(in.upto)
            BY <1>3, <1>4 DEF Recording, Recorded
        <3>2. in.upto \in Nat
            BY <1>4 DEF Recording, Recorded, Readers
        <3>3. in.upto - n + n = in.upto
            BY <3>2, <1>4
        <3> QED BY <3>1, <3>3
    <2>4. k < n => in.buf[k] \in Prefix
        BY <2>1, <1>3, <1>4 DEF AllPrefix
    <2> QED BY <2>1, <2>2, <2>3, <2>4, <1>1
<1>9. n <= 1 + (IF "r" \in head THEN 1 ELSE 0) + (IF head \cap {"u", "b"} # {} THEN 1 ELSE 0)
    BY <1>2, <1>3 DEF HeadHeld
<1>10. n + 1 <= 1 + (IF "r" \in head' THEN 1 ELSE 0) + (IF head' \cap {"u", "b"} # {} THEN 1 ELSE 0)
    <2>1. CASE in.ch = "r"
        <3>1. "r" \notin head /\ "r" \in head' /\ (head \cap {"u", "b"} # {} => head' \cap {"u", "b"} # {})
            BY <2>1, <1>1 DEF Excludes
        <3> QED BY <3>1, <1>4, <1>9
    <2>2. CASE in.ch # "r"
        <3>1. head \cap {"u", "b"} = {} /\ in.ch \in {"u", "b"}
            BY <2>2, <1>1 DEF Excludes, Prefix
        <3>2. head' \cap {"u", "b"} # {} /\ ("r" \in head => "r" \in head')
            BY <3>1, <1>1
        <3> QED BY <3>1, <3>2, <1>4, <1>9
    <2> QED BY <2>1, <2>2
<1>11. Len(r.buf) >= 1
    BY <1>4, <1>6
<1>12. HeadHeld'
    BY <1>6, <1>7, <1>8, <1>10, <1>11 DEF HeadHeld
<1> QED BY <1>1, <1>2, <1>12 DEF ReaderInv

(* What the prefix leaves to be read again *)
LEMMA TailOfPrefix ==
    ASSUME NEW b \in Seq(Symbols), b # <<>>, AllPrefix(b)
    PROVE  AllPrefix(Tail(b)) /\ Len(Tail(b)) = Len(b) - 1
<1>1. Len(b) \in Nat /\ Len(b) >= 1 /\ Len(Tail(b)) = Len(b) - 1
      /\ \A k \in 1 .. Len(b) - 1 : Tail(b)[k] = b[k + 1]
    OBVIOUS
<1>2. ASSUME NEW k \in 1 .. Len(b) - 1, k < Len(b) - 1
      PROVE  Tail(b)[k] \in Prefix
    <2>1. k + 1 \in 1 .. Len(b) /\ k + 1 < Len(b)
        BY <1>1, <1>2
    <2>2. b[k + 1] \in Prefix
        BY <2>1 DEF AllPrefix
    <2> QED BY <2>2, <1>1
<1> QED BY <1>1, <1>2 DEF AllPrefix

(* A prefix that fails gives back its record. *)
LEMMA HeadFailsKeeps ==
    ASSUME ReaderInv, HeadFails
    PROVE  ReaderInv'
<1>1. mode = "head" /\ text' = text /\ script' = script /\ mode' = "name" /\ in' = RecordOff(in)
    BY DEF HeadFails, Go, Inline, source
<1>2. text \in Texts /\ script \in Seq(Texts) /\ HeadHeld
    BY <1>1 DEF ReaderInv
<1>3. PICK r : r = RecordOff(in)
    OBVIOUS
<1>4. Recording(in) /\ AllPrefix(in.buf) /\ in.buf \in Seq(Symbols) /\ in.buf # <<>> /\ Len(in.buf) <= 3
    <2>1. Recording(in) /\ AllPrefix(in.buf) /\ in.buf \in Seq(Symbols)
        BY <1>2 DEF HeadHeld, Recording, Recorded, Readers
    <2>2. Len(in.buf) \in Nat /\ Len(in.buf) >= 1
        BY <2>1, <1>2 DEF HeadHeld
    <2>3. Len(in.buf) <= 1 + (IF "r" \in head THEN 1 ELSE 0) + (IF head \cap {"u", "b"} # {} THEN 1 ELSE 0)
        BY <1>2 DEF HeadHeld
    <2>4. Len(in.buf) <= 3
        BY <2>2, <2>3
    <2>5. in.buf # <<>>
        BY <2>2
    <2> QED BY <2>1, <2>4, <2>5
<1>5. Replayed(in.buf, r)
    BY <1>3, <1>4, RecordEnds
<1>6. Replaying(r) /\ r.buf = Tail(in.buf) /\ AllPrefix(r.buf) /\ Len(r.buf) = Len(in.buf) - 1
    BY <1>4, <1>5, TailOfPrefix DEF Replayed
<1>7. Len(r.buf) <= 2
    BY <1>4, <1>6
<1>8. NameHeld'
    BY <1>1, <1>3, <1>6, <1>7, Carried DEF NameHeld
<1> QED BY <1>1, <1>2, <1>8 DEF ReaderInv

(* A name reads the record first, then the text. *)
LEMMA NameKeeps ==
    ASSUME ReaderInv, NameChar
    PROVE  ReaderInv'
<1>1. PICK r : r = Nextc(in)
    OBVIOUS
<1>2. mode = "name" /\ text' = text /\ script' = script /\ in' = r
      /\ IF r.ch \in IdentLetters THEN mode' = "name" ELSE mode' \in {"between", "ended"}
    BY <1>1 DEF NameChar, Go, Return, Issue, Inline, source
<1>3. text \in Texts /\ script \in Seq(Texts) /\ NameHeld
    BY <1>2 DEF ReaderInv
<1>4. Replaying(in) /\ in \in Readers /\ in.upto \in Nat /\ in.upto > 0 /\ ~in.on /\ in.buf \in Seq(Symbols)
    BY <1>3 DEF NameHeld, Replaying, Recorded, Readers
<1>5. CASE in.buf = <<>>
    <2>1. Len(in.buf) = 0 /\ in.upto - Len(in.buf) = in.upto
        BY <1>4, <1>5
    <2>2. Plain(in)
        BY <2>1, <1>4, <1>5 DEF Replaying, Plain
    <2>3. Plain(r)
        BY <2>2, <1>1, <1>3, NextPlain
    <2>4. PlainStep
        BY <2>3, <1>2 DEF PlainStep
    <2> QED BY <2>4, PlainKeeps
<1>6. CASE in.buf # <<>>
    <2>1. Replayed(in.buf, r)
        BY <1>1, <1>4, <1>6, NextReplays DEF Replaying
    <2>2. AllPrefix(in.buf) /\ Len(in.buf) <= 2
        BY <1>3 DEF NameHeld
    <2>3. Replaying(r) /\ r.buf = Tail(in.buf) /\ AllPrefix(r.buf) /\ Len(r.buf) = Len(in.buf) - 1
          /\ r.ch = in.buf[1]
        BY <2>1, <2>2, <1>4, <1>6, TailOfPrefix DEF Replayed
    <2>4. Len(in.buf) \in Nat /\ Len(in.buf) >= 1
        BY <1>4, <1>6
    <2>5. Len(r.buf) <= 2
        BY <2>2, <2>3, <2>4
    <2>6. CASE r.ch \in IdentLetters
        <3>1. NameHeld'
            BY <2>3, <2>5, <1>2, Carried DEF NameHeld
        <3> QED BY <3>1, <2>6, <1>2, <1>3 DEF ReaderInv
    <2>7. CASE r.ch \notin IdentLetters
        <3>1. in.buf[1] \notin Prefix
            BY <2>3, <2>7 DEF IdentLetters, Letters, Prefix
        <3>2. ~(1 < Len(in.buf))
            BY <3>1, <2>2, <2>4 DEF AllPrefix
        <3>3. Len(r.buf) = 0
            <4>1. Len(in.buf) = 1
                <5>1. \A x \in Nat : x >= 1 /\ ~(1 < x) => x = 1
                    OBVIOUS
                <5> QED BY <5>1, <3>2, <2>4
            <4>2. Len(r.buf) = Len(in.buf) - 1
                BY <2>3
            <4> QED BY <4>1, <4>2
        <3>4. r.buf = <<>> /\ r \in Readers /\ r.upto \in Nat
            BY <3>3, <2>3 DEF Replaying, Recorded, Readers
        <3>5. r.upto - Len(r.buf) = r.upto
            BY <3>3, <3>4
        <3>6. Plain(r)
            BY <3>4, <3>5, <2>3 DEF Plain, Replaying, Recorded
        <3>7. PlainStep
            BY <3>6, <2>7, <1>2 DEF PlainStep
        <3> QED BY <3>7, PlainKeeps
    <2> QED BY <2>6, <2>7
<1> QED BY <1>5, <1>6

(* With nothing left of its record a reader that replays is plain. *)
LEMMA ReplayedAll ==
    ASSUME NEW r, Replaying(r), Len(r.buf) = 0
    PROVE  Plain(r)
<1>1. r \in Readers /\ r.upto \in Nat /\ r.buf \in Seq(Symbols)
    BY DEF Replaying, Recorded, Readers
<1>2. r.buf = <<>> /\ r.upto - Len(r.buf) = r.upto
    BY <1>1
<1> QED BY <1>1, <1>2 DEF Plain, Replaying, Recorded

(* A prefix that holds drops its record; quotes after the first may be given back. *)
LEMMA StringBeginKeeps ==
    ASSUME ReaderInv, StringBegins
    PROVE  ReaderInv'
<1>1. PICK r0, rn, r1, r2 : r0 = RecordHalt(in) /\ rn = Nextc(r0) /\ r1 = RecordOn(rn) /\ r2 = Nextc(r1)
    OBVIOUS
<1>2. PICK two, long : two = (r1.ch = in.ch) /\ long = (two /\ r2.ch = in.ch)
    OBVIOUS
<1>3. /\ mode = "head" /\ in.ch \in Quotes /\ text' = text /\ script' = script /\ mode' = "string"
      /\ quote' = [sign |-> in.ch, long |-> (r1.ch = in.ch /\ r2.ch = in.ch), escape |-> FALSE]
      /\ in' = IF r1.ch = in.ch /\ r2.ch = in.ch THEN RecordHalt(Nextc(r2))
               ELSE RecordOff(IF r1.ch = in.ch THEN r2 ELSE r1)
    BY <1>1 DEF StringBegins, Go, Inline, source
<1>4. text \in Texts /\ script \in Seq(Texts) /\ Recording(in)
    BY <1>3 DEF ReaderInv, HeadHeld
<1>5. Plain(r0)
    BY <1>1, <1>4, RecordDropped
<1>6. Plain(rn)
    BY <1>1, <1>4, <1>5, NextPlain
<1>7. Recording(r1) /\ r1.buf = <<rn.ch>> /\ r1.ch = rn.ch
    BY <1>1, <1>4, <1>6, RecordBegins
<1>8. Len(r1.buf) = 1 /\ r1.buf # <<>> /\ Head(r1.buf) = r1.ch
    BY <1>7
<1>9. LongerRecord(r1, r2)
    BY <1>1, <1>4, <1>7, NextRecording
<1>10. Recording(r2) /\ r2.buf = Append(<<r1.ch>>, r2.ch) /\ Len(r2.buf) = 2
    BY <1>7, <1>8, <1>9 DEF LongerRecord
<1>11. r2.buf # <<>> /\ Head(r2.buf) = r1.ch
    BY <1>10
<1>12. CASE r1.ch = in.ch /\ r2.ch = in.ch
    <2>1. LongerRecord(r2, Nextc(r2))
        BY <1>4, <1>10, NextRecording
    <2>2. Plain(RecordHalt(Nextc(r2)))
        BY <2>1, RecordDropped DEF LongerRecord
    <2>3. PlainStep
        BY <2>2, <1>3, <1>12 DEF PlainStep
    <2> QED BY <2>3, PlainKeeps
<1>13. CASE r1.ch # in.ch
    <2>1. Replayed(r1.buf, RecordOff(r1))
        BY <1>7, <1>8, RecordEnds
    <2>2. Len(RecordOff(r1).buf) = 0
        BY <2>1, <1>8 DEF Replayed
    <2>3. Plain(RecordOff(r1))
        BY <2>1, <2>2, ReplayedAll DEF Replayed
    <2>4. PlainStep
        BY <2>3, <1>3, <1>13 DEF PlainStep
    <2> QED BY <2>4, PlainKeeps
<1>14. CASE r1.ch = in.ch /\ r2.ch # in.ch
    <2>1. PICK r : r = RecordOff(r2)
        OBVIOUS
    <2>2. Replayed(r2.buf, r)
        BY <2>1, <1>10, <1>11, RecordEnds
    <2>3. Len(r.buf) = 1 /\ Replaying(r) /\ r.ch = in.ch
        BY <2>2, <1>10, <1>11, <1>14 DEF Replayed
    <2>4. in' = r
        BY <2>1, <1>3, <1>14
    <2>5. Replaying(in)'
        BY <2>3, <2>4, <1>3, Carried
    <2>6. quote'.sign = in.ch /\ ~quote'.long /\ ~quote'.escape
        BY <1>3, <1>14
    <2>7. StringHeld'
        BY <2>3, <2>4, <2>5, <2>6, <1>3 DEF StringHeld
    <2> QED BY <2>7, <1>3, <1>4 DEF ReaderInv
<1> QED BY <1>12, <1>13, <1>14

(* A sign ends a literal, three a long one, and fewer are part of it. *)
LEMMA StringSignKeeps ==
    ASSUME ReaderInv, StringSign
    PROVE  ReaderInv'
<1>1. PICK r1, r2, r3 : r1 = Nextc(in) /\ r2 = Nextc(r1) /\ r3 = Nextc(r2)
    OBVIOUS
<1>2. mode = "string" /\ text' = text /\ script' = script /\ mode' # "head"
      /\ in' \in {r1, r2, r3} /\ (~quote.long => in' = r1)
    <2>1. mode = "string" /\ text' = text /\ script' = script
        BY DEF StringSign, Inline, source
    <2>2. CASE ~quote.long
        BY <2>1, <2>2, <1>1 DEF StringSign, EndString, Refuse, Return, Issue
    <2>3. CASE quote.long
        BY <2>1, <2>3, <1>1 DEF StringSign, EndString, Refuse, Return, Issue, Go
    <2> QED BY <2>1, <2>2, <2>3
<1>3. text \in Texts /\ StringHeld
    BY <1>2 DEF ReaderInv
<1>4. CASE Plain(in)
    <2>1. Plain(r1) /\ Plain(r2) /\ Plain(r3)
        BY <1>1, <1>3, <1>4, ThreeAhead
    <2>2. PlainStep
        BY <2>1, <1>2 DEF PlainStep
    <2> QED BY <2>2, PlainKeeps
<1>5. CASE Replaying(in) /\ Len(in.buf) = 1 /\ ~quote.long
    <2>1. in.buf # <<>> /\ Recorded(in) /\ ~in.on
        BY <1>5 DEF Replaying
    <2>2. Replayed(in.buf, r1)
        BY <2>1, <1>1, NextReplays
    <2>3. Len(r1.buf) = 0
        BY <2>2, <1>5 DEF Replayed
    <2>4. Plain(r1)
        BY <2>2, <2>3, ReplayedAll DEF Replayed
    <2>5. PlainStep
        BY <2>4, <1>2, <1>5 DEF PlainStep
    <2> QED BY <2>5, PlainKeeps
<1> QED BY <1>3, <1>4, <1>5 DEF StringHeld

(* A character of a literal. *)
LEMMA StringCharKeeps ==
    ASSUME ReaderInv, StringNewline \/ StringChar
    PROVE  ReaderInv'
<1>1. PICK r1, r2 : r1 = Nextc(in) /\ r2 = Nextc(r1)
    OBVIOUS
<1>2. /\ mode = "string" /\ text' = text /\ script' = script /\ mode' # "head"
      /\ in' \in {in, r1, r2} /\ (in.ch \in {LF, CR} \/ (in.ch = quote.sign => quote.escape))
    <2>1. CASE StringNewline
        BY <2>1, <1>1 DEF StringNewline, Inline, source
    <2>2. CASE StringChar
        BY <2>2, <1>1 DEF StringChar, Inline, source, Go
    <2> QED BY <2>1, <2>2
<1>3. text \in Texts /\ StringHeld
    BY <1>2 DEF ReaderInv
<1>4. Plain(in)
    BY <1>2, <1>3 DEF StringHeld, Quotes, LF, CR
<1>5. Plain(r1) /\ Plain(r2)
    BY <1>1, <1>3, <1>4, ThreeAhead
<1>6. PlainStep
    BY <1>2, <1>4, <1>5 DEF PlainStep
<1> QED BY <1>6, PlainKeeps

(* The next text *)
LEMMA ResetKeeps ==
    ASSUME ReaderInv, Reset
    PROVE  ReaderInv'
<1>1. /\ mode = "ended" /\ script # <<>> /\ text' = Head(script) /\ script' = Tail(script)
      /\ current_indent' = -1 /\ mode' = "between" /\ in' = [RecordHalt(in) EXCEPT !.upto = 0]
    BY DEF Reset
<1>2. script \in Seq(Texts) /\ Plain(in)
    BY <1>1 DEF ReaderInv
<1>3. text' \in Texts /\ script' \in Seq(Texts)
    BY <1>1, <1>2
<1>4. in \in Readers
    BY <1>2 DEF Plain
<1>5. PICK b : b = <<>>
    OBVIOUS
<1>6. PICK d : d = [in EXCEPT !.on = FALSE, !.buf = b]
    OBVIOUS
<1>7. d \in Readers /\ ~d.on /\ d.buf = b
    <2>1. b \in Seq(Symbols)
        BY <1>5
    <2> QED BY <2>1, <1>4, <1>6 DEF Readers
<1>8. PICK e : e = [d EXCEPT !.upto = 0]
    OBVIOUS
<1>9. e \in Readers /\ ~e.on /\ e.buf = b /\ e.upto = 0
    BY <1>7, <1>8 DEF Readers
<1>10. in' = e
    BY <1>1, <1>5, <1>6, <1>8 DEF RecordHalt
<1>11. Unread(in)'
    BY <1>5, <1>9, <1>10 DEF Unread
<1> QED BY <1>1, <1>3, <1>11 DEF ReaderInv

(* The reader has not read yet. *)
LEMMA ReaderStarts == LexInit => ReaderInv
<1> SUFFICES ASSUME LexInit
             PROVE  ReaderInv
    OBVIOUS
<1>1. PICK s \in Scripts, ch \in Garbage : script = Tail(s) /\ text = Head(s) /\ Fresh(ch)
    BY DEF LexInit
<1>2. s # <<>> /\ s \in Seq(Range(s))
    BY ScriptsAreTexts
<1>3. Range(s) \subseteq Texts
    BY DEF Texts
<1>4. text \in Range(s) /\ script \in Seq(Range(s))
    BY <1>1, <1>2
<1>5. text \in Texts /\ script \in Seq(Texts)
    BY <1>3, <1>4
<1>6. in = [upto |-> 0, ch |-> ch, on |-> FALSE, buf |-> <<>>] /\ mode = "between" /\ current_indent = -1
    BY <1>1 DEF Fresh
<1>7. Unread(in)
    BY <1>6 DEF Unread, Readers, Symbols
<1> QED BY <1>5, <1>6, <1>7 DEF ReaderInv

(* A stutter. *)
LEMMA ReaderStays ==
    ASSUME ReaderInv, UNCHANGED lexvars
    PROVE  ReaderInv'
<1>1. UNCHANGED <<text, script, in, mode, head, quote, current_indent>>
    BY DEF lexvars
<1>2. text' = text /\ in' = in
    BY <1>1
<1>3. /\ Plain(in) => Plain(in)'
      /\ Recording(in) => Recording(in)'
      /\ Replaying(in) => Replaying(in)'
      /\ Unread(in) => Unread(in)'
    BY <1>2, Carried
<1> QED BY <1>1, <1>3 DEF ReaderInv, HeadHeld, NameHeld, StringHeld, AllPrefix

(* The invariant of the reader. *)
LEMMA ReaderHolds == LexSpec => []ReaderInv
<1>1. ReaderInv /\ [LexNext]_lexvars => ReaderInv'
    <2> SUFFICES ASSUME ReaderInv, [LexNext]_lexvars
                 PROVE  ReaderInv'
        OBVIOUS
    <2>1. CASE BeginCall
        BY <2>1, BeginKeeps
    <2>2. CASE PlainScan
        BY <2>2, PlainScanKeeps
    <2>3. CASE NameChar
        BY <2>3, NameKeeps
    <2>4. CASE HeadBegins
        BY <2>4, HeadBeginKeeps
    <2>5. CASE HeadLetter
        BY <2>5, HeadLetterKeeps
    <2>6. CASE HeadFails
        BY <2>6, HeadFailsKeeps
    <2>7. CASE StringBegins
        BY <2>7, StringBeginKeeps
    <2>8. CASE StringSign
        BY <2>8, StringSignKeeps
    <2>9. CASE StringNewline \/ StringChar
        BY <2>9, StringCharKeeps
    <2>10. CASE Reset
        BY <2>10, ResetKeeps
    <2>11. CASE UNCHANGED lexvars
        BY <2>11, ReaderStays
    <2> QED BY <2>1, <2>2, <2>3, <2>4, <2>5, <2>6, <2>7, <2>8, <2>9, <2>10, <2>11
            DEF LexNext, Scan, PlainScan
<1> QED BY <1>1, ReaderStarts, PTL DEF LexSpec

(* For texts of any length: what the lexer recorded is what the text has   *)
(* there, three characters at most, the current character is the one       *)
(* before the record to be replayed, and no record outlives the name,      *)
(* prefix or string it was made for (record and nextc in lexer.c).         *)
THEOREM ReplayFaithful == LexSpec => []RecordReplays
<1>1. ReaderInv => RecordReplays
    <2> SUFFICES ASSUME ReaderInv
                 PROVE  RecordReplays
        OBVIOUS
    <2>1. CASE Plain(in)
        <3>1. Len(in.buf) = 0 /\ ~in.on /\ in.upto \in Nat /\ in.ch = Char(in.upto)
            BY <2>1 DEF Plain, Readers
        <3>2. in.upto - Len(in.buf) = in.upto /\ \A k \in 1 .. Len(in.buf) : FALSE
            BY <3>1
        <3> QED BY <3>1, <3>2 DEF RecordReplays, At
    <2>2. CASE Unread(in)
        <3>1. Len(in.buf) = 0 /\ ~in.on /\ in.upto = 0
            BY <2>2 DEF Unread
        <3>2. \A k \in 1 .. Len(in.buf) : FALSE
            BY <3>1
        <3> QED BY <3>1, <3>2 DEF RecordReplays
    <2>3. CASE mode = "head" /\ HeadHeld
        <3>1. Recording(in) /\ in.buf \in Seq(Symbols)
            BY <2>3 DEF HeadHeld, Recording, Recorded, Readers
        <3>2. Len(in.buf) \in Nat
            BY <3>1
        <3>3. Len(in.buf) <= 1 + (IF "r" \in head THEN 1 ELSE 0) + (IF head \cap {"u", "b"} # {} THEN 1 ELSE 0)
            BY <2>3 DEF HeadHeld
        <3>4. Len(in.buf) <= 3
            BY <3>2, <3>3
        <3> QED BY <3>1, <3>4, <2>3 DEF RecordReplays, At, Recording, Recorded
    <2>4. CASE Replaying(in) /\ Len(in.buf) <= 2 /\ mode \in {"name", "string"}
        <3>1. Len(in.buf) \in Nat
            BY <2>4 DEF Replaying, Recorded, Readers
        <3>2. Len(in.buf) <= 3
            BY <3>1, <2>4
        <3> QED BY <3>2, <2>4 DEF RecordReplays, At, Replaying, Recorded
    <2>5. mode = "string" => Plain(in) \/ (Replaying(in) /\ Len(in.buf) = 1)
        BY DEF ReaderInv, StringHeld
    <2>6. Len(in.buf) = 1 => Len(in.buf) <= 2
        OBVIOUS
    <2> QED BY <2>1, <2>2, <2>3, <2>4, <2>5, <2>6 DEF ReaderInv, NameHeld
<1> QED BY <1>1, ReaderHolds, PTL

-----------------------------------------------------------------------------
(* The stack of open widths: wider and wider, above the 0 of the module *)
Levels(s) ==
    /\ s \in Seq(Nat) /\ Len(s) >= 1 /\ s[Len(s)] = 0
    /\ \A k, l \in 1 .. Len(s) : k < l => s[l] < s[k]

(* The inductive invariant: between lines the width is unknown, -1. *)
LevelInv ==
    /\ Levels(indent)
    /\ current_indent \in Nat \/ (current_indent = -1 /\ mode = "between")

(* The stack of levels has a top. *)
LEMMA TopIs ==
    ASSUME NEW s, Levels(s)
    PROVE  s # <<>> /\ Head(s) = s[1] /\ Head(s) \in Nat
BY DEF Levels

(* A wider indent opens a level. *)
LEMMA LevelOpens ==
    ASSUME NEW s, Levels(s), NEW w \in Nat, w > Head(s), NEW d, d = <<w>> \o s
    PROVE  Levels(d)
<1>1. PICK m : m = Len(s)
    OBVIOUS
<1>2. s \in Seq(Nat) /\ m \in Nat /\ m >= 1 /\ s[m] = 0 /\ Head(s) = s[1]
      /\ \A k \in 1 .. m : s[k] \in Nat
    BY <1>1 DEF Levels
<1>3. PICK one : one = <<w>>
    OBVIOUS
<1>4. one \in Seq(Nat) /\ Len(one) = 1 /\ one[1] = w
    BY <1>3
<1>5. d \in Seq(Nat) /\ Len(d) = 1 + m
    BY <1>1, <1>2, <1>3, <1>4, ConcatProperties
<1>6. d[1] = w /\ \A k \in 1 .. m : d[1 + k] = s[k]
    BY <1>1, <1>2, <1>3, <1>4, ConcatProperties
<1>7. \A k, l \in 1 .. m : k < l => s[l] < s[k]
    BY <1>1 DEF Levels
<1>8. \A k \in 1 .. m : s[k] <= s[1]
    <2> SUFFICES ASSUME NEW k \in 1 .. m
                 PROVE  s[k] <= s[1]
        OBVIOUS
    <2>1. 1 \in 1 .. m /\ (k = 1 \/ 1 < k) /\ s[k] \in Nat /\ s[1] \in Nat
        BY <1>2
    <2>2. 1 < k => s[k] < s[1]
        BY <2>1, <1>7
    <2> QED BY <2>1, <2>2
<1>9. ASSUME NEW k \in 1 .. 1 + m, NEW l \in 1 .. 1 + m, k < l
      PROVE  d[l] < d[k]
    <2>1. PICK j : j = l - 1
        OBVIOUS
    <2>2. j \in 1 .. m /\ l = 1 + j
        BY <2>1, <1>2, <1>9
    <2>3. d[l] = s[j]
        BY <2>2, <1>6
    <2>4. CASE k = 1
        <3>1. s[j] <= s[1] /\ s[j] \in Nat /\ s[1] \in Nat /\ w > s[1]
            BY <2>2, <1>2, <1>8
        <3>2. s[j] < w
            BY <3>1
        <3> QED BY <3>2, <2>3, <2>4, <1>6
    <2>5. CASE k # 1
        <3>1. PICK i : i = k - 1
            OBVIOUS
        <3>2. i \in 1 .. m /\ k = 1 + i /\ i < j
            BY <3>1, <2>2, <2>5, <1>2, <1>9
        <3>3. s[j] < s[i] /\ d[k] = s[i]
            BY <3>2, <2>2, <1>6, <1>7
        <3> QED BY <3>3, <2>3
    <2> QED BY <2>4, <2>5
<1>10. d[1 + m] = 0 /\ 1 + m >= 1
    <2>1. m \in 1 .. m /\ 1 + m >= 1
        BY <1>2
    <2>2. d[1 + m] = s[m]
        BY <2>1, <1>6
    <2> QED BY <2>1, <2>2, <1>2
<1> QED BY <1>5, <1>9, <1>10 DEF Levels

(* Only the outermost level has the width 0: another may be left. *)
LEMMA LevelCloses ==
    ASSUME NEW s, Levels(s), Head(s) > 0, NEW d, d = Tail(s)
    PROVE  Levels(d)
<1>1. PICK m : m = Len(s)
    OBVIOUS
<1>2. s \in Seq(Nat) /\ m \in Nat /\ m >= 1 /\ s[m] = 0 /\ Head(s) = s[1]
    BY <1>1 DEF Levels
<1>3. m # 1
    BY <1>2
<1>4. m - 1 \in Nat /\ m - 1 >= 1 /\ s # <<>>
    BY <1>1, <1>2, <1>3
<1>5. d \in Seq(Nat) /\ Len(d) = m - 1 /\ \A k \in 1 .. m - 1 : d[k] = s[k + 1]
    BY <1>1, <1>2, <1>4
<1>6. \A k, l \in 1 .. m : k < l => s[l] < s[k]
    BY <1>1 DEF Levels
<1>7. ASSUME NEW k \in 1 .. m - 1, NEW l \in 1 .. m - 1, k < l
      PROVE  d[l] < d[k]
    <2>1. k + 1 \in 1 .. m /\ l + 1 \in 1 .. m /\ k + 1 < l + 1
        BY <1>2, <1>7
    <2>2. s[l + 1] < s[k + 1]
        BY <2>1, <1>6
    <2> QED BY <2>2, <1>5
<1>8. d[m - 1] = 0
    <2>1. m - 1 \in 1 .. m - 1 /\ (m - 1) + 1 = m
        BY <1>2, <1>4
    <2> QED BY <2>1, <1>2, <1>5
<1> QED BY <1>4, <1>5, <1>7, <1>8 DEF Levels

(* The steps that neither open nor close a level *)
LevelStep ==
    /\ indent' = indent
    /\ \/ current_indent' \in Nat
       \/ current_indent' = -1 /\ mode' = "between"

(* Scanning keeps the levels. *)
LEMMA ScanLevels ==
    ASSUME LevelInv, Scan
    PROVE  LevelInv'
<1>1. CASE Indent
    <2>1. mode = "level" /\ current_indent > Head(indent) /\ indent' = <<current_indent>> \o indent
          /\ current_indent' = current_indent
        BY <1>1 DEF Indent
    <2>2. current_indent \in Nat
        BY <2>1 DEF LevelInv
    <2>3. Levels(indent')
        BY <2>1, <2>2, LevelOpens DEF LevelInv
    <2> QED BY <2>1, <2>2, <2>3 DEF LevelInv
<1>2. CASE Dedent
    <2>1. mode = "level" /\ current_indent < Head(indent) /\ indent' = Tail(indent)
          /\ current_indent' = current_indent
        BY <1>2 DEF Dedent
    <2>2. current_indent \in Nat /\ Head(indent) \in Nat
        BY <2>1, TopIs DEF LevelInv
    <2>3. Head(indent) > 0
        BY <2>1, <2>2
    <2>4. Levels(indent')
        BY <2>1, <2>3, LevelCloses DEF LevelInv
    <2> QED BY <2>1, <2>2, <2>4 DEF LevelInv
<1>3. CASE EndOfFile
    <2>1. mode = "tokens"
        BY <1>3 DEF EndOfFile, InTokens
    <2>2. current_indent \in Nat
        BY <2>1 DEF LevelInv
    <2>3. CASE UNCHANGED <<current_indent, indent>>
        BY <2>2, <2>3 DEF LevelInv
    <2>4. CASE Head(indent) > 0 /\ indent' = Tail(indent) /\ current_indent' = Head(Tail(indent))
        <3>1. Levels(indent')
            BY <2>4, LevelCloses DEF LevelInv
        <3>2. current_indent' \in Nat
            BY <3>1, <2>4, TopIs
        <3> QED BY <3>1, <3>2 DEF LevelInv
    <2> QED BY <1>3, <2>3, <2>4 DEF EndOfFile
<1>4. CASE ~Indent /\ ~Dedent /\ ~EndOfFile
    <2>1. LevelStep
        <3>1. CASE BeginCall
            BY <3>1 DEF BeginCall, LevelInv, LevelStep
        <3>2. CASE BlankLine \/ Newline
            BY <3>2 DEF BlankLine, Newline, LevelInv, LevelStep, Issue, InTokens
        <3>3. CASE IndentBlank
            BY <3>3 DEF IndentBlank, LevelInv, LevelStep
        <3>4. CASE IndentComment \/ CommentChar \/ LineBegins \/ SameLevel
            BY <3>4 DEF IndentComment, CommentChar, LineBegins, SameLevel, layout, LevelInv, LevelStep
        <3>5. CASE Comment \/ Blank \/ Single \/ Doubled \/ WithEqual \/ NotEqual \/ BadCharacter \/ Bracket
            BY <3>5 DEF Comment, Blank, Single, Doubled, WithEqual, NotEqual, BadCharacter, Bracket,
               Inline, layout, InTokens, LevelInv, LevelStep
        <3>6. CASE Zero \/ Number \/ Digit \/ Point \/ NumberEnds \/ NameBegins
            BY <3>6 DEF Zero, Number, Digit, Point, NumberEnds, NameBegins,
               Inline, layout, InTokens, LevelInv, LevelStep
        <3>7. CASE NameChar \/ HeadBegins \/ HeadLetter \/ HeadFails
            BY <3>7 DEF NameChar, HeadBegins, HeadLetter, HeadFails,
               Inline, layout, InTokens, LevelInv, LevelStep
        <3>8. CASE StringBegins \/ StringSign \/ StringNewline \/ StringChar
            BY <3>8 DEF StringBegins, StringSign, StringNewline, StringChar, Inline, layout, LevelInv, LevelStep
        <3> QED BY <3>1, <3>2, <3>3, <3>4, <3>5, <3>6, <3>7, <3>8, <1>4 DEF Scan
    <2> QED BY <2>1 DEF LevelStep, LevelInv
<1> QED BY <1>1, <1>2, <1>3, <1>4

(* The invariant of the levels. *)
LEMMA LevelHolds == LexSpec => []LevelInv
<1>1. LexInit => LevelInv
    <2> SUFFICES ASSUME LexInit
                 PROVE  LevelInv
        OBVIOUS
    <2>1. indent = <<0>> /\ mode = "between" /\ current_indent = -1
        BY DEF LexInit, Fresh
    <2> QED BY <2>1 DEF LevelInv, Levels
<1>2. LevelInv /\ [LexNext]_lexvars => LevelInv'
    <2> SUFFICES ASSUME LevelInv, [LexNext]_lexvars
                 PROVE  LevelInv'
        OBVIOUS
    <2>1. CASE Scan
        BY <2>1, ScanLevels
    <2>2. CASE Reset
        <3>1. indent' = <<0>> /\ mode' = "between" /\ current_indent' = -1
            BY <2>2 DEF Reset
        <3> QED BY <3>1 DEF LevelInv, Levels
    <2>3. CASE UNCHANGED lexvars
        BY <2>3 DEF lexvars, LevelInv
    <2> QED BY <2>1, <2>2, <2>3 DEF LexNext
<1> QED BY <1>1, <1>2, PTL DEF LexSpec

(* The indentation stack is strictly decreasing down to the 0 of the       *)
(* module, whatever the widths of the lines: a DEDENT or the end of the    *)
(* file never takes the outermost level (ls->indent in pylt_lex_next).     *)
THEOREM LevelsNest == LexSpec => []Levels(indent)
<1>1. LevelInv => Levels(indent)
    BY DEF LevelInv
<1> QED BY <1>1, LevelHolds, PTL

-----------------------------------------------------------------------------
(* Tokens: the invariant *)
(* In a name or a literal, and between two lines. The edge is the first character that is not in the     *)
(* tokens or behind them: where the literal being read begins, or the character the reader is at (behind *)
(* a line end that is read already it is the next one).                                                  *)
Literals == {"head", "name", "string", "based", "digits", "fraction"}
BetweenLines == mode = "between" /\ current_indent = -1
Edge == IF mode \in Literals THEN start ELSE IF BetweenLines THEN At(in) + 1 ELSE At(in)

(* b is the last token that is no layout, 0 if there is none. *)
LastWord(b) ==
    /\ b \in 0 .. Len(out)
    /\ b # 0 => ~IsLayout(b)
    /\ \A k \in b + 1 .. Len(out) : IsLayout(k)
After(b) == IF b = 0 THEN 1 ELSE out[b].to + 1
NewlineSince(b) == \E k \in b .. Len(out) : out[k].tok = <<"NEWLINE">>
CommentOpen(b) == \E j \in After(b) .. Edge - 1 :
    text[j] = "#" /\ \A k \in j .. Edge - 1 : text[k] \notin {LF, CR}

(* A NEWLINE came since b if and only if a line has ended since, outside of brackets (at the end of the *)
(* file it comes without one).                                                                          *)
Lined(b) ==
    /\ mode \in Literals \/ in.ch # EOF => (NewlineSince(b) <=> HasLineEnd(After(b), Edge - 1) /\ inside_couples <= 0)
    /\ mode \in {"indent", "indent_comment"} \/ BetweenLines => NewlineSince(b)

(* What has been handed out, b the last word: behind it there is a gap up to the edge. *)
Placed(b) ==
    /\ LastWord(b) /\ After(b) \in 1 .. Edge
    /\ \A k \in 1 .. Len(out) : ~IsLayout(k) => out[k].from \in Nat /\ out[k].from > 0 /\ out[k].to \in Nat /\ out[k].to < After(b)
    /\ Gap(After(b), Edge - 1)
    /\ mode \in {"comment", "indent_comment"} => CommentOpen(b)
    /\ inside_couples = OpenBrackets(b)
    /\ b # 0 => Lined(b)
    /\ BetweenLines => (in.upto = 0 /\ b = 0) \/ in.ch \in {LF, CR}

(* What has been read of a number, a name, a prefix or a string *)
DigitsRead ==
    /\ start < At(in) /\ \A i \in start .. At(in) - 1 : Char(i) \in Dec
    /\ Char(start) = "0" => Char(start + 1) \in Dec \cup {"."}
FractionRead == \E p \in start + 1 .. At(in) - 1 :
    Char(p) = "." /\ \A i \in start .. At(in) - 1 : i # p => Char(i) \in Dec
BasedRead ==
    /\ At(in) >= start + 2 /\ Char(start) = "0" /\ Char(start + 1) \in DOMAIN DigitsOf
    /\ head = DigitsOf[Char(start + 1)] /\ Char(start + 2) \in head
    /\ \A i \in start + 2 .. At(in) - 1 : Char(i) \in head
NoLiteral(i) == \A p \in StringPrefixes : ~(Slice(i, i + Len(p) - 1) = p /\ Char(i + Len(p)) \in Quotes)
NameRead ==
    /\ Char(start) \in Letters /\ str = Slice(start, At(in) - 1)
    /\ \A i \in start .. At(in) : Char(i) \in IdentLetters
    /\ NoLiteral(start)
HeadRead == \E p \in StringPrefixes :
    /\ head = Range(p) /\ p = Slice(start, At(in) - 1) /\ At(in) = start + Len(p) /\ Len(in.buf) = Len(p) + 1
    /\ p = <<>> => in.ch \in {"r", "u", "b"} \cup Quotes
SignsAt(i, s) == Char(i) = s /\ Char(i + 1) = s /\ Char(i + 2) = s /\ Char(i - 1) # "\\"
QuoteTypes == [sign : Quotes, long : BOOLEAN, escape : BOOLEAN]
StringRead == \E q \in start .. At(in) - 1 :
    /\ Slice(start, q - 1) \in StringPrefixes /\ head = Range(Slice(start, q - 1))
    /\ Char(q) = quote.sign /\ quote.sign \in Quotes
    /\ quote.escape <=> Char(At(in) - 1) = "\\"
    /\ quote.long <=> Char(q + 1) = Char(q) /\ Char(q + 2) = Char(q)
    /\ quote.long => At(in) >= q + 3 /\ \A i \in q + 3 .. At(in) - 1 : ~SignsAt(i, quote.sign)
    /\ ~quote.long => \A i \in q + 1 .. At(in) - 1 : Char(i) \notin {LF, CR} /\ ~(Char(i) = quote.sign /\ Char(i - 1) # "\\")

(* The value of a literal is made of what str holds, the lexeme is a slice of the text: they differ in the  *)
(* first signs, the last ones and the line ends between, and have the same escapes.                         *)
EndsB(s) == Len(s) > 0 /\ s[Len(s)] = "\\"
EndsX(s) == Len(s) > 1 /\ s[Len(s) - 1] = "\\" /\ s[Len(s)] = "x"
EndsH(s) == Len(s) > 2 /\ s[Len(s) - 2] = "\\" /\ s[Len(s) - 1] = "x" /\ s[Len(s)] \in Hex
Broken(s) == \E i \in 1 .. Len(s) - 2 :
    s[i] = "\\" /\ s[i + 1] = "x" /\ (s[i + 2] \notin Hex \/ (i + 3 <= Len(s) /\ s[i + 3] \notin Hex))
Twofold(s) == \E i \in 1 .. Len(s) - 1 : s[i] = "\\" /\ s[i + 1] = "\\"

SameEscapes(s, t) ==
    /\ EndsB(s) <=> EndsB(t)
    /\ EndsX(s) <=> EndsX(t)
    /\ EndsH(s) <=> EndsH(t)
    /\ Broken(s) <=> Broken(t)
    /\ Twofold(s) <=> Twofold(t)

Held == Symbols \cup {LF}
ValueOf(v, t) == v \in Seq(Held) /\ SameEscapes(v, t)
ValueAt(v, s, z) == ValueOf(v, Slice(s, z - 1))
ValueRead == ValueAt(str, start, At(in))

(* All of it, in the mode it is read in *)
Reading ==
    /\ mode \in Literals => start \in Nat /\ start > 0 /\ start <= At(in)
    /\ mode = "digits" => DigitsRead
    /\ mode = "fraction" => FractionRead
    /\ mode = "based" => BasedRead
    /\ mode = "name" => NameRead
    /\ mode = "head" => HeadRead
    /\ mode = "string" => quote \in QuoteTypes /\ (in.ch # EOF => StringRead /\ ValueRead)

(* The inductive invariant *)
TokenInv == mode \notin {"ended", "error"} => (\E b \in 0 .. Len(out) : Placed(b)) /\ Reading

(* A character of the text is not its end. *)
LEMMA CharText ==
    ASSUME text \in Texts, NEW i \in Nat, i > 0, Char(i) # EOF
    PROVE  i \in 1 .. Len(text) /\ text[i] = Char(i)
<1>1. Len(text) \in Nat
    BY CharIs
<1>2. i <= Len(text)
    BY DEF Char
<1> QED BY <1>1, <1>2 DEF Char

(* A plain reader goes on by one character. *)
Forward(r, d) == Plain(d) /\ At(d) = At(r) + 1 /\ d.ch = Char(At(r) + 1)

(* Where a plain reader is. *)
LEMMA AtPlain ==
    ASSUME NEW r, Plain(r)
    PROVE  At(r) = r.upto /\ At(r) \in Nat /\ At(r) > 0 /\ r.ch = Char(At(r)) /\ r.buf = <<>> /\ ~r.on
<1>1. r \in Readers /\ r.upto > 0 /\ ~r.on /\ r.buf = <<>> /\ r.ch = Char(r.upto)
    BY DEF Plain
<1>2. r.upto \in Nat /\ Len(<<>>) = 0
    BY <1>1 DEF Readers
<1>3. At(r) = r.upto
    BY <1>1, <1>2 DEF At
<1> QED BY <1>1, <1>2, <1>3

(* A plain reader goes on to the next character, up to the end of the text. *)
LEMMA GoesForward ==
    ASSUME text \in Texts, NEW r, Plain(r), r.ch # EOF
    PROVE  Forward(r, Nextc(r))
<1>1. r \in Readers /\ r.upto > 0 /\ ~r.on /\ r.buf = <<>> /\ r.ch = Char(r.upto) /\ r.upto \in Nat
    BY DEF Plain, Readers
<1>2. PICK c, u : u = r.upto + 1 /\ c = Char(u)
    OBVIOUS
<1>3. PICK d : d = [r EXCEPT !.upto = u, !.ch = c]
    OBVIOUS
<1>4. d.upto = u /\ d.ch = c
    BY <1>1, <1>3 DEF Readers
<1>5. Nextc(r) = d
    BY <1>1, <1>2, <1>3 DEF Nextc, Read
<1>6. Plain(d)
    BY <1>5, NextPlain
<1> QED BY <1>1, <1>2, <1>4, <1>5, <1>6, AtPlain DEF Forward

(* Slices *)
LEMMA SliceIs ==
    ASSUME text \in Texts, NEW i \in Nat, i > 0, NEW j \in Nat, j >= i - 1
    PROVE  /\ Slice(i, j) \in Seq(Symbols) /\ Len(Slice(i, j)) = j - i + 1
           /\ \A k \in 1 .. j - i + 1 : Slice(i, j)[k] = Char(i + k - 1)
<1>1. PICK n : n = j - i + 1
    OBVIOUS
<1>2. n \in Nat
    BY <1>1
<1>3. \A k \in 1 .. n : Char(i + k - 1) \in Symbols
    <2> SUFFICES ASSUME NEW k \in 1 .. n PROVE Char(i + k - 1) \in Symbols
        OBVIOUS
    <2>1. i + k - 1 \in Nat /\ i + k - 1 > 0
        BY <1>2
    <2> QED BY <2>1, CharIs
<1>4. PICK s : s = [k \in 1 .. n |-> Char(i + k - 1)]
    OBVIOUS
<1>5. s \in [1 .. n -> Symbols] /\ Slice(i, j) = s
    BY <1>1, <1>3, <1>4 DEF Slice
<1>6. s \in Seq(Symbols) /\ Len(s) = n
    BY <1>2, <1>5, SeqDef, LenProperties
<1> QED BY <1>1, <1>4, <1>5, <1>6

(* The rest of a slice *)
LEMMA SliceRest ==
    ASSUME text \in Texts, NEW i \in Nat, i > 0, NEW j \in Nat, NEW m \in Nat, j >= i + m - 1
    PROVE  SubSeq(Slice(i, j), m + 1, Len(Slice(i, j))) = Slice(i + m, j)
<1>1. PICK s, t, n : s = Slice(i, j) /\ t = Slice(i + m, j) /\ n = j - i + 1
    OBVIOUS
<1>2. s \in Seq(Symbols) /\ Len(s) = n /\ n \in Nat /\ m <= n /\ \A k \in 1 .. n : s[k] = Char(i + k - 1)
    <2>1. j >= i - 1 /\ n \in Nat /\ m <= n
        BY <1>1
    <2> QED BY <2>1, <1>1, SliceIs
<1>3. t \in Seq(Symbols) /\ Len(t) = n - m /\ \A k \in 1 .. n - m : t[k] = Char(i + m + k - 1)
    <2>1. i + m \in Nat /\ i + m > 0 /\ j >= (i + m) - 1 /\ j - (i + m) + 1 = n - m
        BY <1>1
    <2> QED BY <2>1, <1>1, SliceIs
<1>4. PICK u : u = SubSeq(s, m + 1, n)
    OBVIOUS
<1>5. u \in Seq(Symbols) /\ Len(u) = n - m /\ \A k \in 1 .. n - m : u[k] = s[m + k]
    BY <1>2, <1>4
<1>6. ASSUME NEW k \in 1 .. n - m PROVE u[k] = t[k]
    <2>1. m + k \in 1 .. n /\ i + (m + k) - 1 = i + m + k - 1
        BY <1>2
    <2> QED BY <2>1, <1>2, <1>3, <1>5
<1>7. u = t
    BY <1>3, <1>5, <1>6, SeqEqual
<1> QED BY <1>1, <1>2, <1>4, <1>7

(* Slices that are empty, and that grow *)
LEMMA SliceGrows ==
    ASSUME text \in Texts, NEW i \in Nat, i > 0, NEW j \in Nat, j >= i
    PROVE  Slice(i, i - 1) = <<>> /\ Slice(i, j) = Append(Slice(i, j - 1), Char(j))
<1>1. Slice(i, i - 1) = <<>>
    <2>1. i - 1 \in Nat /\ i - 1 >= i - 1 /\ (i - 1) - i + 1 = 0
        OBVIOUS
    <2>2. PICK k : k = i - 1
        OBVIOUS
    <2>3. Slice(i, k) \in Seq(Symbols) /\ Len(Slice(i, k)) = 0
        BY <2>1, <2>2, SliceIs
    <2> QED BY <2>2, <2>3
<1>2. PICK s, t, n, l : s = Slice(i, j - 1) /\ t = Slice(i, j) /\ n = j - i /\ l = j - 1
    OBVIOUS
<1>3. n \in Nat /\ l \in Nat /\ l >= i - 1 /\ j >= i - 1 /\ l - i + 1 = n /\ j - i + 1 = n + 1
    BY <1>2
<1>4. s \in Seq(Symbols) /\ Len(s) = n /\ \A k \in 1 .. n : s[k] = Char(i + k - 1)
    BY <1>2, <1>3, SliceIs
<1>5. t \in Seq(Symbols) /\ Len(t) = n + 1 /\ \A k \in 1 .. n + 1 : t[k] = Char(i + k - 1)
    BY <1>2, <1>3, SliceIs
<1>6. PICK c : c = Char(j)
    OBVIOUS
<1>7. n + 1 \in 1 .. n + 1 /\ i + (n + 1) - 1 = j /\ \A k \in 1 .. n : k \in 1 .. n + 1
    BY <1>2, <1>3
<1>8. t[n + 1] = c /\ \A k \in 1 .. n : t[k] = s[k]
    BY <1>4, <1>5, <1>6, <1>7
<1>9. c \in Symbols
    BY <1>6, CharIs
<1>10. PICK u : u = Append(s, c)
    OBVIOUS
<1>11. u \in Seq(Symbols) /\ Len(u) = n + 1 /\ u[n + 1] = c /\ \A k \in 1 .. n : u[k] = s[k]
    BY <1>4, <1>9, <1>10, AppendProperties
<1>12. \A k \in 1 .. n + 1 : u[k] = t[k]
    <2>1. \A k \in 1 .. n + 1 : k \in 1 .. n \/ k = n + 1
        BY <1>3
    <2> QED BY <2>1, <1>8, <1>11
<1>13. u = t
    BY <1>5, <1>11, <1>12, SeqEqual
<1> QED BY <1>1, <1>2, <1>6, <1>10, <1>13

-----------------------------------------------------------------------------
(* Lexemes in the text *)
Twice == {"<", ">", "/", "*"}
Equal == Twice \cup {"=", "+", "%", "@", "&", "|", "^", "-", "!"}
Once == {"(", ")", ",", ":", ".", "~", "<", ">", "/", "*", "=", "+", "%", "@", "&", "|", "^", "-"}

(* Tuples are sequences. *)
LEMMA TuplesAre ==
    ASSUME NEW S, NEW c \in S, NEW d \in S, NEW e \in S
    PROVE  /\ <<c>> \in Seq(S) /\ Len(<<c>>) = 1 /\ <<c>>[1] = c
           /\ <<c, d>> \in Seq(S) /\ Len(<<c, d>>) = 2 /\ <<c, d>>[1] = c /\ <<c, d>>[2] = d
           /\ <<c, d, e>> \in Seq(S) /\ Len(<<c, d, e>>) = 3 /\ <<c, d, e>>[1] = c /\ <<c, d, e>>[2] = d /\ <<c, d, e>>[3] = e
OBVIOUS

(* A sequence of known length is the tuple of its elements. *)
LEMMA SeqOfLength ==
    ASSUME NEW S, NEW s \in Seq(S)
    PROVE  /\ Len(s) = 1 => s = <<s[1]>>
           /\ Len(s) = 2 => s = <<s[1], s[2]>>
           /\ Len(s) = 3 => s = <<s[1], s[2], s[3]>>
OBVIOUS

IsOperator(s) ==
    \/ Len(s) = 1 /\ s[1] \in Once
    \/ Len(s) = 2 /\ \/ s[1] \in Equal /\ s[2] = "="
                     \/ s[1] \in Twice /\ s[2] = s[1]
                     \/ s[1] = "-" /\ s[2] = ">"
    \/ Len(s) = 3 /\ s[1] \in Twice /\ s[2] = s[1] /\ s[3] = "="

(* The operators, told by their length and first character. *)
LEMMA OperatorsAre ==
    ASSUME NEW s \in Seq(Symbols)
    PROVE  s \in Operators <=> IsOperator(s)
<1>1. s \in Operators <=>
          \/ \E c \in Once : s = <<c>>
          \/ \E c \in Equal : s = <<c, "=">>
          \/ \E c \in Twice : s = <<c, c>>
          \/ \E c \in Twice : s = <<c, c, "=">>
          \/ s = <<"-", ">">>
    BY DEF Operators, Once, Equal, Twice
<1>2. ASSUME NEW c PROVE /\ Len(<<c>>) = 1 /\ <<c>>[1] = c
                         /\ Len(<<c, "=">>) = 2 /\ <<c, "=">>[1] = c /\ <<c, "=">>[2] = "="
                         /\ Len(<<c, c>>) = 2 /\ <<c, c>>[1] = c /\ <<c, c>>[2] = c
                         /\ Len(<<c, c, "=">>) = 3 /\ <<c, c, "=">>[1] = c /\ <<c, c, "=">>[2] = c /\ <<c, c, "=">>[3] = "="
    OBVIOUS
<1>3. Len(<<"-", ">">>) = 2 /\ <<"-", ">">>[1] = "-" /\ <<"-", ">">>[2] = ">"
    OBVIOUS
<1>4. ASSUME s \in Operators PROVE IsOperator(s)
    <2>1. CASE \E c \in Once : s = <<c>>
        BY <2>1, <1>2 DEF IsOperator
    <2>2. CASE \E c \in Equal : s = <<c, "=">>
        BY <2>2, <1>2 DEF IsOperator
    <2>3. CASE \E c \in Twice : s = <<c, c>>
        BY <2>3, <1>2 DEF IsOperator
    <2>4. CASE \E c \in Twice : s = <<c, c, "=">>
        BY <2>4, <1>2 DEF IsOperator
    <2>5. CASE s = <<"-", ">">>
        BY <2>5, <1>3 DEF IsOperator
    <2> QED BY <1>1, <1>4, <2>1, <2>2, <2>3, <2>4, <2>5
<1>5. ASSUME IsOperator(s) PROVE s \in Operators
    <2>1. CASE Len(s) = 1 /\ s[1] \in Once
        <3>1. s = <<s[1]>>
            BY <2>1, SeqOfLength
        <3> QED BY <2>1, <3>1, <1>1
    <2>2. CASE Len(s) = 2 /\ s[1] \in Equal /\ s[2] = "="
        <3>1. s = <<s[1], s[2]>>
            BY <2>2, SeqOfLength
        <3>2. s = <<s[1], "=">>
            BY <2>2, <3>1
        <3> QED BY <2>2, <3>2, <1>1
    <2>3. CASE Len(s) = 2 /\ s[1] \in Twice /\ s[2] = s[1]
        <3>1. s = <<s[1], s[2]>>
            BY <2>3, SeqOfLength
        <3>2. s = <<s[1], s[1]>>
            BY <2>3, <3>1
        <3> QED BY <2>3, <3>2, <1>1
    <2>4. CASE Len(s) = 2 /\ s[1] = "-" /\ s[2] = ">"
        <3>1. s = <<s[1], s[2]>>
            BY <2>4, SeqOfLength
        <3>2. s = <<"-", ">">>
            BY <2>4, <3>1
        <3> QED BY <3>2, <1>1
    <2>5. CASE Len(s) = 3 /\ s[1] \in Twice /\ s[2] = s[1] /\ s[3] = "="
        <3>1. s = <<s[1], s[2], s[3]>>
            BY <2>5, SeqOfLength
        <3>2. s = <<s[1], s[1], "=">>
            BY <2>5, <3>1
        <3> QED BY <2>5, <3>2, <1>1
    <2> QED BY <1>5, <2>1, <2>2, <2>3, <2>4, <2>5 DEF IsOperator
<1> QED BY <1>4, <1>5

(* Which characters are digits of which base. *)
LEMMA DigitsOfIs ==
    /\ DOMAIN DigitsOf = {"x", "b", "o"}
    /\ \A c \in DOMAIN DigitsOf : DigitsOf[c] \subseteq Dec \cup {"a", "b", "e"} /\ c \notin Dec \cup {"."}
BY DEF DigitsOf, Hex, Dec

(* Which characters a lexeme begins with *)
LEMMA FirstOfWord ==
    ASSUME NEW s \in Seq(Symbols), IsWord(s)
    PROVE  Len(s) >= 1 /\ s[1] \in Letters /\ \A k \in 1 .. Len(s) : s[k] \in IdentLetters
BY DEF IsWord, AllIn

(* An int begins with a digit. *)
LEMMA FirstOfInt ==
    ASSUME NEW s \in Seq(Symbols), IsInt(s)
    PROVE  Len(s) >= 1 /\ s[1] \in Dec
BY DEF IsInt, AllIn, Dec

(* A float begins with a digit, too. *)
LEMMA FirstOfFloat ==
    ASSUME NEW s \in Seq(Symbols), IsFloat(s)
    PROVE  Len(s) >= 1 /\ s[1] \in Dec
BY DEF IsFloat

(* A literal of the text is a prefix, a quotation mark and what follows. *)
IsLiteralAt(i, j, m, kind) ==
    /\ Slice(i, i + m - 1) \in StringPrefixes /\ i + m <= j /\ Char(i + m) \in Quotes
    /\ (kind = <<"BYTES">>) = ("b" \in Range(Slice(i, i + m - 1)))
    /\ IsShort(Slice(i + m, j)) \/ IsLong(Slice(i + m, j))

(* A prefix has two letters at most. *)
LEMMA PrefixLength ==
    ASSUME NEW p \in StringPrefixes
    PROVE  p \in Seq(Prefix) /\ Len(p) \in 0 .. 2 /\ (p # <<>> => p[1] \in Prefix)
<1>1. \/ p = <<>> \/ p = <<"r">> \/ p = <<"u">> \/ p = <<"b">>
      \/ p = <<"r", "u">> \/ p = <<"u", "r">> \/ p = <<"r", "b">> \/ p = <<"b", "r">>
    BY DEF StringPrefixes
<1>2. "r" \in Prefix /\ "u" \in Prefix /\ "b" \in Prefix
    BY DEF Prefix
<1>3. <<>> \in Seq(Prefix) /\ Len(<<>>) = 0
    OBVIOUS
<1> HIDE DEF Prefix
<1>4. CASE p = <<>>
    BY <1>3, <1>4
<1>5. CASE p = <<"r">> \/ p = <<"u">> \/ p = <<"b">>
    BY <1>2, <1>5, TuplesAre
<1>6. ASSUME NEW c \in Prefix, NEW d \in Prefix, p = <<c, d>> PROVE p \in Seq(Prefix) /\ Len(p) = 2 /\ p[1] = c
    BY <1>6, TuplesAre
<1> QED BY <1>1, <1>2, <1>4, <1>5, <1>6

(* A literal, by its place in the text. *)
LEMMA LiteralAt ==
    ASSUME text \in Texts, NEW i \in Nat, i > 0, NEW j \in Nat, j >= i, NEW kind
    PROVE  IsLiteral(Slice(i, j), kind) <=> \E m \in 0 .. 2 : IsLiteralAt(i, j, m, kind)
<1> DEFINE s == Slice(i, j)
<1>1. s \in Seq(Symbols) /\ Len(s) = j - i + 1 /\ Len(s) \in Nat /\ \A k \in 1 .. Len(s) : s[k] = Char(i + k - 1)
    BY SliceIs
<1>2. ASSUME NEW m \in 0 .. 2, i + m <= j
      PROVE  /\ SubSeq(s, m + 1, Len(s)) = Slice(i + m, j)
             /\ Slice(i + m, j) \in Seq(Symbols) /\ Len(Slice(i + m, j)) = j - i - m + 1 /\ Slice(i + m, j)[1] = Char(i + m)
             /\ Slice(i, i + m - 1) \in Seq(Symbols) /\ Len(Slice(i, i + m - 1)) = m
             /\ \A k \in 1 .. m : Slice(i, i + m - 1)[k] = Char(i + k - 1)
    <2>1. m \in Nat /\ j >= i + m - 1 /\ i + m \in Nat /\ i + m > 0 /\ j >= (i + m) - 1 /\ i + m - 1 \in Nat /\ i + m - 1 >= i - 1
        BY <1>2
    <2>2. SubSeq(s, m + 1, Len(s)) = Slice(i + m, j)
        BY <2>1, SliceRest
    <2>3. /\ Slice(i + m, j) \in Seq(Symbols) /\ Len(Slice(i + m, j)) = j - (i + m) + 1
          /\ \A k \in 1 .. j - (i + m) + 1 : Slice(i + m, j)[k] = Char(i + m + k - 1)
        BY <2>1, SliceIs
    <2>4. /\ Slice(i, i + m - 1) \in Seq(Symbols) /\ Len(Slice(i, i + m - 1)) = (i + m - 1) - i + 1
          /\ \A k \in 1 .. (i + m - 1) - i + 1 : Slice(i, i + m - 1)[k] = Char(i + k - 1)
        BY <2>1, SliceIs
    <2>5. 1 \in 1 .. j - (i + m) + 1 /\ i + m + 1 - 1 = i + m /\ (i + m - 1) - i + 1 = m
        BY <1>2
    <2> QED BY <2>2, <2>3, <2>4, <2>5
<1>3. ASSUME NEW m \in 0 .. 2, IsLiteralAt(i, j, m, kind) PROVE IsLiteral(s, kind)
    <2>1. PICK p : p = Slice(i, i + m - 1)
        OBVIOUS
    <2>2. i + m <= j /\ p \in StringPrefixes /\ Len(p) = m /\ p \in Seq(Symbols) /\ \A k \in 1 .. m : p[k] = Char(i + k - 1)
        BY <1>2, <1>3, <2>1 DEF IsLiteralAt
    <2>3. IsPrefix(p, s)
        <3>1. m <= Len(s) /\ \A k \in 1 .. m : k \in 1 .. Len(s)
            BY <1>1, <2>2
        <3>2. SubSeq(s, 1, m) \in Seq(Symbols) /\ Len(SubSeq(s, 1, m)) = m /\ \A k \in 1 .. m : SubSeq(s, 1, m)[k] = s[k]
            BY <1>1, <3>1
        <3>3. SubSeq(s, 1, m) = p
            <4> HIDE DEF s
            <4>1. \A k \in 1 .. m : SubSeq(s, 1, m)[k] = p[k]
                BY <3>1, <3>2, <1>1, <2>2
            <4> QED BY <4>1, <3>2, <2>2, SeqEqual
        <3>4. SubSeq(p, 1, m) = p
            BY <2>2, SubSeqFull
        <3> QED BY <3>1, <3>3, <3>4, <2>2 DEF IsPrefix
    <2>4. SubSeq(s, Len(p) + 1, Len(s)) = Slice(i + m, j)
        BY <1>2, <2>2
    <2> QED BY <1>3, <2>1, <2>2, <2>3, <2>4 DEF IsLiteral, IsLiteralAt
<1>4. ASSUME IsLiteral(s, kind) PROVE \E m \in 0 .. 2 : IsLiteralAt(i, j, m, kind)
    <2>1. PICK p \in StringPrefixes :
              /\ IsPrefix(p, s) /\ (kind = <<"BYTES">>) = ("b" \in Range(p))
              /\ IsShort(SubSeq(s, Len(p) + 1, Len(s))) \/ IsLong(SubSeq(s, Len(p) + 1, Len(s)))
        BY <1>4 DEF IsLiteral
    <2>2. PICK m : m = Len(p)
        OBVIOUS
    <2>3. m \in 0 .. 2 /\ m <= Len(s) /\ SubSeq(s, 1, m) = p /\ p \in Seq(Prefix)
        <3>1. m \in 0 .. 2 /\ p \in Seq(Prefix)
            BY <2>2, PrefixLength
        <3>2. SubSeq(p, 1, m) = p
            BY <2>2, <3>1, SubSeqFull
        <3> QED BY <2>1, <2>2, <3>1, <3>2 DEF IsPrefix
    <2>4. i + m <= j
        <3>1. m # Len(s)
            <4>1. SUFFICES ASSUME m = Len(s) PROVE FALSE
                OBVIOUS
            <4>2. Len(SubSeq(s, m + 1, Len(s))) = 0
                BY <1>1, <4>1, <2>3
            <4> QED BY <4>2, <2>1, <2>2 DEF IsShort, IsLong
        <3> QED BY <3>1, <2>3, <1>1
    <2>5. SubSeq(s, m + 1, Len(s)) = Slice(i + m, j) /\ Slice(i + m, j)[1] = Char(i + m)
        BY <1>2, <2>3, <2>4
    <2>6. Slice(i, i + m - 1) = p
        <3>1. m <= Len(s) /\ \A k \in 1 .. m : k \in 1 .. Len(s)
            BY <1>1, <2>3
        <3>2. SubSeq(s, 1, m) \in Seq(Symbols) /\ Len(SubSeq(s, 1, m)) = m /\ \A k \in 1 .. m : SubSeq(s, 1, m)[k] = s[k]
            BY <1>1, <3>1, <2>3
        <3>3. PICK u : u = Slice(i, i + m - 1)
            OBVIOUS
        <3>4. u \in Seq(Symbols) /\ Len(u) = m /\ \A k \in 1 .. m : u[k] = Char(i + k - 1)
            BY <1>2, <2>3, <2>4, <3>3
        <3> HIDE DEF s
        <3>5. \A k \in 1 .. m : SubSeq(s, 1, m)[k] = u[k]
            BY <3>1, <3>2, <3>4, <1>1
        <3> QED BY <3>2, <3>3, <3>4, <3>5, <2>3, SeqEqual
    <2>7. Char(i + m) \in Quotes
        BY <2>1, <2>2, <2>5 DEF IsShort, IsLong
    <2>8. IsLiteralAt(i, j, m, kind)
        BY <2>1, <2>2, <2>4, <2>5, <2>6, <2>7 DEF IsLiteralAt
    <2> QED BY <2>3, <2>8
<1> QED BY <1>3, <1>4

(* The characters of a prefix, by their place in the text. *)
LEMMA PrefixChars ==
    ASSUME text \in Texts, NEW i \in Nat, i > 0, NEW m \in Nat, Slice(i, i + m - 1) \in StringPrefixes
    PROVE  m <= 2 /\ \A k \in 0 .. m - 1 : Char(i + k) \in Prefix
<1>1. PICK p : p = Slice(i, i + m - 1)
    OBVIOUS
<1>2. i + m - 1 \in Nat /\ i + m - 1 >= i - 1 /\ (i + m - 1) - i + 1 = m
    OBVIOUS
<1>3. Len(p) = m /\ \A k \in 1 .. m : p[k] = Char(i + k - 1)
    BY <1>1, <1>2, SliceIs
<1>4. p \in Seq(Prefix) /\ Len(p) \in 0 .. 2
    BY <1>1, PrefixLength
<1>5. ASSUME NEW k \in 0 .. m - 1 PROVE Char(i + k) \in Prefix
    <2>1. k + 1 \in 1 .. m /\ i + (k + 1) - 1 = i + k
        OBVIOUS
    <2>2. p[k + 1] \in Prefix
        BY <2>1, <1>3, <1>4
    <2> QED BY <2>1, <2>2, <1>3
<1> QED BY <1>3, <1>4, <1>5

(* A literal has one prefix only. *)
LEMMA PrefixIsOne ==
    ASSUME text \in Texts, NEW i \in Nat, i > 0, NEW m \in Nat, NEW n \in Nat,
           Slice(i, i + m - 1) \in StringPrefixes, Char(i + m) \in Quotes,
           Slice(i, i + n - 1) \in StringPrefixes, Char(i + n) \in Quotes
    PROVE  m = n
<1>1. Quotes \cap Prefix = {}
    BY DEF Quotes, Prefix
<1>2. \A k \in 0 .. m - 1 : Char(i + k) \in Prefix
    BY PrefixChars
<1>3. \A k \in 0 .. n - 1 : Char(i + k) \in Prefix
    BY PrefixChars
<1>4. ~(n < m)
    BY <1>1, <1>2
<1>5. ~(m < n)
    BY <1>1, <1>3
<1> QED BY <1>4, <1>5

(* What a lexeme may be is told by its first character. *)
LEMMA FirstTells ==
    ASSUME text \in Texts, NEW i \in Nat, i > 0, NEW j \in Nat, j >= i, AnyLexeme(Slice(i, j))
    PROVE  \/ Char(i) \in Once \cup {"!"} /\ IsOperator(Slice(i, j))
           \/ Char(i) \in Dec /\ (IsInt(Slice(i, j)) \/ IsFloat(Slice(i, j)))
           \/ Char(i) \in Letters /\ IsWord(Slice(i, j))
           \/ /\ Char(i) \in Prefix \cup Quotes
              /\ \E m \in 0 .. 2, kind \in {<<"BYTES">>, <<"STRING">>} : IsLiteralAt(i, j, m, kind)
<1>1. PICK s : s = Slice(i, j)
    OBVIOUS
<1>2. s \in Seq(Symbols) /\ Len(s) = j - i + 1 /\ s[1] = Char(i)
    <2>1. j >= i - 1 /\ 1 \in 1 .. j - i + 1 /\ i + 1 - 1 = i
        OBVIOUS
    <2> QED BY <2>1, <1>1, SliceIs
<1>3. CASE s \in Operators
    <2>1. IsOperator(s)
        BY <1>2, <1>3, OperatorsAre
    <2>2. s[1] \in Once \cup {"!"}
        BY <2>1 DEF IsOperator, Once, Equal, Twice
    <2> QED BY <2>1, <2>2, <1>1, <1>2
<1>4. CASE IsWord(s)
    BY <1>1, <1>2, <1>4, FirstOfWord
<1>5. CASE IsInt(s)
    BY <1>1, <1>2, <1>5, FirstOfInt
<1>6. CASE IsFloat(s)
    BY <1>1, <1>2, <1>6, FirstOfFloat
<1>7. ASSUME NEW kind \in {<<"BYTES">>, <<"STRING">>}, IsLiteral(s, kind)
      PROVE  Char(i) \in Prefix \cup Quotes /\ \E m \in 0 .. 2 : IsLiteralAt(i, j, m, kind)
    <2>1. PICK m \in 0 .. 2 : IsLiteralAt(i, j, m, kind)
        BY <1>1, <1>7, LiteralAt
    <2>2. Slice(i, i + m - 1) \in StringPrefixes /\ Char(i + m) \in Quotes
        BY <2>1 DEF IsLiteralAt
    <2>3. m = 0 => Char(i) \in Quotes
        BY <2>2
    <2>4. m > 0 => Char(i) \in Prefix
        <3>1. \A k \in 0 .. m - 1 : Char(i + k) \in Prefix
            <4>1. m \in Nat
                OBVIOUS
            <4> QED BY <2>2, <4>1, PrefixChars
        <3>2. m > 0 => 0 \in 0 .. m - 1 /\ i + 0 = i
            OBVIOUS
        <3> QED BY <3>1, <3>2
    <2> QED BY <2>1, <2>3, <2>4
<1>8. \/ s \in Operators \/ IsWord(s) \/ IsInt(s) \/ IsFloat(s)
      \/ IsLiteral(s, <<"STRING">>) \/ IsLiteral(s, <<"BYTES">>)
    BY <1>1 DEF AnyLexeme, AnyLiteral
<1> QED BY <1>1, <1>3, <1>4, <1>5, <1>6, <1>7, <1>8

(* Without escaped backslashes, a backslash escapes what comes after it. *)
LEMMA EscapedIs ==
    ASSUME text \in Texts, ~EscapedBackslash, NEW i \in Nat, i > 0, NEW j \in Nat, j >= i, NEW k \in 1 .. j - i + 1
    PROVE  Escaped(Slice(i, j), k) <=> k > 1 /\ Char(i + k - 2) = "\\"
<1>1. PICK s, n : s = Slice(i, j) /\ n = j - i + 1
    OBVIOUS
<1>2. n \in Nat /\ \A l \in 1 .. n : s[l] = Char(i + l - 1)
    <2>1. j >= i - 1 /\ n \in Nat
        BY <1>1
    <2> QED BY <2>1, <1>1, SliceIs
<1>3. ASSUME Escaped(s, k) PROVE k > 1 /\ Char(i + k - 2) = "\\"
    <2>1. PICK l \in 1 .. k - 1 : \A h \in l .. k - 1 : s[h] = "\\"
        BY <1>3 DEF Escaped
    <2>2. k - 1 \in l .. k - 1 /\ k > 1 /\ k - 1 \in 1 .. n /\ i + (k - 1) - 1 = i + k - 2
        BY <1>1
    <2> QED BY <2>1, <2>2, <1>2
<1>4. ASSUME k > 1, Char(i + k - 2) = "\\" PROVE Escaped(s, k)
    <2>1. PICK l : l = k - 1
        OBVIOUS
    <2>2. l \in 1 .. k - 1 /\ l \in 1 .. n /\ (k - l) % 2 = 1 /\ i + l - 1 = i + k - 2
        BY <2>1, <1>1, <1>4
    <2>3. \A h \in l .. k - 1 : h = l
        BY <2>1
    <2>4. s[l] = "\\"
        BY <2>2, <1>2, <1>4
    <2>5. l = 1 \/ s[l - 1] # "\\"
        <3> SUFFICES ASSUME l # 1, s[l - 1] = "\\" PROVE FALSE
            OBVIOUS
        <3>1. l - 1 \in 1 .. n /\ i + (l - 1) - 1 = i + k - 3
            <4>1. l \in Nat /\ l > 1 /\ l <= n /\ l = k - 1 /\ k \in Nat
                BY <2>1, <2>2
            <4> QED BY <4>1, <1>2
        <3>2. Char(i + k - 3) = "\\" /\ Char(i + k - 2) = "\\"
            BY <3>1, <1>2, <1>4
        <3>3. i + k - 3 \in Nat /\ i + k - 3 > 0 /\ i + k - 2 \in Nat /\ i + k - 2 > 0 /\ (i + k - 3) + 1 = i + k - 2
            BY <2>1, <2>2
        <3>4. "\\" # EOF
            BY EndIsNoCharacter DEF Signs
        <3>5. i + k - 3 \in 1 .. Len(text) /\ text[i + k - 3] = "\\" /\ i + k - 2 \in 1 .. Len(text) /\ text[i + k - 2] = "\\"
            BY <3>2, <3>3, <3>4, CharText
        <3>6. i + k - 3 \in 1 .. Len(text) - 1
            BY <3>3, <3>5
        <3> QED BY <3>3, <3>5, <3>6 DEF EscapedBackslash
    <2> QED BY <2>2, <2>3, <2>4, <2>5 DEF Escaped
<1> QED BY <1>1, <1>3, <1>4

(* Three signs in a literal *)
LEMMA ThreeAt ==
    ASSUME text \in Texts, ~EscapedBackslash, NEW i \in Nat, i > 0, NEW j \in Nat, j >= i, NEW x \in i .. j, NEW sign
    PROVE  Three(Slice(i, j), x - i + 1, sign) <=>
              x + 2 <= j /\ (x > i => Char(x - 1) # "\\") /\ Char(x) = sign /\ Char(x + 1) = sign /\ Char(x + 2) = sign
<1>1. PICK s, n, k : s = Slice(i, j) /\ n = j - i + 1 /\ k = x - i + 1
    OBVIOUS
<1>2. n \in Nat /\ k \in 1 .. n /\ Len(s) = n /\ \A l \in 1 .. n : s[l] = Char(i + l - 1)
    <2>1. j >= i - 1 /\ n \in Nat /\ k \in 1 .. n
        BY <1>1
    <2> QED BY <2>1, <1>1, SliceIs
<1>3. Escaped(s, k) <=> x > i /\ Char(x - 1) = "\\"
    <2>1. k \in 1 .. j - i + 1 /\ i + k - 2 = x - 1 /\ (k > 1 <=> x > i)
        BY <1>1, <1>2
    <2> QED BY <1>1, <2>1, EscapedIs
<1>4. k + 2 <= n <=> x + 2 <= j
    BY <1>1
<1>5. ASSUME k + 2 <= n PROVE s[k] = Char(x) /\ s[k + 1] = Char(x + 1) /\ s[k + 2] = Char(x + 2)
    <2>1. /\ k + 1 \in 1 .. n /\ k + 2 \in 1 .. n
          /\ i + k - 1 = x /\ i + (k + 1) - 1 = x + 1 /\ i + (k + 2) - 1 = x + 2
        BY <1>1, <1>2, <1>5
    <2> QED BY <2>1, <1>2
<1>6. (\A l \in k .. k + 2 : s[l] = sign) <=> s[k] = sign /\ s[k + 1] = sign /\ s[k + 2] = sign
    <2>1. k \in k .. k + 2 /\ k + 1 \in k .. k + 2 /\ k + 2 \in k .. k + 2 /\ \A l \in k .. k + 2 : l = k \/ l = k + 1 \/ l = k + 2
        BY <1>2
    <2> QED BY <2>1
<1> QED BY <1>1, <1>2, <1>3, <1>4, <1>5, <1>6 DEF Three

ShortAt(q, j) ==
    /\ q + 1 <= j /\ Char(q) \in Quotes /\ ~(q + 2 <= j /\ Char(q + 1) = Char(q) /\ Char(q + 2) = Char(q))
    /\ \A x \in q + 1 .. j : Char(x) \notin {LF, CR} /\ (x = j <=> Char(x) = Char(q) /\ Char(x - 1) # "\\")

LongAt(q, j) ==
    /\ q + 5 <= j /\ Char(q) \in Quotes /\ Char(q + 1) = Char(q) /\ Char(q + 2) = Char(q)
    /\ \A x \in q + 3 .. j : x = j - 2 <=> x + 2 <= j /\ SignsAt(x, Char(q))

(* A short literal, by its place in the text: no line end, and its sign only at its end or escaped. *)
LEMMA ShortIs ==
    ASSUME text \in Texts, ~EscapedBackslash, NEW q \in Nat, q > 0, NEW j \in Nat, j >= q
    PROVE  IsShort(Slice(q, j)) <=> ShortAt(q, j)
<1>1. PICK s, n : s = Slice(q, j) /\ n = j - q + 1
    OBVIOUS
<1>2. n \in Nat /\ n >= 1 /\ Len(s) = n /\ \A l \in 1 .. n : s[l] = Char(q + l - 1)
    <2>1. j >= q - 1 /\ n \in Nat /\ n >= 1
        BY <1>1
    <2> QED BY <2>1, <1>1, SliceIs
<1>3. s[1] = Char(q)
    <2>1. 1 \in 1 .. n /\ q + 1 - 1 = q
        BY <1>2
    <2> QED BY <2>1, <1>2
<1>4. Three(s, 1, s[1]) <=> q + 2 <= j /\ Char(q + 1) = Char(q) /\ Char(q + 2) = Char(q)
    <2>1. q \in q .. j /\ q - q + 1 = 1 /\ ~(q > q)
        OBVIOUS
    <2>2. Three(s, q - q + 1, Char(q)) <=>
              q + 2 <= j /\ (q > q => Char(q - 1) # "\\") /\ Char(q) = Char(q) /\ Char(q + 1) = Char(q) /\ Char(q + 2) = Char(q)
        BY <1>1, <2>1, ThreeAt
    <2> QED BY <2>1, <2>2, <1>3
<1>5. ASSUME NEW l \in 2 .. n
      PROVE  (s[l] \notin {LF, CR} /\ (l = n <=> s[l] = s[1] /\ ~Escaped(s, l))) <=>
             (Char(q + l - 1) \notin {LF, CR} /\ (q + l - 1 = j <=> Char(q + l - 1) = Char(q) /\ Char(q + l - 1 - 1) # "\\"))
    <2>1. l \in 1 .. j - q + 1 /\ l > 1 /\ q + l - 2 = q + l - 1 - 1 /\ (l = n <=> q + l - 1 = j)
        BY <1>1, <1>5
    <2>2. Escaped(s, l) <=> Char(q + l - 1 - 1) = "\\"
        BY <1>1, <2>1, EscapedIs
    <2>3. s[l] = Char(q + l - 1)
        BY <2>1, <1>1, <1>2
    <2> QED BY <2>1, <2>2, <2>3, <1>3
<1>6. (\A l \in 2 .. n : Char(q + l - 1) \notin {LF, CR} /\ (q + l - 1 = j <=> Char(q + l - 1) = Char(q) /\ Char(q + l - 1 - 1) # "\\"))
      <=> \A x \in q + 1 .. j : Char(x) \notin {LF, CR} /\ (x = j <=> Char(x) = Char(q) /\ Char(x - 1) # "\\")
    <2>1. ASSUME \A l \in 2 .. n : Char(q + l - 1) \notin {LF, CR} /\ (q + l - 1 = j <=> Char(q + l - 1) = Char(q) /\ Char(q + l - 1 - 1) # "\\"), NEW x \in q + 1 .. j
          PROVE  Char(x) \notin {LF, CR} /\ (x = j <=> Char(x) = Char(q) /\ Char(x - 1) # "\\")
        <3>1. PICK l : l = x - q + 1
            OBVIOUS
        <3>2. l \in 2 .. n /\ q + l - 1 = x
            BY <1>1, <3>1
        <3> QED BY <2>1, <3>2
    <2>2. ASSUME \A x \in q + 1 .. j : Char(x) \notin {LF, CR} /\ (x = j <=> Char(x) = Char(q) /\ Char(x - 1) # "\\"), NEW l \in 2 .. n
          PROVE  Char(q + l - 1) \notin {LF, CR} /\ (q + l - 1 = j <=> Char(q + l - 1) = Char(q) /\ Char(q + l - 1 - 1) # "\\")
        <3>1. q + l - 1 \in q + 1 .. j
            BY <1>1
        <3> QED BY <2>2, <3>1
    <2> QED BY <2>1, <2>2
<1>7. n > 1 <=> q + 1 <= j
    BY <1>1
<1>8. (\A l \in 2 .. n : s[l] \notin {LF, CR} /\ (l = n <=> s[l] = s[1] /\ ~Escaped(s, l)))
      <=> \A x \in q + 1 .. j : Char(x) \notin {LF, CR} /\ (x = j <=> Char(x) = Char(q) /\ Char(x - 1) # "\\")
    BY <1>5, <1>6
<1>9. IsShort(s) <=> /\ n > 1 /\ s[1] \in Quotes /\ ~Three(s, 1, s[1])
                     /\ \A l \in 2 .. n : s[l] \notin {LF, CR} /\ (l = n <=> s[l] = s[1] /\ ~Escaped(s, l))
    BY <1>2 DEF IsShort
<1>10. IsShort(s) <=> ShortAt(q, j)
    BY <1>3, <1>4, <1>7, <1>8, <1>9 DEF ShortAt
<1> QED BY <1>1, <1>10

(* A long literal: three signs in a row only at its beginning and its end. *)
LEMMA LongIs ==
    ASSUME text \in Texts, ~EscapedBackslash, NEW q \in Nat, q > 0, NEW j \in Nat, j >= q
    PROVE  IsLong(Slice(q, j)) <=> LongAt(q, j)
<1>1. PICK s, n : s = Slice(q, j) /\ n = j - q + 1
    OBVIOUS
<1>2. n \in Nat /\ n >= 1 /\ Len(s) = n /\ \A l \in 1 .. n : s[l] = Char(q + l - 1)
    <2>1. j >= q - 1 /\ n \in Nat /\ n >= 1
        BY <1>1
    <2> QED BY <2>1, <1>1, SliceIs
<1>3. s[1] = Char(q)
    <2>1. 1 \in 1 .. n /\ q + 1 - 1 = q
        BY <1>2
    <2> QED BY <2>1, <1>2
<1>4. Three(s, 1, s[1]) <=> q + 2 <= j /\ Char(q + 1) = Char(q) /\ Char(q + 2) = Char(q)
    <2>1. q \in q .. j /\ q - q + 1 = 1 /\ ~(q > q)
        OBVIOUS
    <2>2. Three(s, q - q + 1, Char(q)) <=>
              q + 2 <= j /\ (q > q => Char(q - 1) # "\\") /\ Char(q) = Char(q) /\ Char(q + 1) = Char(q) /\ Char(q + 2) = Char(q)
        BY <1>1, <2>1, ThreeAt
    <2> QED BY <2>1, <2>2, <1>3
<1>5. ASSUME NEW x \in q + 3 .. j
      PROVE  (x - q + 1 = n - 2 <=> Three(s, x - q + 1, s[1])) <=> (x = j - 2 <=> x + 2 <= j /\ SignsAt(x, Char(q)))
    <2>1. x \in q .. j /\ x > q /\ (x - q + 1 = n - 2 <=> x = j - 2)
        BY <1>1
    <2>2. PICK c : c = Char(q)
        OBVIOUS
    <2>3. Three(Slice(q, j), x - q + 1, c) <=>
              x + 2 <= j /\ (x > q => Char(x - 1) # "\\") /\ Char(x) = c /\ Char(x + 1) = c /\ Char(x + 2) = c
        BY <2>1, ThreeAt
    <2> QED BY <2>1, <2>2, <2>3, <1>1, <1>3 DEF SignsAt
<1>6. (\A l \in 4 .. n : l = n - 2 <=> Three(s, l, s[1])) <=> \A x \in q + 3 .. j : x - q + 1 = n - 2 <=> Three(s, x - q + 1, s[1])
    <2>1. \A l \in 4 .. n : q + l - 1 \in q + 3 .. j /\ (q + l - 1) - q + 1 = l
        BY <1>1
    <2>2. \A x \in q + 3 .. j : x - q + 1 \in 4 .. n
        BY <1>1
    <2> QED BY <2>1, <2>2
<1>7. n > 5 <=> q + 5 <= j
    BY <1>1
<1>8. (\A l \in 4 .. n : l = n - 2 <=> Three(s, l, s[1])) <=> \A x \in q + 3 .. j : x = j - 2 <=> x + 2 <= j /\ SignsAt(x, Char(q))
    BY <1>5, <1>6
<1>9. IsLong(s) <=> n > 5 /\ s[1] \in Quotes /\ Three(s, 1, s[1]) /\ \A l \in 4 .. n : l = n - 2 <=> Three(s, l, s[1])
    BY <1>2 DEF IsLong
<1>10. q + 5 <= j => q + 2 <= j
    OBVIOUS
<1>11. IsLong(s) <=> LongAt(q, j)
    BY <1>3, <1>4, <1>7, <1>8, <1>9, <1>10 DEF LongAt
<1> QED BY <1>1, <1>11

(* Behind a prefix and a quotation mark there are only literals. *)
LEMMA OnlyLiterals ==
    ASSUME text \in Texts, ~EscapedBackslash, NEW i \in Nat, i > 0, NEW q \in Nat, q >= i,
           Slice(i, q - 1) \in StringPrefixes, Char(q) \in Quotes, NEW j \in Nat, j >= q, AnyLexeme(Slice(i, j))
    PROVE  ShortAt(q, j) \/ LongAt(q, j)
<1>1. PICK n : n = q - i
    OBVIOUS
<1>2. n \in Nat /\ i + n = q /\ i + n - 1 = q - 1 /\ j >= i
    BY <1>1
<1>3. n <= 2 /\ \A k \in 0 .. n - 1 : Char(i + k) \in Prefix
    BY <1>2, PrefixChars
<1>4. Char(i) \in Prefix \cup Quotes
    <2>1. n = 0 => q = i
        BY <1>2
    <2>2. n > 0 => 0 \in 0 .. n - 1 /\ i + 0 = i
        BY <1>2
    <2> QED BY <1>2, <1>3, <2>1, <2>2
<1>5. ~IsWord(Slice(i, j))
    <2>1. PICK s : s = Slice(i, j)
        OBVIOUS
    <2>2. n + 1 \in 1 .. j - i + 1 /\ i + (n + 1) - 1 = q /\ j >= i - 1
        BY <1>2
    <2>3. s \in Seq(Symbols) /\ Len(s) = j - i + 1 /\ s[n + 1] = Char(q)
        BY <2>1, <2>2, SliceIs
    <2>4. Quotes \cap IdentLetters = {}
        BY DEF Quotes, IdentLetters, Letters, Dec
    <2>5. ~IsWord(s)
        BY <2>2, <2>3, <2>4, FirstOfWord
    <2> QED BY <2>1, <2>5
<1>6. PICK m \in 0 .. 2, kind \in {<<"BYTES">>, <<"STRING">>} : IsLiteralAt(i, j, m, kind)
    <2>1. (Prefix \cup Quotes) \cap (Once \cup {"!"} \cup Dec) = {}
        BY DEF Prefix, Quotes, Once, Dec
    <2> QED BY <1>2, <1>4, <1>5, <2>1, FirstTells
<1>7. m = n
    <2>1. m \in Nat /\ Slice(i, i + m - 1) \in StringPrefixes /\ Char(i + m) \in Quotes
        BY <1>6 DEF IsLiteralAt
    <2>2. Slice(i, i + n - 1) \in StringPrefixes /\ Char(i + n) \in Quotes
        BY <1>2
    <2> QED BY <1>2, <2>1, <2>2, PrefixIsOne
<1>8. IsShort(Slice(q, j)) \/ IsLong(Slice(q, j))
    BY <1>2, <1>6, <1>7 DEF IsLiteralAt
<1> QED BY <1>8, ShortIs, LongIs

(* A literal, and nothing longer *)
LEMMA LiteralToken ==
    ASSUME text \in Texts, ~EscapedBackslash, NEW i \in Nat, i > 0, NEW q \in Nat, q >= i,
           Slice(i, q - 1) \in StringPrefixes, Char(q) \in Quotes, NEW j \in Nat, j > q,
           \/ ShortAt(q, j) /\ ~(Char(q + 1) = Char(q) /\ Char(q + 2) = Char(q))
           \/ LongAt(q, j),
           NEW kind, kind = IF "b" \in Range(Slice(i, q - 1)) THEN <<"BYTES">> ELSE <<"STRING">>
    PROVE  /\ AnyLiteral(Slice(i, j)) /\ (Valueless(Slice(i, j)) \/ Lexeme(kind, Slice(i, j)))
           /\ \A l \in Nat : l > j => ~AnyLexeme(Slice(i, l))
<1>1. PICK n : n = q - i
    OBVIOUS
<1>2. n \in Nat /\ i + n = q /\ i + n - 1 = q - 1 /\ j >= i /\ i + n <= j
    BY <1>1
<1>3. n \in 0 .. 2
    <2>1. Slice(i, i + n - 1) \in StringPrefixes
        BY <1>2
    <2>2. n <= 2
        BY <1>2, <2>1, PrefixChars
    <2> QED BY <1>2, <2>2
<1>4. (kind = <<"BYTES">>) = ("b" \in Range(Slice(i, q - 1))) /\ kind \in {<<"STRING">>, <<"BYTES">>}
    <2>1. <<"BYTES">> # <<"STRING">>
        OBVIOUS
    <2> QED BY <2>1
<1>5. IsLiteral(Slice(i, j), kind)
    <2>1. IsShort(Slice(q, j)) \/ IsLong(Slice(q, j))
        BY ShortIs, LongIs
    <2>2. IsLiteralAt(i, j, n, kind)
        BY <1>2, <1>4, <2>1 DEF IsLiteralAt
    <2> QED BY <1>2, <1>3, <2>2, LiteralAt
<1>6. AnyLiteral(Slice(i, j)) /\ (Valueless(Slice(i, j)) \/ Lexeme(kind, Slice(i, j)))
    <2>1. kind # <<"NAME">> /\ kind # <<"INT">> /\ kind # <<"FLOAT">>
        BY <1>4
    <2> QED BY <1>4, <1>5, <2>1 DEF Lexeme, AnyLiteral
<1>7. ASSUME NEW l \in Nat, l > j, AnyLexeme(Slice(i, l)) PROVE FALSE
    <2>1. l >= q
        BY <1>7
    <2>2. ShortAt(q, l) \/ LongAt(q, l)
        BY <1>7, <2>1, OnlyLiterals
    <2>3. CASE ShortAt(q, j) /\ ~(Char(q + 1) = Char(q) /\ Char(q + 2) = Char(q))
        <3>1. j \in q + 1 .. j /\ j \in q + 1 .. l /\ j # l
            BY <1>7
        <3>2. ~LongAt(q, l)
            BY <2>3 DEF LongAt
        <3>3. Char(j) = Char(q) /\ Char(j - 1) # "\\"
            BY <2>3, <3>1 DEF ShortAt
        <3> QED BY <2>2, <3>1, <3>2, <3>3 DEF ShortAt
    <2>4. CASE LongAt(q, j)
        <3>1. q + 5 <= j
            BY <2>4 DEF LongAt
        <3>2. j - 2 \in q + 3 .. j /\ j - 2 \in q + 3 .. l /\ j - 2 # l - 2 /\ j - 2 + 2 <= l /\ q + 2 <= l
            BY <1>7, <3>1
        <3>3. SignsAt(j - 2, Char(q))
            BY <2>4, <3>2 DEF LongAt
        <3>4. ~LongAt(q, l)
            BY <3>2, <3>3 DEF LongAt
        <3>5. ~ShortAt(q, l)
            BY <2>4, <3>2 DEF LongAt, ShortAt
        <3> QED BY <2>2, <3>4, <3>5
    <2> QED BY <2>3, <2>4
<1> QED BY <1>6, <1>7

(* A line end in a short literal leaves no lexeme. *)
LEMMA LiteralRefused ==
    ASSUME text \in Texts, ~EscapedBackslash, NEW i \in Nat, i > 0, NEW q \in Nat, q >= i,
           Slice(i, q - 1) \in StringPrefixes, Char(q) \in Quotes, NEW x \in Nat, x > q, Char(x) \in {LF, CR},
           ~(Char(q + 1) = Char(q) /\ Char(q + 2) = Char(q)),
           \A k \in q + 1 .. x - 1 : ~(Char(k) = Char(q) /\ Char(k - 1) # "\\")
    PROVE  \A l \in Nat : l >= x - 1 => ~AnyLexeme(Slice(i, l))
<1> SUFFICES ASSUME NEW l \in Nat, l >= x - 1, AnyLexeme(Slice(i, l)) PROVE FALSE
    OBVIOUS
<1>1. l >= q /\ (l >= x => x \in q + 1 .. l) /\ (l < x /\ l >= q + 1 => l \in q + 1 .. l /\ l \in q + 1 .. x - 1)
    OBVIOUS
<1>2. ShortAt(q, l) /\ l >= q + 1
    <2>1. ShortAt(q, l) \/ LongAt(q, l)
        BY <1>1, OnlyLiterals
    <2> QED BY <2>1 DEF ShortAt, LongAt
<1>3. CASE l >= x
    BY <1>1, <1>2, <1>3 DEF ShortAt
<1>4. CASE l < x
    BY <1>1, <1>2, <1>4 DEF ShortAt
<1> QED BY <1>3, <1>4

(* What follows is about the slice from i to j. *)
IsSlice(s, n, i, j) ==
    /\ n \in Nat /\ n >= 1 /\ s \in Seq(Symbols) /\ Len(s) = n /\ s # <<>> /\ DOMAIN s = 1 .. n
    /\ s[1] = Char(i) /\ (j > i => s[2] = Char(i + 1))
    /\ \A x \in i .. j : x - i + 1 \in 1 .. n /\ s[x - i + 1] = Char(x)
    /\ \A k \in 1 .. n : i + k - 1 \in i .. j /\ s[k] = Char(i + k - 1)

(* The characters of a slice. *)
LEMMA SliceChars ==
    ASSUME text \in Texts, NEW i \in Nat, i > 0, NEW j \in Nat, j >= i,
           NEW s, s = Slice(i, j), NEW n, n = j - i + 1
    PROVE  IsSlice(s, n, i, j)
<1>2. n \in Nat /\ n >= 1 /\ s \in Seq(Symbols) /\ Len(s) = n /\ \A k \in 1 .. n : s[k] = Char(i + k - 1)
    <2>1. j >= i - 1 /\ n \in Nat /\ n >= 1
        OBVIOUS
    <2> QED BY <2>1, SliceIs
<1>3. DOMAIN s = 1 .. n /\ s # <<>>
    BY <1>2, LenProperties
<1>4. s[1] = Char(i)
    <2>1. 1 \in 1 .. n /\ i + 1 - 1 = i
        BY <1>2
    <2> QED BY <2>1, <1>2
<1>5. j > i => s[2] = Char(i + 1)
    <2>1. j > i => 2 \in 1 .. n /\ i + 2 - 1 = i + 1
        OBVIOUS
    <2> QED BY <2>1, <1>2
<1>6. \A x \in i .. j : x - i + 1 \in 1 .. n /\ i + (x - i + 1) - 1 = x
    OBVIOUS
<1>7. \A k \in 1 .. n : i + k - 1 \in i .. j
    OBVIOUS
<1> QED BY <1>2, <1>3, <1>4, <1>5, <1>6, <1>7 DEF IsSlice

(* Nothing but a number begins with a digit. *)
LEMMA OnlyNumbers ==
    ASSUME text \in Texts, NEW i \in Nat, i > 0, NEW j \in Nat, j >= i, Char(i) \in Dec, AnyLexeme(Slice(i, j))
    PROVE  IsInt(Slice(i, j)) \/ IsFloat(Slice(i, j))
<1>1. Dec \cap (Once \cup {"!"} \cup Letters \cup Prefix \cup Quotes) = {}
    BY DEF Dec, Once, Letters, Prefix, Quotes
<1> QED BY <1>1, FirstTells

(* What the characters of a number may be *)
LEMMA NumberChars ==
    ASSUME text \in Texts, NEW i \in Nat, i > 0, NEW j \in Nat, j >= i
    PROVE  /\ IsInt(Slice(i, j)) =>
                 \/ \A x \in i .. j : Char(x) \in Dec
                 \/ j > i + 1 /\ Char(i) = "0" /\ Char(i + 1) \in DOMAIN DigitsOf /\ \A x \in i + 2 .. j : Char(x) \in DigitsOf[Char(i + 1)]
           /\ IsFloat(Slice(i, j)) => \E p \in i + 1 .. j : Char(p) = "." /\ \A x \in i .. j : x # p => Char(x) \in Dec
<1>1. PICK s, n : s = Slice(i, j) /\ n = j - i + 1
    OBVIOUS
<1>2. /\ n \in Nat /\ n >= 1 /\ s \in Seq(Symbols) /\ Len(s) = n /\ DOMAIN s = 1 .. n
      /\ s[1] = Char(i) /\ (j > i => s[2] = Char(i + 1))
      /\ \A x \in i .. j : x - i + 1 \in 1 .. n /\ s[x - i + 1] = Char(x)
      /\ \A k \in 1 .. n : i + k - 1 \in i .. j /\ s[k] = Char(i + k - 1)
    <2>1. IsSlice(s, n, i, j)
        BY <1>1, SliceChars
    <2> QED BY <2>1 DEF IsSlice
<1>3. CASE s # <<>> /\ AllIn(s, Dec)
    <2>1. \A x \in i .. j : Char(x) \in Dec
        BY <1>2, <1>3 DEF AllIn
    <2>2. ~IsFloat(s)
        <3>1. "." \notin Dec
            BY DEF Dec
        <3> QED BY <1>3, <3>1 DEF IsFloat, AllIn
    <2> QED BY <1>1, <2>1, <2>2
<1>4. CASE /\ Len(s) > 2 /\ s[1] = "0" /\ s[2] \in DOMAIN DigitsOf
           /\ AllIn(SubSeq(s, 3, Len(s)), DigitsOf[s[2]])
    <2>1. j > i + 1 /\ Char(i) = "0" /\ Char(i + 1) = s[2]
        BY <1>1, <1>2, <1>4
    <2>2. PICK t : t = SubSeq(s, 3, n)
        OBVIOUS
    <2>3. DOMAIN t = 1 .. n - 2 /\ \A k \in 1 .. n - 2 : t[k] = s[k + 2]
        <3>1. Len(t) = n - 2 /\ t \in Seq(Symbols) /\ \A k \in 1 .. n - 2 : t[k] = s[k + 2]
            BY <1>2, <1>4, <2>2
        <3> QED BY <3>1, LenProperties
    <2>4. ASSUME NEW x \in i + 2 .. j PROVE Char(x) \in DigitsOf[Char(i + 1)]
        <3>1. x - i - 1 \in 1 .. n - 2 /\ (x - i - 1) + 2 = x - i + 1 /\ x \in i .. j
            BY <1>1
        <3>2. t[x - i - 1] \in DigitsOf[s[2]]
            BY <1>2, <1>4, <2>2, <2>3, <3>1 DEF AllIn
        <3>3. t[x - i - 1] = Char(x)
            BY <2>3, <3>1, <1>2
        <3> QED BY <2>1, <3>2, <3>3
    <2>5. ~IsFloat(s)
        <3>1. s[2] \notin Dec \cup {"."} /\ 2 \in DOMAIN s
            BY <1>2, <1>4, DigitsOfIs
        <3> QED BY <3>1 DEF IsFloat
    <2> QED BY <1>1, <2>1, <2>4, <2>5, <1>4
<1>5. CASE IsFloat(s) /\ ~IsInt(s)
    <2>1. PICK k \in DOMAIN s : k > 1 /\ s[k] = "." /\ \A h \in DOMAIN s \ {k} : s[h] \in Dec
        BY <1>5 DEF IsFloat
    <2>2. PICK p : p = i + k - 1
        OBVIOUS
    <2>3. k \in 1 .. n /\ p \in i + 1 .. j /\ Char(p) = "."
        BY <1>1, <1>2, <2>1, <2>2
    <2>4. ASSUME NEW x \in i .. j, x # p PROVE Char(x) \in Dec
        <3>1. x - i + 1 \in 1 .. n /\ x - i + 1 # k
            BY <1>1, <2>2, <2>3, <2>4
        <3> QED BY <1>2, <2>1, <3>1
    <2> QED BY <1>1, <1>5, <2>3, <2>4
<1>6. IsInt(s) <=> \/ s # <<>> /\ AllIn(s, Dec)
                   \/ /\ Len(s) > 2 /\ s[1] = "0" /\ s[2] \in DOMAIN DigitsOf
                      /\ AllIn(SubSeq(s, 3, Len(s)), DigitsOf[s[2]])
    BY DEF IsInt
<1> QED BY <1>1, <1>3, <1>4, <1>5, <1>6

(* Digits are an int. *)
LEMMA DecimalIs ==
    ASSUME text \in Texts, NEW i \in Nat, i > 0, NEW j \in Nat, j >= i, \A x \in i .. j : Char(x) \in Dec
    PROVE  IsInt(Slice(i, j))
<1>1. PICK s, n : s = Slice(i, j) /\ n = j - i + 1
    OBVIOUS
<1>2. DOMAIN s = 1 .. n /\ s # <<>> /\ \A k \in 1 .. n : i + k - 1 \in i .. j /\ s[k] = Char(i + k - 1)
    <2>1. IsSlice(s, n, i, j)
        BY <1>1, SliceChars
    <2> QED BY <2>1 DEF IsSlice
<1>3. s # <<>> /\ AllIn(s, Dec)
    BY <1>2 DEF AllIn
<1> QED BY <1>1, <1>3 DEF IsInt

(* A zero, a letter of a base and its digits are an int. *)
LEMMA BasedIs ==
    ASSUME text \in Texts, NEW i \in Nat, i > 0, NEW j \in Nat, j > i + 1,
           Char(i) = "0", Char(i + 1) \in DOMAIN DigitsOf, \A x \in i + 2 .. j : Char(x) \in DigitsOf[Char(i + 1)]
    PROVE  IsInt(Slice(i, j))
<1>1. PICK s, n : s = Slice(i, j) /\ n = j - i + 1
    OBVIOUS
<1>2. /\ n \in Nat /\ n > 2 /\ s \in Seq(Symbols) /\ Len(s) = n
      /\ s[1] = Char(i) /\ s[2] = Char(i + 1)
      /\ \A k \in 1 .. n : i + k - 1 \in i .. j /\ s[k] = Char(i + k - 1)
    <2>1. j >= i /\ j > i
        OBVIOUS
    <2>2. n > 2
        BY <1>1
    <2>3. IsSlice(s, n, i, j)
        BY <2>1, <1>1, SliceChars
    <2> QED BY <2>1, <2>2, <2>3 DEF IsSlice
<1>3. PICK t : t = SubSeq(s, 3, n)
    OBVIOUS
<1>4. DOMAIN t = 1 .. n - 2 /\ \A k \in 1 .. n - 2 : t[k] = s[k + 2]
    <2>1. Len(t) = n - 2 /\ t \in Seq(Symbols) /\ \A k \in 1 .. n - 2 : t[k] = s[k + 2]
        BY <1>2, <1>3
    <2> QED BY <2>1, LenProperties
<1>5. ASSUME NEW k \in 1 .. n - 2 PROVE t[k] \in DigitsOf[s[2]]
    <2>1. k + 2 \in 1 .. n /\ i + (k + 2) - 1 \in i + 2 .. j
        BY <1>1, <1>2
    <2>2. t[k] = Char(i + (k + 2) - 1)
        BY <2>1, <1>2, <1>4
    <2> QED BY <2>1, <2>2, <1>2
<1>6. AllIn(SubSeq(s, 3, Len(s)), DigitsOf[s[2]])
    BY <1>2, <1>3, <1>4, <1>5 DEF AllIn
<1> QED BY <1>1, <1>2, <1>6 DEF IsInt

(* Digits with a point between or behind them are a float. *)
LEMMA FloatIs ==
    ASSUME text \in Texts, NEW i \in Nat, i > 0, NEW j \in Nat, NEW p \in i + 1 .. j,
           Char(p) = ".", \A x \in i .. j : x # p => Char(x) \in Dec
    PROVE  IsFloat(Slice(i, j))
<1>1. PICK s, n, k : s = Slice(i, j) /\ n = j - i + 1 /\ k = p - i + 1
    OBVIOUS
<1>2. /\ DOMAIN s = 1 .. n /\ k \in 1 .. n /\ k > 1 /\ s[k] = "."
      /\ \A h \in 1 .. n : i + h - 1 \in i .. j /\ s[h] = Char(i + h - 1)
    <2>1. j >= i /\ k > 1 /\ p \in i .. j
        BY <1>1
    <2>2. IsSlice(s, n, i, j)
        BY <2>1, <1>1, SliceChars
    <2> QED BY <2>1, <2>2, <1>1 DEF IsSlice
<1>3. ASSUME NEW h \in DOMAIN s \ {k} PROVE s[h] \in Dec
    <2>1. h \in 1 .. n /\ h # k
        BY <1>2
    <2>2. i + h - 1 # p
        BY <1>1, <2>1
    <2> QED BY <2>1, <2>2, <1>2
<1>4. IsFloat(s)
    BY <1>2, <1>3 DEF IsFloat
<1> QED BY <1>1, <1>4

(* Numbers, and nothing longer *)
LEMMA DigitsLongest ==
    ASSUME text \in Texts, NEW i \in Nat, i > 0, NEW j \in Nat, j >= i, \A x \in i .. j : Char(x) \in Dec,
           Char(j + 1) \notin Dec \cup {"."}, j = i /\ Char(i) = "0" => Char(i + 1) \notin DOMAIN DigitsOf
    PROVE  \A l \in Nat : l > j => ~AnyLexeme(Slice(i, l))
<1> SUFFICES ASSUME NEW l \in Nat, l > j, AnyLexeme(Slice(i, l)) PROVE FALSE
    OBVIOUS
<1>1. i \in i .. j /\ l >= i /\ j + 1 \in i .. l /\ (j > i => i + 1 \in i .. j)
    OBVIOUS
<1>2. IsInt(Slice(i, l)) \/ IsFloat(Slice(i, l))
    BY <1>1, OnlyNumbers
<1>3. \/ \A x \in i .. l : Char(x) \in Dec
      \/ Char(i) = "0" /\ Char(i + 1) \in DOMAIN DigitsOf
      \/ \E p \in i + 1 .. l : Char(p) = "." /\ \A x \in i .. l : x # p => Char(x) \in Dec
    BY <1>1, <1>2, NumberChars
<1>4. CASE Char(i) = "0" /\ Char(i + 1) \in DOMAIN DigitsOf
    <2>1. j > i
        BY <1>4
    <2>2. Char(i + 1) \in Dec
        BY <1>1, <2>1
    <2> QED BY <1>4, <2>2, DigitsOfIs
<1> QED BY <1>1, <1>3, <1>4

(* Where the digits of a fraction end, so does every lexeme. *)
LEMMA FloatLongest ==
    ASSUME text \in Texts, NEW i \in Nat, i > 0, NEW j \in Nat, NEW p \in i + 1 .. j,
           Char(p) = ".", \A x \in i .. j : x # p => Char(x) \in Dec, Char(j + 1) \notin Dec
    PROVE  \A l \in Nat : l > j => ~AnyLexeme(Slice(i, l))
<1> SUFFICES ASSUME NEW l \in Nat, l > j, AnyLexeme(Slice(i, l)) PROVE FALSE
    OBVIOUS
<1>1. i \in i .. j /\ i # p /\ l >= i /\ j + 1 \in i .. l /\ p \in i .. l /\ i + 1 \in i .. j /\ p # j + 1
    OBVIOUS
<1>2. Char(i) \in Dec /\ Char(i + 1) \in Dec \cup {"."} /\ "." \notin Dec
    BY <1>1 DEF Dec
<1>3. IsInt(Slice(i, l)) \/ IsFloat(Slice(i, l))
    BY <1>1, <1>2, OnlyNumbers
<1>4. \/ \A x \in i .. l : Char(x) \in Dec
      \/ Char(i + 1) \in DOMAIN DigitsOf
      \/ \E h \in i + 1 .. l : Char(h) = "." /\ \A x \in i .. l : x # h => Char(x) \in Dec
    BY <1>1, <1>3, NumberChars
<1> QED BY <1>1, <1>2, <1>4, DigitsOfIs

(* Where the digits of a base end, so does every lexeme; without any there is none. *)
LEMMA BasedLongest ==
    ASSUME text \in Texts, NEW i \in Nat, i > 0, NEW j \in Nat, j > i,
           Char(i) = "0", Char(i + 1) \in DOMAIN DigitsOf, Char(j + 1) \notin DigitsOf[Char(i + 1)]
    PROVE  \A l \in Nat : l > j => ~AnyLexeme(Slice(i, l))
<1> SUFFICES ASSUME NEW l \in Nat, l > j, AnyLexeme(Slice(i, l)) PROVE FALSE
    OBVIOUS
<1>1. l >= i /\ j + 1 \in i + 2 .. l /\ i + 1 \in i .. l
    OBVIOUS
<1>2. "0" \in Dec /\ Char(i + 1) \notin Dec \cup {"."}
    BY DigitsOfIs DEF Dec
<1>3. IsInt(Slice(i, l)) \/ IsFloat(Slice(i, l))
    BY <1>1, <1>2, OnlyNumbers
<1>4. \/ \A x \in i .. l : Char(x) \in Dec
      \/ \A x \in i + 2 .. l : Char(x) \in DigitsOf[Char(i + 1)]
      \/ \E h \in i + 1 .. l : Char(h) = "." /\ \A x \in i .. l : x # h => Char(x) \in Dec
    BY <1>1, <1>3, NumberChars
<1> QED BY <1>1, <1>2, <1>4

(* The letter of a base alone ends no number. *)
LEMMA BaseAlone ==
    ASSUME text \in Texts, NEW i \in Nat, i > 0, Char(i) = "0", Char(i + 1) \in DOMAIN DigitsOf
    PROVE  ~AnyLexeme(Slice(i, i + 1))
<1> SUFFICES ASSUME AnyLexeme(Slice(i, i + 1)) PROVE FALSE
    OBVIOUS
<1>1. PICK j : j = i + 1
    OBVIOUS
<1>2. j \in Nat /\ j >= i /\ j \in i .. j /\ ~(j > i + 1)
    BY <1>1
<1>3. "0" \in Dec /\ Char(j) \notin Dec \cup {"."}
    BY <1>1, DigitsOfIs DEF Dec
<1>4. IsInt(Slice(i, j)) \/ IsFloat(Slice(i, j))
    BY <1>1, <1>2, <1>3, OnlyNumbers
<1>5. \/ \A x \in i .. j : Char(x) \in Dec
      \/ \E p \in i + 1 .. j : Char(p) = "." /\ \A x \in i .. j : x # p => Char(x) \in Dec
    BY <1>1, <1>2, <1>4, NumberChars
<1> QED BY <1>2, <1>3, <1>5

(* A word, and nothing longer *)
LEMMA WordIs ==
    ASSUME text \in Texts, NEW i \in Nat, i > 0, NEW j \in Nat, j >= i, Char(i) \in Letters,
           \A x \in i .. j : Char(x) \in IdentLetters
    PROVE  IsWord(Slice(i, j))
<1>1. PICK s, n : s = Slice(i, j) /\ n = j - i + 1
    OBVIOUS
<1>2. DOMAIN s = 1 .. n /\ s # <<>> /\ s[1] = Char(i) /\ \A k \in 1 .. n : i + k - 1 \in i .. j /\ s[k] = Char(i + k - 1)
    <2>1. IsSlice(s, n, i, j)
        BY <1>1, SliceChars
    <2> QED BY <2>1 DEF IsSlice
<1>3. IsWord(s)
    BY <1>2 DEF IsWord, AllIn
<1> QED BY <1>1, <1>3

(* Where the letters and digits of a word end, so does every lexeme. *)
LEMMA WordLongest ==
    ASSUME text \in Texts, NEW i \in Nat, i > 0, NEW j \in Nat, j >= i, Char(i) \in Letters,
           NoLiteral(i), Char(j + 1) \notin IdentLetters
    PROVE  \A l \in Nat : l > j => ~AnyLexeme(Slice(i, l))
<1> SUFFICES ASSUME NEW l \in Nat, l > j, AnyLexeme(Slice(i, l)) PROVE FALSE
    OBVIOUS
<1>1. l >= i /\ j + 1 \in i .. l
    OBVIOUS
<1>2. ~IsWord(Slice(i, l))
    <2>1. PICK s, n : s = Slice(i, l) /\ n = l - i + 1
        OBVIOUS
    <2>2. /\ s \in Seq(Symbols) /\ Len(s) = n
          /\ \A x \in i .. l : x - i + 1 \in 1 .. n /\ s[x - i + 1] = Char(x)
        <3>1. IsSlice(s, n, i, l)
            BY <1>1, <2>1, SliceChars
        <3> QED BY <3>1 DEF IsSlice
    <2>3. (j + 1) - i + 1 \in 1 .. n /\ s[(j + 1) - i + 1] = Char(j + 1)
        BY <1>1, <2>2
    <2> QED BY <2>1, <2>2, <2>3, FirstOfWord
<1>3. ASSUME NEW m \in 0 .. 2, NEW kind, IsLiteralAt(i, l, m, kind) PROVE FALSE
    <2>1. PICK p : p = Slice(i, i + m - 1)
        OBVIOUS
    <2>2. i + m - 1 \in Nat /\ i + m - 1 >= i - 1 /\ (i + m - 1) - i + 1 = m
        OBVIOUS
    <2>3. Len(p) = m
        BY <2>1, <2>2, SliceIs
    <2> QED BY <1>3, <2>1, <2>3 DEF IsLiteralAt, NoLiteral
<1>4. Letters \cap (Once \cup {"!"} \cup Dec) = {}
    BY DEF Letters, Once, Dec
<1> QED BY <1>1, <1>2, <1>3, <1>4, FirstTells

-----------------------------------------------------------------------------
(* The tokens handed out *)
(* The tokens, as a sequence *)
Handed == out \in Seq(Range(out))

(* One token more. *)
LEMMA OutGrows ==
    ASSUME Handed, NEW e, out' = Append(out, e)
    PROVE  /\ Handed' /\ Len(out) \in Nat /\ Len(out') = Len(out) + 1 /\ out'[Len(out) + 1] = e
           /\ \A k \in 1 .. Len(out) : out'[k] = out[k]
           /\ DOMAIN out = 1 .. Len(out) /\ DOMAIN out' = 1 .. Len(out) + 1
<1>1. PICK S, s, t, n : S = Range(out) \cup {e} /\ s = out /\ t = out' /\ n = Len(out)
    OBVIOUS
<1>2. s \in Seq(S)
    <2>1. Range(out) \subseteq S
        BY <1>1
    <2>2. s \in Seq(Range(out))
        BY <1>1 DEF Handed
    <2> QED BY <2>1, <2>2, SeqMonotonic
<1>3. n \in Nat /\ t \in Seq(S) /\ Len(t) = n + 1 /\ t[n + 1] = e /\ \A k \in 1 .. n : t[k] = s[k]
    <2>1. e \in S /\ t = Append(s, e) /\ n = Len(s)
        BY <1>1
    <2> QED BY <1>2, <2>1, AppendProperties
<1>4. DOMAIN s = 1 .. n /\ DOMAIN t = 1 .. n + 1
    BY <1>1, <1>2, <1>3, LenProperties
<1>5. t \in Seq(Range(t))
    <2>1. t \in [1 .. n + 1 -> S]
        BY <1>3, LenProperties
    <2>2. t \in [1 .. n + 1 -> Range(t)]
        BY <2>1 DEF Range
    <2>3. n + 1 \in Nat
        BY <1>3
    <2> QED BY <2>2, <2>3, SeqDef
<1> QED BY <1>1, <1>3, <1>4, <1>5 DEF Handed

(* The tokens have a number. *)
LEMMA OutIs ==
    ASSUME Handed
    PROVE  Len(out) \in Nat /\ DOMAIN out = 1 .. Len(out)
BY LenProperties DEF Handed

(* The last word is the one before the next token. *)
LEMMA BeforeIs ==
    ASSUME Handed, NEW b, LastWord(b)
    PROVE  Before(Len(out) + 1) = b
<1>1. PICK n : n = Len(out)
    OBVIOUS
<1>2. n \in Nat /\ n + 1 - 1 = n
    BY <1>1, OutIs
<1>3. PICK ks : ks = {k \in 1 .. n : ~IsLayout(k)}
    OBVIOUS
<1>4. Before(n + 1) = IF ks = {} THEN 0 ELSE CHOOSE k \in ks : \A l \in ks : l <= k
    BY <1>2, <1>3 DEF Before
<1>5. b \in 0 .. n /\ (b # 0 => ~IsLayout(b)) /\ \A k \in b + 1 .. n : IsLayout(k)
    BY <1>1 DEF LastWord
<1>6. CASE b = 0
    <2>1. ks = {}
        BY <1>3, <1>5, <1>6
    <2> QED BY <1>1, <1>4, <1>6, <2>1
<1>7. CASE b # 0
    <2>1. b \in ks /\ \A l \in ks : l <= b
        BY <1>2, <1>3, <1>5, <1>7
    <2>2. \A k \in ks : (\A l \in ks : l <= k) => k = b
        <3>1. \A k \in ks : k \in Nat
            BY <1>3
        <3> QED BY <2>1, <3>1
    <2>3. (CHOOSE k \in ks : \A l \in ks : l <= k) = b
        BY <2>1, <2>2
    <2> QED BY <1>1, <1>4, <2>1, <2>3
<1> QED BY <1>6, <1>7

(* A token: what is said of it *)
Layout(e) == e.tok \in LayoutTokens

(* Tokens of the layout change nothing that is said of the words. *)
WordsKept(b) ==
    /\ Handed' /\ LastWord(b)' /\ After(b)' = After(b)
    /\ \A k \in 1 .. Len(out') : ~IsLayout(k)' =>
          out'[k].from \in Nat /\ out'[k].from > 0 /\ out'[k].to \in Nat /\ out'[k].to < After(b)
    /\ OpenBrackets(b)' = OpenBrackets(b)
    /\ \A j : InToken(j)' <=> InToken(j)

(* No new token: nothing changes that is said of the words. *)
LEMMA SameWords ==
    ASSUME Handed, NEW b \in Nat, Placed(b), out' = out
    PROVE  WordsKept(b) /\ (NewlineSince(b)' <=> NewlineSince(b))
<1>1. Handed' /\ LastWord(b)' /\ After(b)' = After(b) /\ (NewlineSince(b)' <=> NewlineSince(b)) /\ LastWord(b)
    BY DEF Placed, LastWord, After, Handed, IsLayout, NewlineSince
<1>2. OpenBrackets(b)' = OpenBrackets(b)
    BY DEF OpenBrackets, Count
<1>3. \A j : InToken(j)' <=> InToken(j)
    BY DEF InToken, IsLayout
<1>4. \A k : IsLayout(k)' <=> IsLayout(k)
    BY DEF IsLayout
<1>5. \A k \in 1 .. Len(out) : ~IsLayout(k) =>
          out[k].from \in Nat /\ out[k].from > 0 /\ out[k].to \in Nat /\ out[k].to < After(b)
    BY DEF Placed
<1> QED BY <1>1, <1>2, <1>3, <1>4, <1>5 DEF WordsKept

(* Nor does it when a token of the layout is new. *)
LEMMA MoreLayout ==
    ASSUME Handed, NEW b \in Nat, Placed(b), NEW e, Layout(e), out' = Append(out, e)
    PROVE  WordsKept(b) /\ (b # 0 => (NewlineSince(b)' <=> NewlineSince(b) \/ e.tok = <<"NEWLINE">>))
<1>1. PICK n : n = Len(out)
    OBVIOUS
<1>2. /\ Handed' /\ n \in Nat /\ Len(out') = n + 1 /\ out'[n + 1] = e
      /\ DOMAIN out = 1 .. n /\ DOMAIN out' = 1 .. n + 1
      /\ \A k \in 1 .. n : out'[k] = out[k]
    BY <1>1, OutGrows
<1>3. /\ \A k \in 1 .. n : IsLayout(k)' <=> IsLayout(k)
      /\ IsLayout(n + 1)'
    BY <1>2 DEF IsLayout, Layout
<1>4. b \in 0 .. n /\ (b # 0 => ~IsLayout(b)) /\ \A k \in b + 1 .. n : IsLayout(k)
    BY <1>1 DEF Placed, LastWord
<1>5. LastWord(b)'
    <2>1. b \in 0 .. n + 1 /\ (b # 0 => b \in 1 .. n) /\ \A k \in b + 1 .. n + 1 : (k \in b + 1 .. n /\ k \in 1 .. n) \/ k = n + 1
        BY <1>2, <1>4
    <2> QED BY <1>2, <1>3, <1>4, <2>1 DEF LastWord
<1>6. After(b)' = After(b)
    <2>1. b # 0 => b \in 1 .. n
        BY <1>4
    <2> QED BY <2>1, <1>2 DEF After
<1>7. ASSUME NEW tok PROVE Count(tok, b)' = Count(tok, b)
    <2>1. \A i \in 1 .. b : i \in 1 .. n
        BY <1>2, <1>4
    <2>2. {i \in 1 .. b : out'[i].tok = tok} = {i \in 1 .. b : out[i].tok = tok}
        BY <2>1, <1>2
    <2> QED BY <2>2 DEF Count
<1>8. OpenBrackets(b)' = OpenBrackets(b)
    BY <1>7 DEF OpenBrackets
<1>9. \A j : InToken(j)' <=> InToken(j)
    <2>1. \A k \in 1 .. n + 1 : k \in 1 .. n \/ k = n + 1
        BY <1>2
    <2>2. \A k \in 1 .. n : k \in 1 .. n + 1
        BY <1>2
    <2> QED BY <1>2, <1>3, <2>1, <2>2 DEF InToken
<1>10. ASSUME NEW k \in 1 .. n + 1, ~IsLayout(k)'
       PROVE  out'[k].from \in Nat /\ out'[k].from > 0 /\ out'[k].to \in Nat /\ out'[k].to < After(b)
    <2>1. k \in 1 .. n
        BY <1>2, <1>3, <1>10
    <2> QED BY <2>1, <1>1, <1>2, <1>3, <1>10 DEF Placed
<1>11. b # 0 => (NewlineSince(b)' <=> NewlineSince(b) \/ e.tok = <<"NEWLINE">>)
    <2> SUFFICES ASSUME b # 0
                 PROVE  NewlineSince(b)' <=> NewlineSince(b) \/ e.tok = <<"NEWLINE">>
        OBVIOUS
    <2>1. /\ \A k \in b .. n + 1 : k \in b .. n \/ k = n + 1
          /\ n + 1 \in b .. n + 1 /\ \A k \in b .. n : k \in b .. n + 1 /\ k \in 1 .. n
        BY <1>2, <1>4
    <2> QED BY <2>1, <1>1, <1>2 DEF NewlineSince
<1> QED BY <1>2, <1>5, <1>6, <1>8, <1>9, <1>10, <1>11 DEF WordsKept

Tally(o, T, b) == Cardinality({k \in 1 .. b : o[k].tok = T})

(* One token more is counted. *)
LEMMA CountGrows ==
    ASSUME NEW n \in Nat, NEW b \in 0 .. n, NEW T, T \notin LayoutTokens, NEW o,
           \A k \in b + 1 .. n : o[k].tok \in LayoutTokens,
           NEW m, m = Tally(o, T, b), NEW l, l = Tally(o, T, n + 1)
    PROVE  m \in Nat /\ l = m + (IF o[n + 1].tok = T THEN 1 ELSE 0)
<1>1. PICK S : S = {k \in 1 .. b : o[k].tok = T}
    OBVIOUS
<1>2. IsFiniteSet(S) /\ m \in Nat
    <2>1. IsFiniteSet(1 .. b) /\ S \subseteq 1 .. b
        BY <1>1, FS_Interval
    <2>2. IsFiniteSet(S)
        BY <2>1, FS_Subset
    <2> QED BY <2>2, <1>1, FS_CardinalityType DEF Tally
<1>3. n + 1 \notin S
    BY <1>1
<1>4. \A k \in 1 .. n + 1 : k \in 1 .. b \/ k \in b + 1 .. n \/ k = n + 1
    OBVIOUS
<1>5. \A k \in 1 .. b : k \in 1 .. n + 1
    OBVIOUS
<1>6. n + 1 \in 1 .. n + 1
    OBVIOUS
<1>7. CASE o[n + 1].tok = T
    <2>1. {k \in 1 .. n + 1 : o[k].tok = T} = S \cup {n + 1}
        BY <1>1, <1>4, <1>5, <1>6, <1>7
    <2> QED BY <2>1, <1>1, <1>2, <1>3, <1>7, FS_AddElement DEF Tally
<1>8. CASE o[n + 1].tok # T
    <2>1. {k \in 1 .. n + 1 : o[k].tok = T} = S
        BY <1>1, <1>4, <1>5, <1>8
    <2>2. l = m
        BY <2>1, <1>1 DEF Tally
    <2> QED BY <2>2, <1>2, <1>8
<1> QED BY <1>7, <1>8

(* How the open brackets change with a token *)
Opening(tok) == IF tok = <<"(">> THEN 1 ELSE IF tok = <<")">> THEN -1 ELSE 0

(* A word that is handed out, from f to t *)
Word(f, t, tok, line) ==
    /\ text' = text /\ out' = Append(out, [tok |-> tok, from |-> f, to |-> t, line |-> line])
    /\ mode' = "between" /\ current_indent' # -1 /\ At(in)' = t + 1
    /\ tok \notin LayoutTokens /\ inside_couples' = inside_couples + Opening(tok)
    /\ mode \in Literals \/ in.ch # EOF
    /\ Lexeme(tok, Slice(f, t)) /\ \A l \in Nat : l > t => ~AnyLexeme(Slice(f, l))

(* What is known of the word before it *)
LEMMA WordIssued ==
    ASSUME text \in Texts, Handed, NEW b \in Nat, Placed(b), NEW f \in Nat, f > 0, Edge = f,
           NEW t \in Nat, t >= f, NEW tok, NEW line, Word(f, t, tok, line), NEW n, n = Len(out)
    PROVE  /\ n \in Nat /\ Handed' /\ Len(out)' = n + 1 /\ b \in 0 .. n
           /\ \A k \in 1 .. n : out'[k] = out[k] /\ (IsLayout(k)' <=> IsLayout(k))
           /\ out'[n + 1].tok = tok /\ out'[n + 1].from = f /\ out'[n + 1].to = t /\ ~IsLayout(n + 1)'
           /\ DOMAIN out = 1 .. n /\ DOMAIN out' = 1 .. n + 1
<1>1. PICK e : e = [tok |-> tok, from |-> f, to |-> t, line |-> line]
    OBVIOUS
<1>2. e.tok = tok /\ e.from = f /\ e.to = t /\ out' = Append(out, e)
    BY <1>1 DEF Word
<1>3. /\ Handed' /\ n \in Nat /\ Len(out') = n + 1 /\ out'[n + 1] = e
      /\ \A k \in 1 .. n : out'[k] = out[k]
      /\ DOMAIN out = 1 .. n /\ DOMAIN out' = 1 .. n + 1
    BY <1>2, OutGrows
<1>4. tok \notin LayoutTokens
    BY DEF Word
<1> QED BY <1>2, <1>3, <1>4 DEF IsLayout, Placed, LastWord

(* The brackets open behind a new token. *)
LEMMA BracketsCounted ==
    ASSUME text \in Texts, Handed, NEW b \in Nat, Placed(b), NEW f \in Nat, f > 0, Edge = f,
           NEW t \in Nat, t >= f, NEW tok, NEW line, Word(f, t, tok, line), NEW n, n = Len(out)
    PROVE  /\ OpenBrackets(b)' = OpenBrackets(b)
           /\ OpenBrackets(n + 1)' = OpenBrackets(b) + Opening(tok)
<1>1. PICK o : o = out'
    OBVIOUS
<1>2. /\ n \in Nat /\ b \in 0 .. n
      /\ \A k \in 1 .. n : o[k] = out[k] /\ (IsLayout(k)' <=> IsLayout(k))
      /\ o[n + 1].tok = tok
    BY <1>1, WordIssued
<1>3. \A k \in b + 1 .. n : o[k].tok \in LayoutTokens
    <2>1. \A k \in b + 1 .. n : k \in 1 .. n
        BY <1>2
    <2>2. \A k \in b + 1 .. n : IsLayout(k)
        BY DEF Placed, LastWord
    <2> QED BY <2>1, <2>2, <1>2 DEF IsLayout
<1>4. ASSUME NEW T, T \notin LayoutTokens
      PROVE  /\ Count(T, b)' = Count(T, b) /\ Count(T, b) \in Nat
             /\ Count(T, n + 1)' = Count(T, b) + IF tok = T THEN 1 ELSE 0
    <2>1. \A k \in 1 .. b : k \in 1 .. n
        BY <1>2
    <2>2. {k \in 1 .. b : o[k].tok = T} = {k \in 1 .. b : out[k].tok = T}
        BY <2>1, <1>2
    <2>3. Count(T, b)' = Count(T, b)
        BY <2>2, <1>1 DEF Count
    <2>4. PICK m, l : m = Tally(o, T, b) /\ l = Tally(o, T, n + 1)
        OBVIOUS
    <2>5. m \in Nat /\ l = m + (IF o[n + 1].tok = T THEN 1 ELSE 0)
        BY <2>4, <1>2, <1>3, <1>4, CountGrows
    <2>6. m = Count(T, b)' /\ l = Count(T, n + 1)'
        BY <2>4, <1>1 DEF Count, Tally
    <2> QED BY <2>3, <2>5, <2>6, <1>2
<1>5. <<"(">> \notin LayoutTokens /\ <<")">> \notin LayoutTokens /\ <<"(">> # <<")">>
    BY DEF LayoutTokens
<1>6. PICK x, y : x = Count(<<"(">>, b) /\ y = Count(<<")">>, b)
    OBVIOUS
<1>7. x \in Nat /\ y \in Nat /\ Count(<<"(">>, b)' = x /\ Count(<<")">>, b)' = y
      /\ Count(<<"(">>, n + 1)' = x + (IF tok = <<"(">> THEN 1 ELSE 0)
      /\ Count(<<")">>, n + 1)' = y + (IF tok = <<")">> THEN 1 ELSE 0)
    BY <1>4, <1>5, <1>6
<1>8. OpenBrackets(b) = x - y /\ OpenBrackets(b)' = x - y
    BY <1>6, <1>7 DEF OpenBrackets
<1>9. OpenBrackets(n + 1)' = (x + (IF tok = <<"(">> THEN 1 ELSE 0)) - (y + (IF tok = <<")">> THEN 1 ELSE 0))
    BY <1>7 DEF OpenBrackets
<1>10. (x + (IF tok = <<"(">> THEN 1 ELSE 0)) - (y + (IF tok = <<")">> THEN 1 ELSE 0)) = x - y + Opening(tok)
    BY <1>5, <1>7 DEF Opening
<1> QED BY <1>1, <1>8, <1>9, <1>10

(* A word that is handed out is placed behind the one before it. *)
LEMMA WordPlaced ==
    ASSUME text \in Texts, Handed, NEW b \in Nat, Placed(b), NEW f \in Nat, f > 0, Edge = f,
           NEW t \in Nat, t >= f, NEW tok, NEW line, Word(f, t, tok, line), NEW n, n = Len(out)
    PROVE  Placed(n + 1)'
<1>1. /\ n \in Nat /\ Handed' /\ Len(out)' = n + 1 /\ b \in 0 .. n
      /\ \A k \in 1 .. n : out'[k] = out[k] /\ (IsLayout(k)' <=> IsLayout(k))
      /\ out'[n + 1].tok = tok /\ out'[n + 1].from = f /\ out'[n + 1].to = t /\ ~IsLayout(n + 1)'
    BY WordIssued
<1>2. mode' = "between" /\ current_indent' # -1 /\ At(in)' = t + 1 /\ tok \notin LayoutTokens /\ text' = text
      /\ inside_couples' = inside_couples + Opening(tok)
    BY DEF Word
<1>3. Edge' = t + 1 /\ ~BetweenLines'
    BY <1>2 DEF Edge, BetweenLines, Literals
<1>4. n + 1 # 0 /\ n + 1 \in 0 .. n + 1 /\ \A k \in (n + 1) + 1 .. n + 1 : FALSE
    BY <1>1
<1>5. LastWord(n + 1)'
    BY <1>1, <1>4 DEF LastWord
<1>6. After(n + 1)' = t + 1 /\ t + 1 \in 1 .. t + 1
    BY <1>1, <1>4 DEF After
<1>7. ASSUME NEW k \in 1 .. n + 1, ~IsLayout(k)'
      PROVE  out'[k].from \in Nat /\ out'[k].from > 0 /\ out'[k].to \in Nat /\ out'[k].to < t + 1
    <2>1. CASE k = n + 1
        <3>1. t < t + 1
            OBVIOUS
        <3> QED BY <2>1, <3>1, <1>1
    <2>2. CASE k # n + 1
        <3>1. k \in 1 .. n
            BY <2>2, <1>1
        <3>2. out[k].from \in Nat /\ out[k].from > 0 /\ out[k].to \in Nat /\ out[k].to < After(b) /\ out'[k] = out[k]
            BY <3>1, <1>1, <1>7 DEF Placed
        <3>3. After(b) \in 1 .. f
            BY DEF Placed
        <3>4. out[k].to < t + 1
            BY <3>2, <3>3
        <3> QED BY <3>2, <3>4
    <2> QED BY <2>1, <2>2
<1>8. \A k \in t + 1 .. (t + 1) - 1 : FALSE
    OBVIOUS
<1>9. Gap(After(n + 1), Edge - 1)'
    BY <1>3, <1>6, <1>8 DEF Gap
<1>10. inside_couples' = OpenBrackets(n + 1)'
    BY <1>2, BracketsCounted DEF Placed
<1>11. Lined(n + 1)'
    <2>1. ~HasLineEnd(After(n + 1), Edge - 1)'
        BY <1>3, <1>6, <1>8 DEF HasLineEnd
    <2>2. ~NewlineSince(n + 1)'
        <3>1. \A k \in n + 1 .. n + 1 : k = n + 1
            BY <1>1
        <3>2. tok # <<"NEWLINE">>
            BY <1>2 DEF LayoutTokens
        <3> QED BY <3>1, <3>2, <1>1 DEF NewlineSince
    <2> QED BY <2>1, <2>2, <1>2, <1>3 DEF Lined, Literals
<1> QED BY <1>1, <1>2, <1>3, <1>5, <1>6, <1>7, <1>9, <1>10, <1>11 DEF Placed

(* And it is what it has to be. *)
LEMMA WordRight ==
    ASSUME text \in Texts, Handed, NEW b \in Nat, Placed(b), NEW f \in Nat, f > 0, Edge = f,
           NEW t \in Nat, t >= f, NEW tok, NEW line, Word(f, t, tok, line)
    PROVE  LastIsRight'
<1>0. PICK n : n = Len(out)
    OBVIOUS
<1>1. /\ n \in Nat /\ Handed' /\ Len(out)' = n + 1 /\ b \in 0 .. n
      /\ \A k \in 1 .. n : out'[k] = out[k] /\ (IsLayout(k)' <=> IsLayout(k))
      /\ out'[n + 1].tok = tok /\ out'[n + 1].from = f /\ out'[n + 1].to = t /\ ~IsLayout(n + 1)'
      /\ DOMAIN out = 1 .. n /\ DOMAIN out' = 1 .. n + 1
    BY <1>0, WordIssued
<1>2. tok \notin LayoutTokens /\ text' = text /\ Lexeme(tok, Slice(f, t)) /\ (mode \in Literals \/ in.ch # EOF)
      /\ \A l \in Nat : l > t => ~AnyLexeme(Slice(f, l))
    BY DEF Word
<1>3. /\ b \in 0 .. n /\ (b # 0 => ~IsLayout(b)) /\ \A k \in b + 1 .. n : IsLayout(k)
    BY <1>0 DEF Placed, LastWord
<1>4. Before(n + 1)' = b
    <2>1. Before(n + 1) = b
        BY <1>0, BeforeIs DEF Placed
    <2>2. n + 1 - 1 = n
        BY <1>1
    <2>3. PICK ks : ks = {k \in 1 .. (n + 1) - 1 : ~IsLayout(k)}
        OBVIOUS
    <2>4. ks = {k \in 1 .. (n + 1) - 1 : ~IsLayout(k)'}
        BY <2>2, <2>3, <1>1
    <2>5. Before(n + 1) = IF ks = {} THEN 0 ELSE CHOOSE k \in ks : \A l \in ks : l <= k
        BY <2>3 DEF Before
    <2>6. Before(n + 1)' = IF ks = {} THEN 0 ELSE CHOOSE k \in ks : \A l \in ks : l <= k
        BY <2>4 DEF Before
    <2> QED BY <2>1, <2>5, <2>6
<1>5. PICK a : a = After(b)
    OBVIOUS
<1>6. a \in 1 .. f /\ a = (IF b = 0 THEN 1 ELSE out'[b].to + 1)
    <2>1. b # 0 => b \in 1 .. n
        BY <1>1
    <2> QED BY <2>1, <1>1, <1>5 DEF Placed, After
<1>7. Gap(a, f - 1)'
    <2> SUFFICES ASSUME NEW k \in a .. f - 1, text[k] \notin Blanks \cup {LF, CR}
                 PROVE  InComment(k)'
        BY <1>2 DEF Gap
    <2>1. InComment(k)
        BY <1>5 DEF Placed, Gap
    <2>2. PICK j \in 1 .. k : text[j] = "#" /\ ~InToken(j) /\ \A l \in j .. k : text[l] \notin {LF, CR}
        BY <2>1 DEF InComment
    <2>3. j < f
        BY <1>6, <2>2
    <2>4. ~InToken(j)'
        <3> SUFFICES ASSUME NEW l \in 1 .. n + 1, ~IsLayout(l)', j \in out'[l].from .. out'[l].to
                     PROVE  FALSE
            BY <1>1 DEF InToken
        <3>1. CASE l = n + 1
            <4>1. j \in f .. t
                BY <3>1, <1>1
            <4> QED BY <4>1, <2>3
        <3>2. CASE l # n + 1
            <4>1. l \in 1 .. n
                BY <3>2, <1>1
            <4> QED BY <4>1, <2>2, <1>1 DEF InToken
        <3> QED BY <3>1, <3>2
    <2> QED BY <2>2, <2>4, <1>2 DEF InComment
<1>8. b # 0 => ((\E k \in b .. n + 1 : out'[k].tok = <<"NEWLINE">>)
                   <=> (HasLineEnd(a, f - 1) /\ OpenBrackets(b) <= 0))
    <2> SUFFICES ASSUME b # 0
                 PROVE  (\E k \in b .. n + 1 : out'[k].tok = <<"NEWLINE">>)
                            <=> (HasLineEnd(a, f - 1) /\ OpenBrackets(b) <= 0)
        OBVIOUS
    <2>1. NewlineSince(b) <=> HasLineEnd(a, f - 1) /\ OpenBrackets(b) <= 0
        BY <1>2, <1>5 DEF Placed, Lined
    <2>2. (\E k \in b .. n + 1 : out'[k].tok = <<"NEWLINE">>) <=> NewlineSince(b)
        <3>1. \A k \in b .. n + 1 : k \in b .. n \/ k = n + 1
            BY <1>1
        <3>2. \A k \in b .. n : k \in b .. n + 1 /\ k \in 1 .. n
            BY <1>1
        <3>3. tok # <<"NEWLINE">>
            BY <1>2 DEF LayoutTokens
        <3> QED BY <3>1, <3>2, <3>3, <1>0, <1>1 DEF NewlineSince
    <2> QED BY <2>1, <2>2
<1>9. OpenBrackets(b)' = OpenBrackets(b)
    BY <1>0, BracketsCounted
<1>10. HasLineEnd(a, f - 1)' <=> HasLineEnd(a, f - 1)
    BY <1>2 DEF HasLineEnd
<1>11. Lexeme(tok, Slice(f, t))' /\ \A j \in t + 1 .. Len(text) : ~AnyLexeme(Slice(f, j))'
    <2>1. \A j : Slice(f, j)' = Slice(f, j)
        BY <1>2 DEF Slice, Char
    <2>2. \A s : (Lexeme(tok, s)' <=> Lexeme(tok, s)) /\ (AnyLexeme(s)' <=> AnyLexeme(s))
        BY DEF Lexeme, Valueless, IsRaw, BadEscape, AnyLexeme, AnyLiteral
    <2>3. Len(text) \in Nat /\ \A j \in t + 1 .. Len(text) : j \in Nat /\ j > t
        BY CharIs
    <2>4. (Lexeme(tok, Slice(f, t))' <=> Lexeme(tok, Slice(f, t))')
        OBVIOUS
    <2> QED BY <2>1, <2>2, <2>3, <1>2
<1> QED BY <1>1, <1>2, <1>4, <1>6, <1>7, <1>8, <1>9, <1>10, <1>11 DEF LastIsRight

-----------------------------------------------------------------------------
(* Behind the last token *)
(* No word comes behind the last one. *)
LEMMA BehindWords ==
    ASSUME Handed, NEW b, Placed(b), NEW j \in Nat, j >= After(b)
    PROVE  ~InToken(j)
<1> SUFFICES ASSUME NEW k \in DOMAIN out, ~IsLayout(k), j \in out[k].from .. out[k].to
             PROVE  FALSE
    BY DEF InToken
<1>1. k \in 1 .. Len(out)
    BY OutIs
<1>2. out[k].from \in Nat /\ out[k].to \in Nat /\ out[k].to < After(b)
    BY <1>1 DEF Placed
<1>3. After(b) \in Int
    BY DEF Placed
<1> QED BY <1>2, <1>3

(* Space: blanks, line ends, and what is in a comment *)
Space(b, a, z) == \A k \in a .. z - 1 :
    \/ text[k] \in Blanks \cup {LF, CR, "#"}
    \/ CommentOpen(b) /\ k = a /\ text[k] \notin {LF, CR}

(* A gap grows by blanks, line ends and the characters of a comment. *)
LEMMA GapGrows ==
    ASSUME text' = text, Handed, NEW b, Placed(b), WordsKept(b),
           NEW a \in Nat, Edge = a, NEW z \in Nat, Edge' = z, z >= a, Space(b, a, z)
    PROVE  Gap(After(b), Edge - 1)' /\ After(b)' \in 1 .. z
<1>1. PICK f : f = After(b)
    OBVIOUS
<1>2. f \in 1 .. a /\ After(b)' = f /\ f \in 1 .. z
    BY <1>1 DEF Placed, WordsKept
<1>3. \A k : InComment(k)' <=> InComment(k)
    BY DEF WordsKept, InComment
<1>4. ASSUME NEW k \in f .. z - 1, text[k] \notin Blanks \cup {LF, CR}
      PROVE  InComment(k)
    <2>1. CASE k < a
        <3>1. k \in f .. a - 1
            BY <2>1, <1>2
        <3> QED BY <3>1, <1>1, <1>4 DEF Placed, Gap
    <2>2. CASE k >= a
        <3>1. k \in a .. z - 1 /\ k \in Nat /\ k >= f
            BY <2>2, <1>2
        <3>2. ~InToken(k)
            BY <3>1, <1>1, BehindWords
        <3>3. CASE text[k] = "#"
            <4>1. k \in 1 .. k /\ \A l \in k .. k : l = k
                BY <3>1, <1>2
            <4> QED BY <4>1, <3>2, <3>3, <1>4 DEF InComment
        <3>4. CASE text[k] # "#"
            <4>1. CommentOpen(b) /\ k = a /\ text[k] \notin {LF, CR}
                BY <3>1, <3>4, <1>4 DEF Space
            <4>2. PICK j \in f .. a - 1 : text[j] = "#" /\ \A l \in j .. a - 1 : text[l] \notin {LF, CR}
                BY <4>1, <1>1 DEF CommentOpen
            <4>3. j \in 1 .. k /\ j \in Nat /\ j >= f /\ \A l \in j .. k : l \in j .. a - 1 \/ l = k
                BY <4>1, <4>2, <1>2
            <4>4. ~InToken(j)
                BY <4>3, <1>1, BehindWords
            <4> QED BY <4>1, <4>2, <4>3, <4>4 DEF InComment
        <3> QED BY <3>3, <3>4
    <2> QED BY <2>1, <2>2, <1>2
<1> QED BY <1>2, <1>3, <1>4 DEF Gap

(* A step that hands out no word and reads no line end *)
Quiet(b, a, z) ==
    /\ text' = text /\ inside_couples' = inside_couples /\ Edge = a /\ Edge' = z /\ z >= a
    /\ \A k \in a .. z - 1 : text[k] \notin {LF, CR} /\ (text[k] \in Blanks \cup {"#"} \/ (CommentOpen(b) /\ k = a))
    /\ mode' \in {"comment", "indent_comment"} => z = a + 1 /\ (text[a] = "#" \/ CommentOpen(b))
    /\ b # 0 /\ (mode' \in Literals \/ in'.ch # EOF) => mode \in Literals \/ in.ch # EOF
    /\ mode' \in {"indent", "indent_comment"} => mode \in {"indent", "indent_comment"} \/ BetweenLines
    /\ ~BetweenLines'

(* A comment goes on to the end of its line. *)
LEMMA CommentGrows ==
    ASSUME text' = text, NEW b, Placed(b), After(b)' = After(b),
           NEW a \in Nat, Edge = a, Edge' = a + 1, text[a] \notin {LF, CR}, text[a] = "#" \/ CommentOpen(b)
    PROVE  CommentOpen(b)'
<1>1. PICK f : f = After(b)
    OBVIOUS
<1>2. f \in 1 .. a /\ After(b)' = f /\ (a + 1) - 1 = a
    BY <1>1 DEF Placed
<1>3. CASE text[a] = "#"
    <2>1. a \in f .. a /\ \A l \in a .. a : l = a
        BY <1>2
    <2> QED BY <2>1, <1>2, <1>3 DEF CommentOpen
<1>4. CASE CommentOpen(b)
    <2>1. PICK j \in f .. a - 1 : text[j] = "#" /\ \A l \in j .. a - 1 : text[l] \notin {LF, CR}
        BY <1>1, <1>4 DEF CommentOpen
    <2>2. j \in f .. a /\ \A l \in j .. a : l \in j .. a - 1 \/ l = a
        BY <2>1, <1>2
    <2> QED BY <2>1, <2>2, <1>2 DEF CommentOpen
<1> QED BY <1>3, <1>4

(* A quiet step keeps what is said of the place of the lexer. *)
LEMMA QuietPlaced ==
    ASSUME Handed, NEW b \in Nat, Placed(b), WordsKept(b), NEW a \in Nat, NEW z \in Nat, Quiet(b, a, z),
           b # 0 => (NewlineSince(b)' <=> NewlineSince(b)) \/ (mode' = "between" /\ in'.ch = EOF)
    PROVE  Placed(b)'
<1>1. text' = text /\ inside_couples' = inside_couples /\ Edge = a /\ Edge' = z /\ z >= a /\ ~BetweenLines'
    BY DEF Quiet
<1>2. Space(b, a, z)
    BY DEF Quiet, Space
<1>3. Gap(After(b), Edge - 1)' /\ After(b)' \in 1 .. z
    BY <1>1, <1>2, GapGrows
<1>4. mode' \in {"comment", "indent_comment"} => CommentOpen(b)'
    <2> SUFFICES ASSUME mode' \in {"comment", "indent_comment"}
                 PROVE  CommentOpen(b)'
        OBVIOUS
    <2>1. z = a + 1 /\ (text[a] = "#" \/ CommentOpen(b)) /\ \A k \in a .. z - 1 : text[k] \notin {LF, CR}
        BY DEF Quiet
    <2>2. a \in a .. z - 1
        BY <2>1
    <2> QED BY <2>1, <2>2, <1>1, CommentGrows DEF WordsKept
<1>5. ASSUME b # 0 PROVE Lined(b)'
    <2>1. Lined(b)
        BY <1>5 DEF Placed
    <2>2. After(b) \in 1 .. a /\ After(b)' = After(b)
        BY <1>1 DEF Placed, WordsKept
    <2>3. HasLineEnd(After(b), Edge - 1)' <=> HasLineEnd(After(b), a - 1)
        <3>1. \A k \in a .. z - 1 : text[k] \notin {LF, CR}
            BY DEF Quiet
        <3>2. \A k : k \in After(b) .. z - 1 => k \in After(b) .. a - 1 \/ k \in a .. z - 1
            BY <2>2
        <3>3. \A k : k \in After(b) .. a - 1 => k \in After(b) .. z - 1
            BY <2>2, <1>1
        <3> QED BY <3>1, <3>2, <3>3, <2>2, <1>1 DEF HasLineEnd
    <2>4. mode' \in Literals \/ in'.ch # EOF =>
             (NewlineSince(b)' <=> HasLineEnd(After(b), Edge - 1)' /\ inside_couples' <= 0)
        <3> SUFFICES ASSUME mode' \in Literals \/ in'.ch # EOF
                     PROVE  NewlineSince(b)' <=> HasLineEnd(After(b), Edge - 1)' /\ inside_couples' <= 0
            OBVIOUS
        <3>1. mode \in Literals \/ in.ch # EOF
            BY <1>5 DEF Quiet
        <3>2. NewlineSince(b)' <=> NewlineSince(b)
            BY <1>5 DEF Literals
        <3>3. NewlineSince(b) <=> HasLineEnd(After(b), a - 1) /\ inside_couples <= 0
            BY <3>1, <2>1, <1>1 DEF Lined
        <3> QED BY <3>2, <3>3, <2>3, <1>1
    <2>5. mode' \in {"indent", "indent_comment"} \/ BetweenLines' => NewlineSince(b)'
        <3> SUFFICES ASSUME mode' \in {"indent", "indent_comment"}
                     PROVE  NewlineSince(b)'
            BY <1>1
        <3>1. mode \in {"indent", "indent_comment"} \/ BetweenLines
            BY DEF Quiet
        <3> QED BY <3>1, <2>1, <1>5 DEF Lined
    <2> QED BY <2>4, <2>5 DEF Lined
<1>6. inside_couples' = OpenBrackets(b)'
    BY <1>1 DEF Placed, WordsKept
<1>7. LastWord(b)' /\ After(b)' = After(b)
      /\ \A k \in 1 .. Len(out') : ~IsLayout(k)' =>
            out'[k].from \in Nat /\ out'[k].from > 0 /\ out'[k].to \in Nat /\ out'[k].to < After(b)
    BY DEF WordsKept
<1> QED BY <1>1, <1>3, <1>4, <1>5, <1>6, <1>7 DEF Placed

(* A step that reads to the end of a line *)
Ending(b, a, z) ==
    /\ text' = text /\ inside_couples' = inside_couples /\ Edge = a /\ Edge' = z /\ z > a
    /\ \A k \in a .. z - 1 : text[k] \in {LF, CR}
    /\ mode' \notin {"comment", "indent_comment"}
    /\ b # 0 => (NewlineSince(b)' <=> inside_couples <= 0)
    /\ b # 0 /\ (mode' \in {"indent", "indent_comment"} \/ BetweenLines') => inside_couples <= 0
    /\ BetweenLines' => in'.ch \in {LF, CR}

(* So does a step to the end of a line. *)
LEMMA EndingPlaced ==
    ASSUME Handed, NEW b \in Nat, Placed(b), WordsKept(b), NEW a \in Nat, NEW z \in Nat, Ending(b, a, z)
    PROVE  Placed(b)'
<1>1. text' = text /\ inside_couples' = inside_couples /\ Edge = a /\ Edge' = z /\ z > a /\ z >= a
    BY DEF Ending
<1>2. Space(b, a, z)
    BY DEF Ending, Space
<1>3. Gap(After(b), Edge - 1)' /\ After(b)' \in 1 .. z
    BY <1>1, <1>2, GapGrows
<1>4. ASSUME b # 0 PROVE Lined(b)'
    <2>1. After(b) \in 1 .. a /\ After(b)' = After(b)
        BY <1>1 DEF Placed, WordsKept
    <2>2. HasLineEnd(After(b), Edge - 1)'
        <3>1. a \in a .. z - 1 /\ a \in After(b) .. z - 1
            BY <1>1, <2>1
        <3>2. text[a] \in {LF, CR}
            BY <3>1 DEF Ending
        <3> QED BY <3>1, <3>2, <2>1, <1>1 DEF HasLineEnd
    <2>3. NewlineSince(b)' <=> inside_couples' <= 0
        BY <1>1, <1>4 DEF Ending
    <2>4. mode' \in {"indent", "indent_comment"} \/ BetweenLines' => inside_couples' <= 0
        BY <1>1, <1>4 DEF Ending
    <2> QED BY <2>2, <2>3, <2>4 DEF Lined
<1>5. inside_couples' = OpenBrackets(b)'
    BY <1>1 DEF Placed, WordsKept
<1>6. LastWord(b)' /\ After(b)' = After(b)
      /\ \A k \in 1 .. Len(out') : ~IsLayout(k)' =>
            out'[k].from \in Nat /\ out'[k].from > 0 /\ out'[k].to \in Nat /\ out'[k].to < After(b)
    BY DEF WordsKept
<1>7. mode' \notin {"comment", "indent_comment"} /\ (BetweenLines' => in'.ch \in {LF, CR})
    BY DEF Ending
<1> QED BY <1>1, <1>3, <1>4, <1>5, <1>6, <1>7 DEF Placed

(* What a step has to keep *)
Kept == Handed' /\ TokenInv' /\ TokensAreLexemes'

(* Outside of names and literals nothing is said of what is read. *)
LEMMA NoReading ==
    ASSUME mode' \notin Literals
    PROVE  Reading'
BY DEF Reading, Literals

(* Where Placed holds of a number, it is that of a token. *)
LEMMA PlacedIn ==
    ASSUME NEW b, Placed(b)'
    PROVE  \E c \in 0 .. Len(out') : Placed(c)'
<1>1. b \in 0 .. Len(out')
    BY DEF Placed, LastWord
<1> QED BY <1>1

(* Steps that hand out nothing *)
LEMMA QuietKept ==
    ASSUME Handed, NEW b \in Nat, Placed(b), NEW a \in Nat, NEW z \in Nat, Quiet(b, a, z),
           out' = out, mode' \notin {"between", "error"}, Reading'
    PROVE  Kept
<1>1. WordsKept(b) /\ (NewlineSince(b)' <=> NewlineSince(b))
    BY SameWords
<1>2. Placed(b)'
    BY <1>1, QuietPlaced
<1>3. Handed'
    BY <1>1 DEF WordsKept
<1> QED BY <1>2, <1>3, PlacedIn DEF Kept, TokenInv, TokensAreLexemes

(* Steps that read to the end of a line and hand out nothing *)
LEMMA EndingKept ==
    ASSUME Handed, NEW b \in Nat, Placed(b), NEW a \in Nat, NEW z \in Nat, Ending(b, a, z),
           out' = out, mode' \notin {"between", "error"} \cup Literals
    PROVE  Kept
<1>1. WordsKept(b)
    BY SameWords
<1>2. Placed(b)'
    BY <1>1, EndingPlaced
<1>3. Handed'
    BY <1>1 DEF WordsKept
<1>4. Reading'
    BY NoReading
<1> QED BY <1>2, <1>3, <1>4, PlacedIn DEF Kept, TokenInv, TokensAreLexemes

(* Tokens of the layout *)
LEMMA LayoutKept ==
    ASSUME Handed, NEW b \in Nat, Placed(b), NEW a \in Nat, NEW z \in Nat,
           NEW e, Layout(e), out' = Append(out, e), mode' \in {"between", "ended"},
           mode' = "between" => \/ Quiet(b, a, z) /\ (e.tok # <<"NEWLINE">> \/ in'.ch = EOF)
                                \/ Ending(b, a, z)
    PROVE  Kept
<1>1. WordsKept(b) /\ (b # 0 => (NewlineSince(b)' <=> NewlineSince(b) \/ e.tok = <<"NEWLINE">>))
    BY MoreLayout
<1>2. mode' = "between" => Placed(b)'
    <2>1. CASE Quiet(b, a, z) /\ (e.tok # <<"NEWLINE">> \/ in'.ch = EOF)
        <3> SUFFICES ASSUME mode' = "between"
                     PROVE  Placed(b)'
            OBVIOUS
        <3>1. b # 0 => (NewlineSince(b)' <=> NewlineSince(b)) \/ (mode' = "between" /\ in'.ch = EOF)
            BY <1>1, <2>1
        <3> QED BY <3>1, <2>1, <1>1, QuietPlaced
    <2>2. CASE Ending(b, a, z)
        BY <2>2, <1>1, EndingPlaced
    <2> QED BY <2>1, <2>2
<1>3. Handed'
    BY <1>1 DEF WordsKept
<1>4. Reading'
    BY NoReading DEF Literals
<1>5. IsLayout(Len(out))'
    <2>1. Len(out) \in Nat /\ Len(out') = Len(out) + 1 /\ out'[Len(out) + 1] = e
        BY OutGrows
    <2> QED BY <2>1 DEF IsLayout, Layout
<1>6. TokensAreLexemes'
    BY <1>5 DEF TokensAreLexemes
<1>7. mode' \notin {"ended", "error"} => mode' = "between"
    OBVIOUS
<1> QED BY <1>2, <1>3, <1>4, <1>6, <1>7, PlacedIn DEF Kept, TokenInv

(* Words *)
LEMMA WordKept ==
    ASSUME text \in Texts, Handed, NEW b \in Nat, Placed(b), NEW f \in Nat, f > 0, Edge = f,
           NEW t \in Nat, t >= f, NEW tok, NEW line, Word(f, t, tok, line)
    PROVE  Kept
<1>1. PICK n : n = Len(out)
    OBVIOUS
<1>2. Placed(n + 1)'
    BY <1>1, WordPlaced
<1>3. LastIsRight'
    BY WordRight
<1>4. Handed'
    BY <1>1, WordIssued
<1>5. mode' = "between" /\ mode' \notin Literals
    BY DEF Word, Literals
<1>6. Reading'
    BY <1>5, NoReading
<1> QED BY <1>2, <1>3, <1>4, <1>5, <1>6, PlacedIn DEF Kept, TokenInv, TokensAreLexemes

(* The empty sequence is no lexeme. *)
LEMMA EmptyIs == ~AnyLexeme(<<>>)
<1>1. PICK e : e = <<>>
    OBVIOUS
<1>2. e \in Seq(Symbols) /\ Len(e) = 0 /\ DOMAIN e = {}
    BY <1>1
<1>3. e \notin Operators
    <2>1. \A c, d, f : <<c>> # <<>> /\ <<c, d>> # <<>> /\ <<c, d, f>> # <<>>
        OBVIOUS
    <2> QED BY <2>1, <1>1 DEF Operators
<1>4. ~IsWord(e) /\ ~IsInt(e) /\ ~IsFloat(e)
    BY <1>1, <1>2 DEF IsWord, IsInt, IsFloat
<1>5. ASSUME NEW kind, NEW p \in StringPrefixes PROVE LET t == SubSeq(e, Len(p) + 1, Len(e)) IN ~(IsShort(t) \/ IsLong(t))
    <2>1. PICK m : m = Len(p) /\ m \in Nat
        BY PrefixLength
    <2>2. PICK t : t = SubSeq(e, m + 1, 0)
        OBVIOUS
    <2>3. Len(t) = 0
        BY <2>1, <2>2, <1>2
    <2>4. ~(Len(t) > 1) /\ ~(Len(t) > 5)
        BY <2>3
    <2>5. ~IsShort(t) /\ ~IsLong(t)
        BY <2>4 DEF IsShort, IsLong
    <2> QED BY <2>1, <2>2, <2>5, <1>2
<1>6. ~AnyLiteral(e)
    BY <1>5 DEF AnyLiteral, IsLiteral
<1> QED BY <1>1, <1>3, <1>4, <1>6 DEF AnyLexeme

(* A text that is refused *)
LEMMA RefusedKept ==
    ASSUME Handed, text \in Texts, text' = text, out' = out, mode' = "error", NEW s, start' = s,
           NEW a \in Nat, a > 0, At(in)' = a,
           \/ \A j \in Nat : j >= a - 1 => ~AnyLexeme(Slice(s, j))
           \/ AnyLiteral(Slice(s, a - 1)) /\ Valueless(Slice(s, a - 1))
    PROVE  Kept
<1>1. Handed'
    BY DEF Handed
<1>2. PICK last : last = a - 1
    OBVIOUS
<1>3. Len(text) \in Nat /\ \A j \in last .. Len(text) : j \in Nat /\ j >= last
    BY <1>2, CharIs
<1>4. \A j : Slice(s, j)' = Slice(s, j)
    BY DEF Slice, Char
<1>5. \A x : (AnyLexeme(x)' <=> AnyLexeme(x)) /\ (AnyLiteral(x)' <=> AnyLiteral(x)) /\ (Valueless(x)' <=> Valueless(x))
    BY DEF AnyLexeme, AnyLiteral, Valueless, IsRaw, BadEscape
<1>6. \/ \A j \in last .. Len(text) : ~AnyLexeme(Slice(s, j))'
      \/ AnyLiteral(Slice(s, last))' /\ Valueless(Slice(s, last))'
    BY <1>2, <1>3, <1>4, <1>5
<1>7. TokensAreLexemes'
    BY <1>2, <1>6 DEF TokensAreLexemes
<1> QED BY <1>1, <1>7 DEF Kept, TokenInv

-----------------------------------------------------------------------------
(* Between two tokens *)
(* The inductive invariant of the lexer *)
Lexing == ReaderInv /\ LevelInv /\ Handed /\ (~EscapedBackslash => TokenInv)

Comments == {"comment", "indent_comment"}
Spaces == {"indent", "indent_comment", "level", "tokens", "comment"}

(* Between two tokens *)
AtSpace(b, a) ==
    /\ b \in Nat /\ a \in Nat /\ a > 0 /\ Placed(b)
    /\ text \in Texts /\ Plain(in) /\ At(in) = a /\ Edge = a /\ in.ch = Char(a)
    /\ in.ch # EOF => a \in 1 .. Len(text) /\ text[a] = in.ch /\ Forward(in, Nextc(in))

(* Between two tokens the reader is plain, and looks at the first character that is not read. *)
LEMMA InSpace ==
    ASSUME Lexing, ~EscapedBackslash, mode \in Spaces
    PROVE  /\ \E b, a : AtSpace(b, a)
           /\ current_indent \in Nat /\ Handed
<1>1. text \in Texts /\ Plain(in)
    BY DEF Lexing, ReaderInv, Spaces
<1>2. PICK b \in 0 .. Len(out) : Placed(b)
    BY DEF Lexing, TokenInv, Spaces
<1>3. PICK a : a = At(in)
    OBVIOUS
<1>4. a \in Nat /\ a > 0 /\ in.ch = Char(a)
    BY <1>1, <1>3, AtPlain
<1>5. Edge = a
    BY <1>3 DEF Edge, BetweenLines, Literals, Spaces
<1>6. in.ch # EOF => a \in 1 .. Len(text) /\ text[a] = in.ch /\ Forward(in, Nextc(in))
    <2> SUFFICES ASSUME in.ch # EOF
                 PROVE  a \in 1 .. Len(text) /\ text[a] = in.ch /\ Forward(in, Nextc(in))
        OBVIOUS
    <2>1. a \in 1 .. Len(text) /\ text[a] = Char(a)
        BY <1>1, <1>4, CharText
    <2>2. Forward(in, Nextc(in))
        BY <1>1, GoesForward
    <2> QED BY <2>1, <2>2, <1>4
<1>7. b \in Nat
    BY <1>2
<1>8. AtSpace(b, a)
    BY <1>1, <1>2, <1>3, <1>4, <1>5, <1>6, <1>7 DEF AtSpace
<1>9. current_indent \in Nat
    BY DEF Lexing, LevelInv, Spaces
<1> QED BY <1>8, <1>9 DEF Lexing

(* Blanks and comments *)
Skips ==
    /\ mode \in Spaces /\ mode' \in Spaces
    /\ text' = text /\ inside_couples' = inside_couples /\ out' = out
    /\ mode' \in {"indent", "indent_comment"} => mode \in {"indent", "indent_comment"}
    /\ \/ in' = in /\ mode' \notin Comments
       \/ /\ in' = Nextc(in) /\ in.ch \notin {LF, CR, EOF}
          /\ in.ch \in Blanks \cup {"#"} \/ mode \in Comments
          /\ mode' \in Comments => in.ch = "#" \/ mode \in Comments

(* What skips a character keeps everything. *)
LEMMA SkipKept ==
    ASSUME Lexing, ~EscapedBackslash, Skips
    PROVE  Kept
<1>1. mode \in Spaces /\ mode' \in Spaces /\ mode' \notin {"between", "error"} /\ mode' \notin Literals
    BY DEF Skips, Spaces, Literals
<1>2. PICK b, a : AtSpace(b, a)
    BY <1>1, InSpace
<1>3. b \in Nat /\ a \in Nat /\ a > 0 /\ Placed(b) /\ At(in) = a /\ Edge = a
      /\ (in.ch # EOF => text[a] = in.ch /\ Forward(in, Nextc(in)))
    BY <1>2 DEF AtSpace
<1>4. Reading' /\ ~BetweenLines' /\ Edge' = At(in)'
    BY <1>1, NoReading DEF BetweenLines, Edge
<1>5. Handed
    BY DEF Lexing
<1>6. CASE in' = in /\ mode' \notin Comments
    <2>1. Edge' = a
        BY <1>3, <1>4, <1>6 DEF At
    <2>2. \A k \in a .. a - 1 : FALSE
        BY <1>3
    <2>3. Quiet(b, a, a)
        BY <2>1, <2>2, <1>1, <1>3, <1>4, <1>6 DEF Quiet, Skips, Comments
    <2> QED BY <2>3, <1>1, <1>3, <1>4, <1>5, QuietKept DEF Skips
<1>7. CASE in' = Nextc(in) /\ in.ch \notin {LF, CR, EOF} /\ (in.ch \in Blanks \cup {"#"} \/ mode \in Comments)
           /\ (mode' \in Comments => in.ch = "#" \/ mode \in Comments)
    <2>1. text[a] = in.ch /\ At(in)' = a + 1
        BY <1>3, <1>7 DEF Forward, At
    <2>2. \A k \in a .. (a + 1) - 1 : k = a
        BY <1>3
    <2>3. mode \in Comments => CommentOpen(b)
        BY <1>3 DEF Placed, Comments
    <2>4. a + 1 >= a /\ a + 1 \in Nat
        BY <1>3
    <2>5. \A k \in a .. (a + 1) - 1 : text[k] \notin {LF, CR} /\ (text[k] \in Blanks \cup {"#"} \/ (CommentOpen(b) /\ k = a))
        BY <2>1, <2>2, <2>3, <1>7
    <2>6. mode' \in {"comment", "indent_comment"} => text[a] = "#" \/ CommentOpen(b)
        BY <2>1, <2>3, <1>7 DEF Comments
    <2>7. Quiet(b, a, a + 1)
        BY <2>1, <2>4, <2>5, <2>6, <1>1, <1>3, <1>4, <1>7 DEF Quiet, Skips
    <2> QED BY <2>4, <2>7, <1>1, <1>3, <1>4, <1>5, QuietKept DEF Skips
<1> QED BY <1>6, <1>7 DEF Skips

(* Each step that skips a blank or a character of a comment is such a step (lexer.c:482, 660). *)
LEMMA BlanksKept ==
    ASSUME Lexing, ~EscapedBackslash,
           IndentComment \/ CommentChar \/ IndentBlank \/ LineBegins \/ SameLevel \/ Comment \/ Blank
    PROVE  Kept
<1>1. "#" \notin {LF, CR, EOF} /\ \A c \in Blanks : c \notin {LF, CR, EOF}
    BY EndIsNoCharacter DEF Blanks, LF, CR, Signs
<1>2. Skips
    <2>1. CASE IndentComment
        BY <2>1, <1>1 DEF IndentComment, Go, Skips, Spaces, Comments, source
    <2>2. CASE CommentChar
        BY <2>2 DEF CommentChar, SkipsLine, Go, Skips, Spaces, Comments, source
    <2>3. CASE IndentBlank
        BY <2>3, <1>1 DEF IndentBlank, Go, Skips, Spaces, Comments, source
    <2>4. CASE LineBegins \/ SameLevel
        BY <2>4 DEF LineBegins, SameLevel, Go, Skips, Spaces, Comments, source
    <2>5. CASE Comment \/ Blank
        BY <2>5, <1>1 DEF Comment, Blank, InTokens, Inline, Go, Skips, Spaces, Comments, source
    <2> QED BY <2>1, <2>2, <2>3, <2>4, <2>5
<1> QED BY <1>2, SkipKept

(* Where the first read leads to. *)
LEMMA FirstAt ==
    ASSUME text \in Texts, NEW r, Unread(r)
    PROVE  At(r) = 0 /\ At(Nextc(r)) = 1
<1>1. r \in Readers /\ r.upto = 0 /\ ~r.on /\ r.buf = <<>>
    BY DEF Unread
<1>2. ~(r.upto > Len(text)) /\ Len(r.buf) = 0
    BY <1>1, CharIs
<1>3. Read(r) = [r EXCEPT !.upto = r.upto + 1, !.ch = Char(r.upto + 1)]
    BY <1>1, <1>2, Zenon DEF Read
<1>4. Nextc(r) = Read(r)
    BY <1>1, Zenon DEF Nextc
<1>5. Plain(Nextc(r))
    BY FirstRead
<1>6. Nextc(r).upto = 0 + 1
    BY <1>1, <1>3, <1>4 DEF Readers
<1>7. At(Nextc(r)) = 1
    BY <1>5, <1>6, AtPlain
<1>8. At(r) = 0
    <2>1. 0 - 0 = 0
        OBVIOUS
    <2> QED BY <2>1, <1>1, <1>2, Zenon DEF At
<1> QED BY <1>7, <1>8

(* Brackets are counted in numbers. *)
LEMMA BracketsAre ==
    ASSUME NEW b \in Nat
    PROVE  OpenBrackets(b) \in Int
<1>1. ASSUME NEW T PROVE Count(T, b) \in Nat
    <2>1. IsFiniteSet(1 .. b) /\ {k \in 1 .. b : out[k].tok = T} \subseteq 1 .. b
        BY FS_Interval
    <2>2. IsFiniteSet({k \in 1 .. b : out[k].tok = T})
        BY <2>1, FS_Subset
    <2> QED BY <2>2, FS_CardinalityType DEF Count
<1> QED BY <1>1 DEF OpenBrackets

(* A call begins. *)
LEMMA BeginKept ==
    ASSUME Lexing, ~EscapedBackslash, BeginCall
    PROVE  Kept
<1>1. /\ mode = "between" /\ text' = text /\ inside_couples' = inside_couples /\ out' = out
      /\ IF current_indent = -1 THEN in' = Nextc(in) /\ mode' = "indent"
                                ELSE in' = in /\ mode' = "level"
    BY DEF BeginCall, Go, source
<1>2. PICK b \in 0 .. Len(out) : Placed(b)
    BY <1>1 DEF Lexing, TokenInv
<1>3. text \in Texts /\ Handed /\ b \in Nat
    BY <1>2 DEF Lexing, ReaderInv
<1>4. Plain(in) \/ (Unread(in) /\ current_indent = -1)
    BY <1>1 DEF Lexing, ReaderInv
<1>5. mode' \notin {"between", "error"} /\ mode' \notin Literals
    BY <1>1 DEF Literals
<1>6. Reading' /\ ~BetweenLines' /\ Edge' = At(in)'
    BY <1>5, NoReading DEF BetweenLines, Edge
<1>7. CASE current_indent # -1
    <2>1. Plain(in)
        BY <1>4, <1>7
    <2>2. PICK a : a = At(in)
        OBVIOUS
    <2>3. a \in Nat /\ Edge = a
        BY <2>1, <2>2, <1>1, <1>7, AtPlain DEF Edge, BetweenLines, Literals
    <2>4. Edge' = a /\ in' = in
        BY <2>2, <1>1, <1>6, <1>7 DEF At
    <2>5. \A k \in a .. a - 1 : FALSE
        BY <2>3
    <2>6. Quiet(b, a, a)
        BY <2>3, <2>4, <2>5, <1>1, <1>5, <1>6, <1>7 DEF Quiet
    <2> QED BY <2>3, <2>6, <1>1, <1>2, <1>3, <1>5, <1>6, QuietKept
<1>8. CASE current_indent = -1
    <2>1. BetweenLines
        BY <1>1, <1>8 DEF BetweenLines
    <2>2. (in.upto = 0 /\ b = 0) \/ in.ch \in {LF, CR}
        BY <2>1, <1>2 DEF Placed
    <2>3. LF # EOF /\ CR # EOF
        BY EndIsNoCharacter
    <2>4. At(in) \in Nat /\ At(Nextc(in)) = At(in) + 1
        <3>1. CASE Unread(in)
            BY <3>1, <1>3, FirstAt
        <3>2. CASE Plain(in)
            <4>1. in.upto > 0
                BY <3>2 DEF Plain
            <4>2. in.ch # EOF
                BY <4>1, <2>2, <2>3
            <4>3. Forward(in, Nextc(in))
                BY <4>2, <3>2, <1>3, GoesForward
            <4> QED BY <4>3, <3>2, AtPlain DEF Forward
        <3> QED BY <3>1, <3>2, <1>4
    <2>5. PICK z : z = At(in) + 1
        OBVIOUS
    <2>6. z \in Nat /\ Edge = z
        BY <2>1, <2>4, <2>5, <1>1 DEF Edge, Literals
    <2>7. Edge' = z
        BY <2>4, <2>5, <1>1, <1>6, <1>8 DEF At
    <2>8. \A k \in z .. z - 1 : FALSE
        BY <2>6
    <2>9. Quiet(b, z, z)
        BY <2>1, <2>2, <2>3, <2>6, <2>7, <2>8, <1>1, <1>5, <1>6, <1>8 DEF Quiet
    <2> QED BY <2>6, <2>9, <1>1, <1>2, <1>3, <1>5, <1>6, QuietKept
<1> QED BY <1>7, <1>8

(* Line ends *)
LEMMA BlankLineKept ==
    ASSUME Lexing, ~EscapedBackslash, BlankLine
    PROVE  Kept
<1>1. /\ mode = "indent" /\ mode' = "indent" /\ text' = text /\ inside_couples' = inside_couples /\ out' = out
      /\ in.ch \in {LF, CR}
      /\ in' = IF in.ch = CR /\ Nextc(in).ch = LF THEN Nextc(Nextc(in)) ELSE Nextc(in)
    BY DEF BlankLine, source
<1>2. PICK b, a : AtSpace(b, a)
    BY <1>1, InSpace DEF Spaces
<1>3. LF # EOF /\ CR # EOF
    BY EndIsNoCharacter
<1>4. b \in Nat /\ a \in Nat /\ Placed(b) /\ Edge = a /\ text \in Texts /\ At(in) = a
      /\ text[a] = in.ch /\ Forward(in, Nextc(in))
    BY <1>1, <1>2, <1>3 DEF AtSpace
<1>5. PICK r : r = Nextc(in)
    OBVIOUS
<1>6. Plain(r) /\ At(r) = a + 1 /\ r.ch = Char(a + 1)
    BY <1>4, <1>5 DEF Forward
<1>7. PICK z : z = At(in')
    OBVIOUS
<1>8. Edge' = z /\ ~BetweenLines'
    BY <1>1, <1>7 DEF Edge, BetweenLines, Literals, At
<1>9. z \in Nat /\ z > a /\ \A k \in a .. z - 1 : text[k] \in {LF, CR}
    <2>1. CASE in' = r
        <3>1. z = a + 1
            BY <2>1, <1>6, <1>7
        <3>2. \A k \in a .. (a + 1) - 1 : k = a
            BY <1>4
        <3> QED BY <3>1, <3>2, <1>1, <1>4
    <2>2. CASE r.ch = LF /\ in' = Nextc(r)
        <3>1. Forward(r, Nextc(r))
            BY <2>2, <1>3, <1>4, <1>6, GoesForward
        <3>2. z = a + 1 + 1
            BY <3>1, <2>2, <1>6, <1>7 DEF Forward
        <3>3. \A k \in a .. (a + 1 + 1) - 1 : k = a \/ k = a + 1
            BY <1>4
        <3>4. text[a + 1] = LF
            <4>1. a + 1 \in Nat /\ a + 1 > 0 /\ Char(a + 1) # EOF
                BY <1>3, <1>4, <1>6, <2>2
            <4> QED BY <4>1, <1>4, <1>6, <2>2, CharText
        <3> QED BY <3>2, <3>3, <3>4, <1>1, <1>4
    <2> QED BY <2>1, <2>2, <1>1, <1>5
<1>10. b # 0 => NewlineSince(b) /\ inside_couples <= 0
    BY <1>1, <1>3, <1>4 DEF Placed, Lined
<1>11. Handed
    BY DEF Lexing
<1>12. NewlineSince(b)' <=> NewlineSince(b)
    BY <1>1, <1>4, <1>11, SameWords
<1>13. Ending(b, a, z)
    BY <1>1, <1>4, <1>8, <1>9, <1>10, <1>12 DEF Ending
<1>14. mode' \notin {"between", "error"} \cup Literals
    BY <1>1 DEF Literals
<1> QED BY <1>1, <1>4, <1>9, <1>11, <1>13, <1>14, EndingKept

(* The end of a line, in brackets and outside of them (lexer.c:541). *)
LEMMA NewlineKept ==
    ASSUME Lexing, ~EscapedBackslash, Newline
    PROVE  Kept
<1>1. PICK e : e = [tok |-> <<"NEWLINE">>, from |-> At(in), to |-> At(in), line |-> linenumber + 1]
    OBVIOUS
<1>2. /\ mode = "tokens" /\ in.ch \in {LF, CR} /\ text' = text /\ inside_couples' = inside_couples
      /\ IF inside_couples > 0 THEN in' = Nextc(in) /\ mode' = "tokens" /\ out' = out
         ELSE current_indent' = -1 /\ in' = in /\ mode' = "between" /\ out' = Append(out, e)
    <2>1. <<"NEWLINE">> # <<"END">>
        OBVIOUS
    <2>2. CASE inside_couples > 0
        BY <2>2 DEF Newline, InTokens, source
    <2>3. CASE ~(inside_couples > 0)
        BY <2>1, <2>3, <1>1 DEF Newline, InTokens, source, Issue
    <2> QED BY <2>2, <2>3
<1>3. PICK b, a : AtSpace(b, a)
    BY <1>2, InSpace DEF Spaces
<1>4. LF # EOF /\ CR # EOF
    BY EndIsNoCharacter
<1>5. b \in Nat /\ a \in Nat /\ Placed(b) /\ Edge = a /\ text \in Texts /\ At(in) = a
      /\ text[a] = in.ch /\ Forward(in, Nextc(in))
    BY <1>2, <1>3, <1>4 DEF AtSpace
<1>6. Handed
    BY DEF Lexing
<1>7. PICK z : z = a + 1
    OBVIOUS
<1>8. z \in Nat /\ z > a /\ \A k \in a .. z - 1 : text[k] \in {LF, CR}
    <2>1. \A k \in a .. (a + 1) - 1 : k = a
        BY <1>5
    <2> QED BY <2>1, <1>2, <1>5, <1>7
<1>9. inside_couples \in Int
    BY <1>5, BracketsAre DEF Placed
<1>10. CASE inside_couples > 0
    <2>1. NewlineSince(b)' <=> NewlineSince(b)
        BY <1>2, <1>5, <1>6, <1>10, SameWords
    <2>2. ~(inside_couples <= 0)
        BY <1>9, <1>10
    <2>3. b # 0 => ~NewlineSince(b)
        BY <2>2, <1>2, <1>4, <1>5 DEF Placed, Lined
    <2>4. Edge' = z /\ ~BetweenLines'
        BY <1>2, <1>5, <1>7, <1>10 DEF Edge, BetweenLines, Literals, At, Forward
    <2>5. Ending(b, a, z)
        BY <2>1, <2>2, <2>3, <2>4, <1>2, <1>5, <1>8, <1>10 DEF Ending
    <2>6. mode' \notin {"between", "error"} \cup Literals /\ out' = out
        BY <1>2, <1>10 DEF Literals
    <2> QED BY <2>5, <2>6, <1>5, <1>6, <1>8, EndingKept
<1>11. CASE ~(inside_couples > 0)
    <2>1. Layout(e) /\ e.tok = <<"NEWLINE">>
        BY <1>1 DEF Layout, LayoutTokens
    <2>2. out' = Append(out, e) /\ mode' = "between" /\ BetweenLines' /\ in' = in
        BY <1>2, <1>11 DEF BetweenLines
    <2>3. Edge' = z
        BY <2>2, <1>5, <1>7 DEF Edge, Literals, At
    <2>4. b # 0 => NewlineSince(b)'
        BY <2>1, <2>2, <1>5, <1>6, MoreLayout
    <2>5. inside_couples <= 0
        BY <1>9, <1>11
    <2>6. Ending(b, a, z)
        BY <2>2, <2>3, <2>4, <2>5, <1>2, <1>5, <1>8 DEF Ending
    <2> QED BY <2>1, <2>2, <2>6, <1>5, <1>6, <1>8, LayoutKept
<1> QED BY <1>10, <1>11

(* Levels, and the end of the file *)
Shown ==
    /\ mode \in Spaces /\ text' = text /\ inside_couples' = inside_couples /\ in' = in
    /\ \E e : /\ Layout(e) /\ out' = Append(out, e) /\ (e.tok # <<"NEWLINE">> \/ in.ch = EOF)
              /\ mode' = IF e.tok = <<"END">> THEN "ended" ELSE "between"
    /\ current_indent' # -1

(* They keep everything. *)
LEMMA ShownKept ==
    ASSUME Lexing, ~EscapedBackslash, Shown
    PROVE  Kept
<1>1. mode \in Spaces /\ text' = text /\ inside_couples' = inside_couples /\ in' = in /\ current_indent' # -1
    BY DEF Shown
<1>2. PICK e : /\ Layout(e) /\ out' = Append(out, e) /\ (e.tok # <<"NEWLINE">> \/ in.ch = EOF)
               /\ mode' = IF e.tok = <<"END">> THEN "ended" ELSE "between"
    BY DEF Shown
<1>3. PICK b, a : AtSpace(b, a)
    BY <1>1, InSpace
<1>4. b \in Nat /\ a \in Nat /\ Placed(b) /\ Edge = a /\ At(in) = a
    BY <1>3 DEF AtSpace
<1>5. mode' = "between" => Quiet(b, a, a)
    <2> SUFFICES ASSUME mode' = "between"
                 PROVE  Quiet(b, a, a)
        OBVIOUS
    <2>1. ~BetweenLines' /\ Edge' = a
        BY <1>1, <1>4 DEF BetweenLines, Edge, Literals, At
    <2>2. \A k \in a .. a - 1 : FALSE
        BY <1>4
    <2> QED BY <2>1, <2>2, <1>1, <1>4 DEF Quiet, Literals
<1>6. Handed /\ mode' \in {"between", "ended"}
    BY <1>2 DEF Lexing
<1> QED BY <1>1, <1>2, <1>4, <1>5, <1>6, LayoutKept

(* Indents, dedents and the end of the file (lexer.c:505, 695). *)
LEMMA LevelsKept ==
    ASSUME Lexing, ~EscapedBackslash, Indent \/ Dedent \/ EndOfFile
    PROVE  Kept
<1>1. <<"INDENT">> # <<"END">> /\ <<"DEDENT">> # <<"END">> /\ <<"NEWLINE">> # <<"END">>
      /\ <<"INDENT">> # <<"NEWLINE">> /\ <<"DEDENT">> # <<"NEWLINE">>
    OBVIOUS
<1>2. mode \in {"level", "tokens"} /\ text' = text /\ inside_couples' = inside_couples
    BY DEF Indent, Dedent, EndOfFile, InTokens, source
<1>3. current_indent \in Nat
    BY <1>2, InSpace DEF Spaces
<1>4. current_indent' # -1
    <2>1. CASE current_indent' = current_indent
        BY <2>1, <1>3
    <2>2. CASE Head(indent) > 0 /\ current_indent' = Head(Tail(indent))
        <3>1. Levels(Tail(indent))
            BY <2>2, LevelCloses DEF Lexing, LevelInv
        <3>2. current_indent' \in Nat
            BY <3>1, <2>2, TopIs
        <3> QED BY <3>2
    <2> QED BY <2>1, <2>2 DEF Indent, Dedent, EndOfFile
<1>5. PICK x : x = [n \in LayoutTokens |-> [tok |-> n, from |-> At(in), to |-> At(in) - 1, line |-> linenumber]]
    OBVIOUS
<1>6. \A n \in LayoutTokens : x[n] = [tok |-> n, from |-> At(in), to |-> At(in) - 1, line |-> linenumber]
                                 /\ x[n].tok = n /\ Layout(x[n])
    BY <1>5 DEF Layout
<1>7. <<"INDENT">> \in LayoutTokens /\ <<"DEDENT">> \in LayoutTokens /\ <<"NEWLINE">> \in LayoutTokens /\ <<"END">> \in LayoutTokens
    BY DEF LayoutTokens
<1>8. \E n \in LayoutTokens :
         Return(in, n, At(in)) /\ (n # <<"NEWLINE">> \/ in.ch = EOF)
    BY <1>1, <1>7 DEF Indent, Dedent, EndOfFile, InTokens
<1>9. PICK n \in LayoutTokens : Return(in, n, At(in)) /\ (n # <<"NEWLINE">> \/ in.ch = EOF)
    BY <1>8
<1>10. in' = in /\ out' = Append(out, x[n]) /\ mode' = IF n = <<"END">> THEN "ended" ELSE "between"
    BY <1>6, <1>9 DEF Return, Issue
<1>11. Shown
    BY <1>2, <1>4, <1>6, <1>9, <1>10 DEF Shown, Spaces
<1> QED BY <1>11, ShownKept

-----------------------------------------------------------------------------
(* Operators *)
OperatorAt(i, j) ==
    \/ j = i /\ Char(i) \in Once
    \/ j = i + 1 /\ \/ Char(i) \in Equal /\ Char(i + 1) = "="
                    \/ Char(i) \in Twice /\ Char(i + 1) = Char(i)
                    \/ Char(i) = "-" /\ Char(i + 1) = ">"
    \/ j = i + 2 /\ Char(i) \in Twice /\ Char(i + 1) = Char(i) /\ Char(i + 2) = "="

(* An operator, by its place in the text. *)
LEMMA OperatorIs ==
    ASSUME text \in Texts, NEW i \in Nat, i > 0, NEW j \in Nat, j >= i
    PROVE  IsOperator(Slice(i, j)) <=> OperatorAt(i, j)
<1>1. PICK s, n : s = Slice(i, j) /\ n = j - i + 1
    OBVIOUS
<1>2. IsSlice(s, n, i, j)
    BY <1>1, SliceChars
<1>3. Len(s) = n /\ s[1] = Char(i) /\ (j > i => s[2] = Char(i + 1))
    BY <1>2 DEF IsSlice
<1>4. j = i + 2 => s[3] = Char(i + 2) /\ j > i
    <2> SUFFICES ASSUME j = i + 2
                 PROVE  s[3] = Char(i + 2) /\ j > i
        OBVIOUS
    <2>1. i + 2 \in i .. j /\ (i + 2) - i + 1 = 3 /\ j > i
        OBVIOUS
    <2>2. s[(i + 2) - i + 1] = Char(i + 2)
        BY <2>1, <1>2 DEF IsSlice
    <2> QED BY <2>1, <2>2
<1>5. (n = 1 <=> j = i) /\ (n = 2 <=> j = i + 1) /\ (n = 3 <=> j = i + 2) /\ (j = i + 1 => j > i)
    BY <1>1
<1> QED BY <1>1, <1>3, <1>4, <1>5 DEF IsOperator, OperatorAt

(* Nothing but an operator begins with one of the signs of operators. *)
LEMMA OnlyOperators ==
    ASSUME text \in Texts, NEW i \in Nat, i > 0, NEW j \in Nat, j >= i, Char(i) \in Once \cup {"!"}, AnyLexeme(Slice(i, j))
    PROVE  OperatorAt(i, j)
<1>1. Char(i) \notin Dec /\ Char(i) \notin Letters /\ Char(i) \notin Prefix \cup Quotes
    BY DEF Once, Dec, Letters, Prefix, Quotes
<1>2. IsOperator(Slice(i, j))
    BY <1>1, FirstTells
<1> QED BY <1>2, OperatorIs

(* A token that is no sign of a literal is itself the text. *)
LEMMA OperatorToken ==
    ASSUME NEW s \in Seq(Symbols), IsOperator(s)
    PROVE  Lexeme(s, s) /\ s \notin LayoutTokens
<1>1. s \notin LayoutTokens \cup {<<"NAME">>, <<"INT">>, <<"FLOAT">>, <<"STRING">>, <<"BYTES">>}
    <2>1. s[1] \in Once \cup Equal
        BY DEF IsOperator, Equal
    <2>2. \A w \in {"NEWLINE", "INDENT", "DEDENT", "END", "NAME", "INT", "FLOAT", "STRING", "BYTES"} :
             w \notin Once \cup Equal /\ <<w>>[1] = w
        BY DEF Once, Equal, Twice
    <2>3. \A w \in {"NEWLINE", "INDENT", "DEDENT", "END", "NAME", "INT", "FLOAT", "STRING", "BYTES"} : s # <<w>>
        BY <2>1, <2>2
    <2> QED BY <2>3 DEF LayoutTokens
<1>2. s \in Operators
    BY OperatorsAre
<1> QED BY <1>1, <1>2 DEF Lexeme

(* An operator is handed out, its first character being read. *)
Operator(a, t, tok, line) ==
    /\ mode = "tokens" /\ in.ch \in Once \cup {"!"}
    /\ text' = text /\ out' = Append(out, [tok |-> tok, from |-> a, to |-> t, line |-> line])
    /\ mode' = "between" /\ current_indent' = current_indent /\ At(in)' = t + 1
    /\ inside_couples' = inside_couples + Opening(tok)
    /\ tok = Slice(a, t) /\ OperatorAt(a, t) /\ \A l \in Nat : l > t => ~OperatorAt(a, l)

(* An operator that is handed out keeps everything. *)
LEMMA OperatorKept ==
    ASSUME Lexing, ~EscapedBackslash, NEW b, NEW a, AtSpace(b, a), NEW t \in Nat, t >= a, NEW tok, NEW line, Operator(a, t, tok, line)
    PROVE  Kept
<1>1. b \in Nat /\ a \in Nat /\ a > 0 /\ Placed(b) /\ Edge = a /\ text \in Texts /\ in.ch = Char(a)
    BY DEF AtSpace
<1>2. in.ch # EOF
    BY EndIsNoCharacter DEF Operator, Once, Signs
<1>3. current_indent' # -1
    <2>1. current_indent \in Nat
        BY InSpace DEF Operator, Spaces
    <2> QED BY <2>1 DEF Operator
<1>4. Slice(a, t) \in Seq(Symbols) /\ IsOperator(Slice(a, t))
    <2>1. Slice(a, t) \in Seq(Symbols)
        <3>1. t >= a - 1
            BY <1>1
        <3> QED BY <3>1, <1>1, SliceIs
    <2>2. IsOperator(Slice(a, t))
        BY <1>1, OperatorIs DEF Operator
    <2> QED BY <2>1, <2>2
<1>5. Lexeme(tok, Slice(a, t)) /\ tok \notin LayoutTokens
    BY <1>4, OperatorToken DEF Operator
<1>6. \A l \in Nat : l > t => ~AnyLexeme(Slice(a, l))
    <2> SUFFICES ASSUME NEW l \in Nat, l > t, AnyLexeme(Slice(a, l))
                 PROVE  FALSE
        OBVIOUS
    <2>1. l >= a
        BY <1>1
    <2>2. OperatorAt(a, l)
        BY <2>1, <1>1, OnlyOperators DEF Operator
    <2> QED BY <2>2 DEF Operator
<1>7. Word(a, t, tok, line)
    BY <1>2, <1>3, <1>5, <1>6 DEF Word, Operator
<1> QED BY <1>1, <1>7, WordKept DEF Lexing

(* The text of an operator *)
LEMMA SliceText ==
    ASSUME text \in Texts, NEW i \in Nat, i > 0
    PROVE  /\ Slice(i, i) = <<Char(i)>>
           /\ Slice(i, i + 1) = <<Char(i), Char(i + 1)>>
           /\ Slice(i, i + 2) = <<Char(i), Char(i + 1), Char(i + 2)>>
<1>1. Slice(i, i) = <<Char(i)>>
    <2>1. PICK s : s = Slice(i, i)
        OBVIOUS
    <2>2. s \in Seq(Symbols) /\ Len(s) = 1 /\ s[1] = Char(i)
        <3>1. i - i + 1 = 1 /\ i >= i /\ IsSlice(s, 1, i, i)
            BY <2>1, SliceChars
        <3> QED BY <3>1 DEF IsSlice
    <2> QED BY <2>1, <2>2, SeqOfLength
<1>2. Slice(i, i + 1) = <<Char(i), Char(i + 1)>>
    <2>1. PICK s, j : s = Slice(i, i + 1) /\ j = i + 1
        OBVIOUS
    <2>2. s \in Seq(Symbols) /\ Len(s) = 2 /\ s[1] = Char(i) /\ s[2] = Char(i + 1)
        <3>1. j - i + 1 = 2 /\ j >= i /\ j > i /\ j \in Nat
            BY <2>1
        <3>2. IsSlice(s, 2, i, j)
            BY <2>1, <3>1, SliceChars
        <3> QED BY <3>1, <3>2 DEF IsSlice
    <2> QED BY <2>1, <2>2, SeqOfLength
<1>3. Slice(i, i + 2) = <<Char(i), Char(i + 1), Char(i + 2)>>
    <2>1. PICK s, j : s = Slice(i, i + 2) /\ j = i + 2
        OBVIOUS
    <2>2. s \in Seq(Symbols) /\ Len(s) = 3 /\ s[1] = Char(i) /\ s[2] = Char(i + 1) /\ s[3] = Char(i + 2)
        <3>1. j - i + 1 = 3 /\ j >= i /\ j > i /\ j \in Nat /\ j \in i .. j
            BY <2>1
        <3>2. IsSlice(s, 3, i, j)
            BY <2>1, <3>1, SliceChars
        <3>3. s[j - i + 1] = Char(j)
            BY <3>1, <3>2 DEF IsSlice
        <3> QED BY <2>1, <3>1, <3>2, <3>3 DEF IsSlice
    <2> QED BY <2>1, <2>2, SeqOfLength
<1> QED BY <1>1, <1>2, <1>3

(* What a call that returns a token leaves behind *)
LEMMA Returned ==
    ASSUME NEW r, NEW tok, NEW a, Return(r, tok, a), tok # <<"END">>, NEW t \in Nat, At(r) = t + 1
    PROVE  out' = Append(out, [tok |-> tok, from |-> a, to |-> t, line |-> linenumber]) /\ mode' = "between" /\ At(in)' = t + 1
<1>1. At(r) - 1 = t
    OBVIOUS
<1>2. in' = r
    BY DEF Return, Issue
<1>3. At(in)' = t + 1
    BY <1>2 DEF At
<1> QED BY <1>1, <1>3 DEF Return, Issue

(* Characters ahead *)
LEMMA ReadsAhead ==
    ASSUME NEW b, NEW a, AtSpace(b, a), in.ch # EOF, NEW r, r = Nextc(in), NEW s, s = Nextc(r), NEW q, q = Nextc(s)
    PROVE  /\ Plain(r) /\ At(r) = a + 1 /\ r.ch = Char(a + 1)
           /\ r.ch # EOF => Plain(s) /\ At(s) = a + 2 /\ s.ch = Char(a + 2)
           /\ r.ch # EOF /\ s.ch # EOF => At(q) = a + 3
<1>1. text \in Texts /\ At(in) = a /\ a \in Nat /\ Forward(in, r)
    BY DEF AtSpace
<1>2. Plain(r) /\ At(r) = a + 1 /\ r.ch = Char(a + 1)
    BY <1>1 DEF Forward
<1>3. ASSUME r.ch # EOF PROVE Plain(s) /\ At(s) = a + 2 /\ s.ch = Char(a + 2)
    <2>1. Forward(r, s)
        BY <1>1, <1>2, <1>3, GoesForward
    <2>2. a + 1 + 1 = a + 2
        BY <1>1
    <2> QED BY <2>1, <2>2, <1>2 DEF Forward
<1>4. ASSUME r.ch # EOF, s.ch # EOF PROVE At(q) = a + 3
    <2>1. Plain(s) /\ At(s) = a + 2
        BY <1>3, <1>4
    <2>2. Forward(s, q)
        BY <2>1, <1>1, <1>4, GoesForward
    <2>3. a + 2 + 1 = a + 3
        BY <1>1
    <2> QED BY <2>1, <2>2, <2>3 DEF Forward
<1> QED BY <1>2, <1>3, <1>4

(* The brackets that are open are a number. *)
LEMMA BracketInt ==
    ASSUME NEW b, NEW a, AtSpace(b, a)
    PROVE  inside_couples \in Int /\ inside_couples + 0 = inside_couples
<1>1. inside_couples \in Int
    BY BracketsAre DEF AtSpace, Placed
<1> QED BY <1>1

(* Brackets and the other operators that stand alone (lexer.c:555). *)
LEMMA SignsKept ==
    ASSUME Lexing, ~EscapedBackslash, Bracket \/ Single
    PROVE  Kept
<1>1. PICK tok : tok = <<in.ch>>
    OBVIOUS
<1>2. /\ mode = "tokens" /\ in.ch \in {"(", ")", ",", ":", ".", "~"} /\ text' = text /\ current_indent' = current_indent
      /\ Return(Nextc(in), tok, At(in))
    BY <1>1 DEF Bracket, Single, Inline, source, layout, InTokens
<1>3. PICK b, a : AtSpace(b, a)
    BY <1>2, InSpace DEF Spaces
<1>4. in.ch \in Once /\ in.ch \notin Equal \cup Twice \cup {"-"}
    BY <1>2 DEF Once, Equal, Twice
<1>5. in.ch # EOF
    BY <1>4, EndIsNoCharacter DEF Once, Signs
<1>6. a \in Nat /\ a > 0 /\ At(in) = a /\ text \in Texts /\ in.ch = Char(a)
    BY <1>3 DEF AtSpace
<1>7. At(Nextc(in)) = a + 1
    BY <1>3, <1>5, ReadsAhead
<1>8. inside_couples' = inside_couples + Opening(tok)
    <2>1. Opening(tok) = IF in.ch = "(" THEN 1 ELSE IF in.ch = ")" THEN -1 ELSE 0
        BY <1>1 DEF Opening
    <2>2. CASE Bracket
        BY <2>1, <2>2, <1>2 DEF Bracket, InTokens
    <2>3. CASE Single
        <3>1. in.ch \notin {"(", ")"} /\ inside_couples' = inside_couples
            BY <2>3 DEF Single, Inline, InTokens
        <3> QED BY <3>1, <2>1, <1>3, BracketInt
    <2> QED BY <2>2, <2>3
<1>9. tok # <<"END">>
    BY <1>1, <1>2
<1>10. tok = Slice(a, a) /\ OperatorAt(a, a) /\ \A l \in Nat : l > a => ~OperatorAt(a, l)
    BY <1>1, <1>4, <1>6, SliceText DEF OperatorAt
<1>11. Operator(a, a, tok, linenumber)
    BY <1>2, <1>4, <1>6, <1>7, <1>8, <1>9, <1>10, Returned DEF Operator
<1>12. a >= a
    BY <1>6
<1> QED BY <1>3, <1>6, <1>11, <1>12, OperatorKept

(* An operator: t is where it ends. *)
LEMMA OperatorReturned ==
    ASSUME Lexing, ~EscapedBackslash, NEW b, NEW a, AtSpace(b, a), mode = "tokens", in.ch \in Equal,
           text' = text, current_indent' = current_indent, inside_couples' = inside_couples,
           NEW t \in Nat, t >= a, NEW r, At(r) = t + 1, NEW tok, tok = Slice(a, t), Return(r, tok, a), tok[1] = in.ch,
           OperatorAt(a, t), \A l \in Nat : l > t => ~OperatorAt(a, l)
    PROVE  Kept
<1>1. in.ch \notin {"END", "(", ")"} /\ in.ch \in Once \cup {"!"}
    BY DEF Equal, Twice, Once
<1>2. tok # <<"END">> /\ tok # <<"(">> /\ tok # <<")">>
    BY <1>1
<1>3. inside_couples' = inside_couples + Opening(tok)
    BY <1>2, BracketInt DEF Opening
<1>4. Operator(a, t, tok, linenumber)
    BY <1>1, <1>2, <1>3, Returned DEF Operator
<1> QED BY <1>4, OperatorKept

(* Operators that may be doubled and have an equal sign. *)
LEMMA DoubledKept ==
    ASSUME Lexing, ~EscapedBackslash, Doubled
    PROVE  Kept
<1>1. PICK c, r1, r2, r3 : c = in.ch /\ r1 = Nextc(in) /\ r2 = Nextc(r1) /\ r3 = Nextc(r2)
    OBVIOUS
<1>2. /\ mode = "tokens" /\ c \in Twice /\ text' = text /\ current_indent' = current_indent /\ inside_couples' = inside_couples
      /\ \/ r1.ch = "=" /\ Return(r2, <<c, "=">>, At(in))
         \/ r1.ch # "=" /\ r1.ch # c /\ Return(r1, <<c>>, At(in))
         \/ r1.ch = c /\ r2.ch = "=" /\ Return(r3, <<c, c, "=">>, At(in))
         \/ r1.ch = c /\ r2.ch # "=" /\ Return(r2, <<c, c>>, At(in))
    BY <1>1 DEF Doubled, Inline, source, layout, InTokens, Twice
<1>3. PICK b, a : AtSpace(b, a)
    BY <1>2, InSpace DEF Spaces
<1>4. c \in Once /\ c \in Equal /\ c # "=" /\ "=" \notin Twice /\ c # "-"
    BY <1>2 DEF Once, Equal, Twice
<1>5. c # EOF /\ "=" # EOF
    BY <1>4, EndIsNoCharacter DEF Once, Signs
<1>6. a \in Nat /\ a > 0 /\ At(in) = a /\ text \in Texts /\ c = Char(a)
    BY <1>1, <1>3 DEF AtSpace
<1>7. /\ At(r1) = a + 1 /\ r1.ch = Char(a + 1)
      /\ r1.ch # EOF => At(r2) = a + 2 /\ r2.ch = Char(a + 2)
      /\ r1.ch # EOF /\ r2.ch # EOF => At(r3) = a + 3
    BY <1>1, <1>3, <1>5, ReadsAhead
<1>8. /\ a >= a /\ a + 1 >= a /\ a + 2 >= a /\ a + 1 \in Nat /\ a + 2 \in Nat
      /\ a + 1 + 1 = a + 2 /\ a + 2 + 1 = a + 3
    BY <1>6
<1>9. <<c>>[1] = c /\ <<c, c>>[1] = c /\ <<c, "=">>[1] = c /\ <<c, c, "=">>[1] = c
    OBVIOUS
<1>10. CASE r1.ch = "=" /\ Return(r2, <<c, "=">>, At(in))
    <2>1. <<c, "=">> = Slice(a, a + 1) /\ At(r2) = a + 1 + 1
        BY <1>5, <1>6, <1>7, <1>8, <1>10, SliceText
    <2>2. OperatorAt(a, a + 1) /\ \A l \in Nat : l > a + 1 => ~OperatorAt(a, l)
        BY <1>4, <1>6, <1>7, <1>10 DEF OperatorAt
    <2> QED BY <2>1, <2>2, <1>1, <1>2, <1>3, <1>4, <1>6, <1>8, <1>9, <1>10, OperatorReturned
<1>11. CASE r1.ch # "=" /\ r1.ch # c /\ Return(r1, <<c>>, At(in))
    <2>1. <<c>> = Slice(a, a)
        BY <1>6, SliceText
    <2>2. OperatorAt(a, a) /\ \A l \in Nat : l > a => ~OperatorAt(a, l)
        BY <1>4, <1>6, <1>7, <1>11 DEF OperatorAt
    <2> QED BY <2>1, <2>2, <1>1, <1>2, <1>3, <1>4, <1>6, <1>7, <1>8, <1>9, <1>11, OperatorReturned
<1>12. CASE r1.ch = c /\ r2.ch = "=" /\ Return(r3, <<c, c, "=">>, At(in))
    <2>1. <<c, c, "=">> = Slice(a, a + 2) /\ At(r3) = a + 2 + 1
        BY <1>5, <1>6, <1>7, <1>8, <1>12, SliceText
    <2>2. OperatorAt(a, a + 2) /\ \A l \in Nat : l > a + 2 => ~OperatorAt(a, l)
        BY <1>2, <1>5, <1>6, <1>7, <1>12 DEF OperatorAt
    <2> QED BY <2>1, <2>2, <1>1, <1>2, <1>3, <1>4, <1>6, <1>8, <1>9, <1>12, OperatorReturned
<1>13. CASE r1.ch = c /\ r2.ch # "=" /\ Return(r2, <<c, c>>, At(in))
    <2>1. <<c, c>> = Slice(a, a + 1) /\ At(r2) = a + 1 + 1
        BY <1>5, <1>6, <1>7, <1>8, <1>13, SliceText
    <2>2. OperatorAt(a, a + 1) /\ \A l \in Nat : l > a + 1 => ~OperatorAt(a, l)
        BY <1>2, <1>5, <1>6, <1>7, <1>13 DEF OperatorAt
    <2> QED BY <2>1, <2>2, <1>1, <1>2, <1>3, <1>4, <1>6, <1>8, <1>9, <1>13, OperatorReturned
<1> QED BY <1>2, <1>10, <1>11, <1>12, <1>13

(* Operators that may have an equal sign, and the arrow. *)
LEMMA WithEqualKept ==
    ASSUME Lexing, ~EscapedBackslash, WithEqual
    PROVE  Kept
<1>1. PICK c, r1, r2, r3 : c = in.ch /\ r1 = Nextc(in) /\ r2 = Nextc(r1) /\ r3 = Nextc(r2)
    OBVIOUS
<1>2. /\ mode = "tokens" /\ c \in Equal \ (Twice \cup {"!"}) /\ text' = text /\ current_indent' = current_indent
      /\ inside_couples' = inside_couples
      /\ \/ (r1.ch = "=" \/ (c = "-" /\ r1.ch = ">")) /\ Return(r2, <<c, r1.ch>>, At(in))
         \/ ~(r1.ch = "=" \/ (c = "-" /\ r1.ch = ">")) /\ Return(r1, <<c>>, At(in))
    BY <1>1 DEF WithEqual, Inline, source, layout, InTokens, Twice, Equal
<1>3. PICK b, a : AtSpace(b, a)
    BY <1>2, InSpace DEF Spaces
<1>4. c \in Once /\ c \in Equal /\ c \notin Twice
    BY <1>2 DEF Once, Equal, Twice
<1>5. c # EOF /\ "=" # EOF /\ ">" # EOF
    BY <1>4, EndIsNoCharacter DEF Once, Signs
<1>6. a \in Nat /\ a > 0 /\ At(in) = a /\ text \in Texts /\ c = Char(a)
    BY <1>1, <1>3 DEF AtSpace
<1>7. /\ At(r1) = a + 1 /\ r1.ch = Char(a + 1)
      /\ r1.ch # EOF => At(r2) = a + 2 /\ r2.ch = Char(a + 2)
    BY <1>1, <1>3, <1>5, ReadsAhead
<1>8. a >= a /\ a + 1 >= a /\ a + 1 \in Nat /\ a + 1 + 1 = a + 2
    BY <1>6
<1>9. <<c>>[1] = c /\ <<c, r1.ch>>[1] = c
    OBVIOUS
<1>10. CASE (r1.ch = "=" \/ (c = "-" /\ r1.ch = ">")) /\ Return(r2, <<c, r1.ch>>, At(in))
    <2>1. <<c, r1.ch>> = Slice(a, a + 1) /\ At(r2) = a + 1 + 1
        BY <1>5, <1>6, <1>7, <1>8, <1>10, SliceText
    <2>2. OperatorAt(a, a + 1) /\ \A l \in Nat : l > a + 1 => ~OperatorAt(a, l)
        BY <1>4, <1>6, <1>7, <1>10 DEF OperatorAt
    <2> QED BY <2>1, <2>2, <1>1, <1>2, <1>3, <1>4, <1>6, <1>8, <1>9, <1>10, OperatorReturned
<1>11. CASE ~(r1.ch = "=" \/ (c = "-" /\ r1.ch = ">")) /\ Return(r1, <<c>>, At(in))
    <2>1. <<c>> = Slice(a, a)
        BY <1>6, SliceText
    <2>2. OperatorAt(a, a) /\ \A l \in Nat : l > a => ~OperatorAt(a, l)
        BY <1>4, <1>6, <1>7, <1>11 DEF OperatorAt
    <2> QED BY <2>1, <2>2, <1>1, <1>2, <1>3, <1>4, <1>6, <1>7, <1>8, <1>9, <1>11, OperatorReturned
<1> QED BY <1>2, <1>10, <1>11

(* An exclamation mark is refused without its equal sign (lexer.c:645). *)
LEMMA NotEqualKept ==
    ASSUME Lexing, ~EscapedBackslash, NotEqual
    PROVE  Kept
<1>1. PICK r1, r2 : r1 = Nextc(in) /\ r2 = Nextc(r1)
    OBVIOUS
<1>2. /\ mode = "tokens" /\ in.ch = "!" /\ text' = text /\ current_indent' = current_indent
      /\ inside_couples' = inside_couples /\ start' = At(in)
      /\ \/ r1.ch = "=" /\ Return(r2, <<"!", "=">>, At(in))
         \/ r1.ch # "=" /\ Refuse(r1)
    BY <1>1 DEF NotEqual, Inline, source, layout, InTokens
<1>3. PICK b, a : AtSpace(b, a)
    BY <1>2, InSpace DEF Spaces
<1>4. in.ch \in Equal /\ "!" \notin Once \cup Twice
    BY <1>2 DEF Equal, Once, Twice
<1>5. in.ch # EOF /\ "=" # EOF
    BY <1>2, EndIsNoCharacter DEF Signs
<1>6. a \in Nat /\ a > 0 /\ At(in) = a /\ text \in Texts /\ "!" = Char(a)
    BY <1>2, <1>3 DEF AtSpace
<1>7. /\ At(r1) = a + 1 /\ r1.ch = Char(a + 1)
      /\ r1.ch # EOF => At(r2) = a + 2 /\ r2.ch = Char(a + 2)
    BY <1>1, <1>3, <1>5, ReadsAhead
<1>8. a + 1 >= a /\ a + 1 \in Nat /\ a + 1 > 0 /\ a + 1 + 1 = a + 2
    BY <1>6
<1>9. CASE r1.ch = "=" /\ Return(r2, <<"!", "=">>, At(in))
    <2>1. <<"!", "=">> = Slice(a, a + 1) /\ At(r2) = a + 1 + 1 /\ <<"!", "=">>[1] = in.ch
        BY <1>2, <1>5, <1>6, <1>7, <1>8, <1>9, SliceText
    <2>2. OperatorAt(a, a + 1) /\ \A l \in Nat : l > a + 1 => ~OperatorAt(a, l)
        BY <1>2, <1>4, <1>6, <1>7, <1>9 DEF OperatorAt
    <2> QED BY <2>1, <2>2, <1>2, <1>3, <1>4, <1>6, <1>8, <1>9, OperatorReturned
<1>10. CASE r1.ch # "=" /\ Refuse(r1)
    <2>1. ASSUME NEW j \in Nat, j >= (a + 1) - 1, AnyLexeme(Slice(a, j))
          PROVE  FALSE
        <3>1. j >= a /\ Char(a) \in Once \cup {"!"}
            BY <2>1, <1>6
        <3>2. OperatorAt(a, j)
            BY <3>1, <2>1, <1>6, OnlyOperators
        <3> QED BY <3>2, <1>4, <1>6, <1>7, <1>10 DEF OperatorAt
    <2>2. At(in)' = a + 1 /\ out' = out /\ mode' = "error"
        BY <1>7, <1>10 DEF Refuse, At
    <2> QED BY <2>1, <2>2, <1>2, <1>6, <1>8, RefusedKept DEF Lexing
<1> QED BY <1>2, <1>9, <1>10

(* A character that begins no lexeme *)
LEMMA BadKept ==
    ASSUME Lexing, ~EscapedBackslash, BadCharacter
    PROVE  Kept
<1>1. /\ mode = "tokens" /\ in.ch \in {"\\", "$"} /\ text' = text /\ start' = At(in) /\ in' = in /\ mode' = "error" /\ out' = out
    BY DEF BadCharacter, Inline, source, Refuse
<1>2. PICK b, a : AtSpace(b, a)
    BY <1>1, InSpace DEF Spaces
<1>3. a \in Nat /\ a > 0 /\ At(in) = a /\ text \in Texts /\ in.ch = Char(a)
    BY <1>2 DEF AtSpace
<1>4. Char(a) \notin Once \cup {"!"} \cup Dec \cup Letters \cup Prefix \cup Quotes
    BY <1>1, <1>3 DEF Once, Dec, Letters, Prefix, Quotes
<1>5. ASSUME NEW j \in Nat, j >= a - 1 PROVE ~AnyLexeme(Slice(a, j))
    <2>1. CASE j >= a
        BY <2>1, <1>3, <1>4, FirstTells
    <2>2. CASE j = a - 1
        <3>1. a >= a
            BY <1>3
        <3>2. Slice(a, j) = <<>>
            BY <3>1, <2>2, <1>3, SliceGrows
        <3> QED BY <3>2, EmptyIs
    <2> QED BY <2>1, <2>2, <1>3, <1>5
<1>6. At(in)' = a
    BY <1>1, <1>3 DEF At
<1> QED BY <1>1, <1>3, <1>5, <1>6, RefusedKept DEF Lexing

-----------------------------------------------------------------------------
(* Numbers *)
(* Inside of a literal *)
AtLiteral(b, s) ==
    /\ b \in Nat /\ s \in Nat /\ s > 0 /\ Placed(b)
    /\ text \in Texts /\ start = s /\ Edge = s /\ s <= At(in) /\ Reading

(* What is said inside of a name or a literal. *)
LEMMA InLiteral ==
    ASSUME Lexing, ~EscapedBackslash, mode \in Literals
    PROVE  (\E b, s : AtLiteral(b, s)) /\ current_indent \in Nat /\ Handed
<1>1. mode \notin {"ended", "error", "between"}
    BY DEF Literals
<1>2. PICK b \in 0 .. Len(out) : Placed(b)
    BY <1>1 DEF Lexing, TokenInv
<1>3. Reading
    BY <1>1 DEF Lexing, TokenInv
<1>4. PICK s : s = start
    OBVIOUS
<1>5. s \in Nat /\ s > 0 /\ s <= At(in) /\ Edge = s
    BY <1>3, <1>4 DEF Reading, Edge
<1>6. text \in Texts /\ b \in Nat
    BY <1>2 DEF Lexing, ReaderInv
<1>7. AtLiteral(b, s)
    BY <1>2, <1>3, <1>4, <1>5, <1>6 DEF AtLiteral
<1>8. current_indent \in Nat
    BY <1>1 DEF Lexing, LevelInv
<1> QED BY <1>7, <1>8 DEF Lexing

(* A literal begins. *)
LEMMA StartKept ==
    ASSUME Lexing, ~EscapedBackslash, NEW b, NEW a, AtSpace(b, a), mode = "tokens", in.ch # EOF,
           mode' \in Literals, start' = a, text' = text, out' = out, inside_couples' = inside_couples, Reading'
    PROVE  Kept
<1>1. b \in Nat /\ a \in Nat /\ Placed(b) /\ Edge = a
    BY DEF AtSpace
<1>2. Edge' = a /\ ~BetweenLines' /\ mode' \notin {"between", "error", "comment", "indent_comment", "indent"}
    BY DEF Edge, BetweenLines, Literals
<1>3. \A k \in a .. a - 1 : FALSE
    BY <1>1
<1>4. Quiet(b, a, a)
    BY <1>1, <1>2, <1>3 DEF Quiet
<1> QED BY <1>1, <1>2, <1>4, QuietKept DEF Lexing

(* A literal goes on. *)
LEMMA GoOnKept ==
    ASSUME Lexing, ~EscapedBackslash, mode \in Literals,
           mode' \in Literals, start' = start, text' = text, out' = out, inside_couples' = inside_couples, Reading'
    PROVE  Kept
<1>1. PICK b, s : AtLiteral(b, s)
    BY InLiteral
<1>2. b \in Nat /\ s \in Nat /\ Placed(b) /\ Edge = s /\ start = s
    BY <1>1 DEF AtLiteral
<1>3. Edge' = s /\ ~BetweenLines' /\ mode' \notin {"between", "error", "comment", "indent_comment", "indent"}
    BY <1>2 DEF Edge, BetweenLines, Literals
<1>4. \A k \in s .. s - 1 : FALSE
    BY <1>2
<1>5. Quiet(b, s, s)
    BY <1>2, <1>3, <1>4 DEF Quiet
<1> QED BY <1>2, <1>3, <1>5, QuietKept DEF Lexing

(* A literal ends. *)
LEMMA LiteralKept ==
    ASSUME Lexing, ~EscapedBackslash, mode \in Literals, NEW r, NEW tok, Return(r, tok, start),
           tok \notin LayoutTokens \cup {<<"(">>, <<")">>}, NEW t \in Nat, t >= start, At(r) = t + 1,
           text' = text, current_indent' = current_indent, inside_couples' = inside_couples,
           Lexeme(tok, Slice(start, t)), \A l \in Nat : l > t => ~AnyLexeme(Slice(start, l))
    PROVE  Kept
<1>1. PICK b, s : AtLiteral(b, s)
    BY InLiteral
<1>2. b \in Nat /\ s \in Nat /\ s > 0 /\ Placed(b) /\ Edge = s /\ start = s /\ text \in Texts
    BY <1>1 DEF AtLiteral
<1>3. tok # <<"END">>
    BY DEF LayoutTokens
<1>4. out' = Append(out, [tok |-> tok, from |-> s, to |-> t, line |-> linenumber]) /\ mode' = "between" /\ At(in)' = t + 1
    BY <1>2, <1>3, Returned
<1>5. inside_couples \in Int
    BY <1>2, BracketsAre DEF Placed
<1>6. inside_couples' = inside_couples + Opening(tok)
    BY <1>5 DEF Opening
<1>7. current_indent' # -1
    <2>1. current_indent \in Nat
        BY InLiteral
    <2> QED BY <2>1
<1>8. Word(s, t, tok, linenumber)
    BY <1>2, <1>4, <1>6, <1>7 DEF Word
<1> QED BY <1>2, <1>8, WordKept DEF Lexing

(* Decimal, hexadecimal and other digits are characters of a text. *)
LEMMA DigitsInText ==
    /\ EOF \notin Dec \cup {".", "a", "b", "e", "x", "o"}
    /\ \A c \in DOMAIN DigitsOf : EOF \notin DigitsOf[c] /\ c # EOF
<1>1. EOF \notin Dec \cup {".", "a", "b", "e", "x", "o"}
    BY EndIsNoCharacter DEF IdentLetters, Letters, Signs
<1>2. \A c \in DOMAIN DigitsOf : DigitsOf[c] \subseteq Dec \cup {"a", "b", "e"} /\ c \in {"x", "b", "o"}
    BY DigitsOfIs
<1> QED BY <1>1, <1>2

(* A zero begins a number of a base, a decimal or stands alone. *)
LEMMA ZeroKept ==
    ASSUME Lexing, ~EscapedBackslash, Zero
    PROVE  Kept
<1>1. PICK r, q : r = Nextc(in) /\ q = Nextc(r)
    OBVIOUS
<1>2. /\ mode = "tokens" /\ in.ch = "0" /\ text' = text /\ current_indent' = current_indent
      /\ inside_couples' = inside_couples /\ start' = At(in)
      /\ \/ r.ch \in DOMAIN DigitsOf /\ q.ch \in DigitsOf[r.ch] /\ Go(q, "based") /\ head' = DigitsOf[r.ch]
         \/ r.ch \in DOMAIN DigitsOf /\ q.ch \notin DigitsOf[r.ch] /\ Refuse(q)
         \/ r.ch \in Dec \cup {"."} /\ Go(r, "digits")
         \/ r.ch \notin DOMAIN DigitsOf /\ r.ch \notin Dec \cup {"."} /\ Return(r, <<"INT">>, At(in))
    BY <1>1 DEF Zero, Inline, source, layout, InTokens
<1>3. PICK b, a : AtSpace(b, a)
    BY <1>2, InSpace DEF Spaces
<1>4. in.ch \in Dec /\ in.ch # EOF
    BY <1>2, DigitsInText DEF Dec
<1>5. b \in Nat /\ a \in Nat /\ a > 0 /\ At(in) = a /\ text \in Texts /\ Char(a) = "0" /\ Placed(b) /\ Edge = a
    BY <1>2, <1>3 DEF AtSpace
<1>6. /\ At(r) = a + 1 /\ r.ch = Char(a + 1)
      /\ r.ch # EOF => At(q) = a + 2 /\ q.ch = Char(a + 2)
    BY <1>1, <1>3, <1>4, ReadsAhead
<1>7. CASE r.ch \in DOMAIN DigitsOf /\ q.ch \in DigitsOf[r.ch] /\ Go(q, "based") /\ head' = DigitsOf[r.ch]
    <2>1. r.ch # EOF
        BY <1>7, DigitsInText
    <2>2. mode' = "based" /\ in' = q /\ At(in)' = a + 2 /\ out' = out
        BY <2>1, <1>6, <1>7 DEF Go, At
    <2>3. a + 2 >= a + 2 /\ (\A i \in a + 2 .. (a + 2) - 1 : FALSE) /\ a <= a + 2
        BY <1>5
    <2>4. BasedRead'
        BY <2>1, <2>2, <2>3, <1>2, <1>5, <1>6, <1>7 DEF BasedRead, Char
    <2>5. Reading'
        BY <2>2, <2>3, <2>4, <1>2, <1>5 DEF Reading, Literals
    <2> QED BY <2>2, <2>5, <1>2, <1>3, <1>4, <1>5, StartKept DEF Literals
<1>8. CASE r.ch \in DOMAIN DigitsOf /\ q.ch \notin DigitsOf[r.ch] /\ Refuse(q)
    <2>1. r.ch # EOF
        BY <1>8, DigitsInText
    <2>2. mode' = "error" /\ in' = q /\ At(in)' = a + 2 /\ out' = out
        BY <2>1, <1>6, <1>8 DEF Refuse, At
    <2>3. a + 1 \in Nat /\ a + 1 > a /\ a + 1 + 1 = a + 2 /\ a + 2 \in Nat /\ a + 2 > 0
        BY <1>5
    <2>4. \A l \in Nat : l > a + 1 => ~AnyLexeme(Slice(a, l))
        BY <2>1, <2>3, <1>5, <1>6, <1>8, BasedLongest
    <2>5. \A j \in Nat : j >= (a + 2) - 1 => ~AnyLexeme(Slice(a, j))
        <3>1. ~AnyLexeme(Slice(a, a + 1))
            BY <1>5, <1>6, <1>8, BaseAlone
        <3>2. \A j \in Nat : j >= (a + 2) - 1 => j > a + 1 \/ j = a + 1
            BY <1>5
        <3> QED BY <3>1, <3>2, <2>4
    <2> QED BY <2>2, <2>3, <2>5, <1>2, <1>5, RefusedKept DEF Lexing
<1>9. CASE r.ch \in Dec \cup {"."} /\ Go(r, "digits")
    <2>1. mode' = "digits" /\ in' = r /\ At(in)' = a + 1 /\ out' = out
        BY <1>6, <1>9 DEF Go, At
    <2>2. a < a + 1 /\ (\A i \in a .. (a + 1) - 1 : i = a) /\ a <= a + 1
        BY <1>5
    <2>3. DigitsRead'
        BY <2>1, <2>2, <1>2, <1>4, <1>5, <1>6, <1>9 DEF DigitsRead, Char
    <2>4. Reading'
        BY <2>1, <2>2, <2>3, <1>2, <1>5 DEF Reading, Literals
    <2> QED BY <2>1, <2>4, <1>2, <1>3, <1>4, <1>5, StartKept DEF Literals
<1>10. CASE r.ch \notin DOMAIN DigitsOf /\ r.ch \notin Dec \cup {"."} /\ Return(r, <<"INT">>, At(in))
    <2>1. <<"INT">> \notin LayoutTokens \cup {<<"(">>, <<")">>}
        BY DEF LayoutTokens
    <2>2. out' = Append(out, [tok |-> <<"INT">>, from |-> a, to |-> a, line |-> linenumber]) /\ mode' = "between" /\ At(in)' = a + 1
        BY <2>1, <1>5, <1>6, <1>10, Returned DEF LayoutTokens
    <2>3. inside_couples' = inside_couples + Opening(<<"INT">>)
        BY <2>1, <1>2, <1>3, BracketInt DEF Opening
    <2>4. current_indent' # -1
        <3>1. current_indent \in Nat
            BY <1>2, InSpace DEF Spaces
        <3> QED BY <3>1, <1>2
    <2>5. a >= a /\ \A x \in a .. a : x = a
        BY <1>5
    <2>6. IsInt(Slice(a, a))
        BY <2>5, <1>2, <1>4, <1>5, DecimalIs
    <2>7. Lexeme(<<"INT">>, Slice(a, a))
        BY <2>6 DEF Lexeme
    <2>8. \A l \in Nat : l > a => ~AnyLexeme(Slice(a, l))
        BY <2>5, <1>2, <1>4, <1>5, <1>6, <1>10, DigitsLongest
    <2>9. Word(a, a, <<"INT">>, linenumber)
        BY <2>1, <2>2, <2>3, <2>4, <2>7, <2>8, <1>2, <1>4 DEF Word
    <2> QED BY <2>5, <2>9, <1>5, WordKept DEF Lexing
<1> QED BY <1>2, <1>7, <1>8, <1>9, <1>10

(* Another digit begins a decimal. *)
LEMMA NumberKept ==
    ASSUME Lexing, ~EscapedBackslash, Number
    PROVE  Kept
<1>1. /\ mode = "tokens" /\ in.ch \in Dec \ {"0"} /\ text' = text /\ inside_couples' = inside_couples /\ start' = At(in)
      /\ in' = Nextc(in) /\ mode' = "digits" /\ out' = out
    BY DEF Number, Inline, source, InTokens, Go
<1>2. PICK b, a : AtSpace(b, a)
    BY <1>1, InSpace DEF Spaces
<1>3. in.ch # EOF
    BY <1>1, DigitsInText
<1>4. a \in Nat /\ a > 0 /\ At(in) = a /\ in.ch = Char(a)
    BY <1>2 DEF AtSpace
<1>5. At(in)' = a + 1
    BY <1>1, <1>2, <1>3, ReadsAhead DEF At
<1>6. a < a + 1 /\ (\A i \in a .. (a + 1) - 1 : i = a) /\ a <= a + 1
    BY <1>4
<1>7. DigitsRead'
    BY <1>1, <1>4, <1>5, <1>6 DEF DigitsRead, Char
<1>8. Reading'
    BY <1>1, <1>4, <1>5, <1>6, <1>7 DEF Reading, Literals
<1> QED BY <1>1, <1>2, <1>3, <1>4, <1>8, StartKept DEF Literals

NumberModes == {"based", "digits", "fraction"}

(* Inside of a number, from s on, before a *)
AtNumber(s, a) ==
    /\ s \in Nat /\ s > 0 /\ a \in Nat /\ s <= a /\ start = s /\ At(in) = a /\ in.ch = Char(a) /\ text \in Texts
    /\ in.ch # EOF => At(Nextc(in)) = a + 1

(* What is said inside of a number. *)
LEMMA InNumber ==
    ASSUME Lexing, ~EscapedBackslash, mode \in NumberModes
    PROVE  (\E s, a : AtNumber(s, a)) /\ Reading /\ mode \in Literals
<1>1. mode \in Literals /\ mode \notin {"head", "name", "string", "between"}
    BY DEF NumberModes, Literals
<1>2. PICK b, s : AtLiteral(b, s)
    BY <1>1, InLiteral
<1>3. text \in Texts /\ start = s /\ s \in Nat /\ s > 0 /\ s <= At(in) /\ Reading
    BY <1>2 DEF AtLiteral
<1>4. Plain(in)
    BY <1>1 DEF Lexing, ReaderInv
<1>5. PICK a : a = At(in)
    OBVIOUS
<1>6. a \in Nat /\ in.ch = Char(a)
    BY <1>4, <1>5, AtPlain
<1>7. in.ch # EOF => At(Nextc(in)) = a + 1
    BY <1>3, <1>4, <1>5, GoesForward DEF Forward
<1>8. AtNumber(s, a)
    BY <1>3, <1>5, <1>6, <1>7 DEF AtNumber
<1> QED BY <1>1, <1>3, <1>8

(* A digit more. *)
LEMMA DigitKept ==
    ASSUME Lexing, ~EscapedBackslash, Digit
    PROVE  Kept
<1>1. /\ mode \in NumberModes /\ mode' = mode /\ in' = Nextc(in) /\ text' = text /\ inside_couples' = inside_couples
      /\ out' = out /\ start' = start /\ head' = head
      /\ (mode = "based" /\ in.ch \in head) \/ (mode \in {"digits", "fraction"} /\ in.ch \in Dec)
    BY DEF Digit, Inline, source, Go, NumberModes
<1>2. Reading /\ mode \in Literals
    BY <1>1, InNumber
<1>3. PICK s, a : AtNumber(s, a)
    BY <1>1, InNumber
<1>4. s \in Nat /\ s > 0 /\ a \in Nat /\ s <= a /\ start = s /\ At(in) = a /\ in.ch = Char(a)
    BY <1>3 DEF AtNumber
<1>5. in.ch # EOF
    <2>1. CASE mode = "based"
        BY <2>1, <1>1, <1>2, DigitsInText DEF Reading, BasedRead
    <2>2. CASE in.ch \in Dec
        BY <2>2, DigitsInText
    <2> QED BY <2>1, <2>2, <1>1
<1>6. At(in)' = a + 1
    BY <1>1, <1>3, <1>5 DEF AtNumber, At
<1>7. \A i : Char(i)' = Char(i)
    BY <1>1 DEF Char
<1>8. s <= a + 1 /\ \A i : i \in s .. (a + 1) - 1 => i \in s .. a - 1 \/ i = a
    BY <1>4
<1>9. CASE mode = "based"
    <2>1. /\ a >= s + 2 /\ Char(s) = "0" /\ Char(s + 1) \in DOMAIN DigitsOf
          /\ head = DigitsOf[Char(s + 1)] /\ Char(s + 2) \in head
          /\ \A i \in s + 2 .. a - 1 : Char(i) \in head
        BY <1>2, <1>4, <1>9 DEF Reading, BasedRead
    <2>2. a + 1 >= s + 2 /\ \A i : i \in s + 2 .. (a + 1) - 1 => i \in s + 2 .. a - 1 \/ i = a
        BY <2>1, <1>4
    <2>3. Char(a) \in head
        BY <1>1, <1>4, <1>9
    <2>4. BasedRead'
        BY <2>1, <2>2, <2>3, <1>1, <1>4, <1>6 DEF BasedRead, Char
    <2>5. Reading'
        BY <2>4, <1>1, <1>4, <1>6, <1>8, <1>9 DEF Reading, Literals
    <2> QED BY <2>5, <1>1, <1>2, GoOnKept
<1>10. CASE mode = "digits"
    <2>1. s < a /\ (\A i \in s .. a - 1 : Char(i) \in Dec) /\ (Char(s) = "0" => Char(s + 1) \in Dec \cup {"."})
        BY <1>2, <1>4, <1>10 DEF Reading, DigitsRead
    <2>2. s < a + 1
        BY <2>1, <1>4
    <2>3. Char(a) \in Dec
        BY <1>1, <1>4, <1>10
    <2>4. DigitsRead'
        BY <2>1, <2>2, <2>3, <1>1, <1>4, <1>6, <1>8 DEF DigitsRead, Char
    <2>5. Reading'
        BY <2>4, <1>1, <1>4, <1>6, <1>8, <1>10 DEF Reading, Literals
    <2> QED BY <2>5, <1>1, <1>2, GoOnKept
<1>11. CASE mode = "fraction"
    <2>1. PICK p \in s + 1 .. a - 1 : Char(p) = "." /\ \A i \in s .. a - 1 : i # p => Char(i) \in Dec
        BY <1>2, <1>4, <1>11 DEF Reading, FractionRead
    <2>2. p \in s + 1 .. (a + 1) - 1
        BY <2>1, <1>4
    <2>3. Char(a) \in Dec
        BY <1>1, <1>4, <1>11
    <2>4. FractionRead'
        BY <2>1, <2>2, <2>3, <1>1, <1>4, <1>6, <1>8 DEF FractionRead, Char
    <2>5. Reading'
        BY <2>4, <1>1, <1>4, <1>6, <1>8, <1>11 DEF Reading, Literals
    <2> QED BY <2>5, <1>1, <1>2, GoOnKept
<1> QED BY <1>1, <1>9, <1>10, <1>11 DEF NumberModes

(* The point makes it a float. *)
LEMMA PointKept ==
    ASSUME Lexing, ~EscapedBackslash, Point
    PROVE  Kept
<1>1. /\ mode = "digits" /\ mode' = "fraction" /\ in' = Nextc(in) /\ text' = text /\ inside_couples' = inside_couples
      /\ out' = out /\ start' = start /\ in.ch = "."
    BY DEF Point, Inline, source, Go
<1>2. Reading /\ mode \in Literals
    BY <1>1, InNumber DEF NumberModes
<1>3. PICK s, a : AtNumber(s, a)
    BY <1>1, InNumber DEF NumberModes
<1>4. s \in Nat /\ s > 0 /\ a \in Nat /\ s <= a /\ start = s /\ At(in) = a /\ in.ch = Char(a)
    BY <1>3 DEF AtNumber
<1>5. At(in)' = a + 1
    BY <1>1, <1>3, DigitsInText DEF AtNumber, At
<1>6. s < a /\ \A i \in s .. a - 1 : Char(i) \in Dec
    BY <1>1, <1>2, <1>4 DEF Reading, DigitsRead
<1>7. a \in s + 1 .. (a + 1) - 1 /\ s <= a + 1 /\ \A i : i \in s .. (a + 1) - 1 => i \in s .. a - 1 \/ i = a
    BY <1>4, <1>6
<1>8. FractionRead'
    BY <1>1, <1>4, <1>5, <1>6, <1>7 DEF FractionRead, Char
<1>9. Reading'
    BY <1>1, <1>4, <1>5, <1>7, <1>8 DEF Reading, Literals
<1> QED BY <1>1, <1>2, <1>9, GoOnKept DEF Literals

(* The number ends: it is an int or a float, and the longest there. *)
LEMMA NumberEndsKept ==
    ASSUME Lexing, ~EscapedBackslash, NumberEnds
    PROVE  Kept
<1>1. PICK tok : tok = IF mode = "fraction" THEN <<"FLOAT">> ELSE <<"INT">>
    OBVIOUS
<1>2. /\ mode \in NumberModes /\ text' = text /\ inside_couples' = inside_couples /\ current_indent' = current_indent
      /\ Return(in, tok, start)
      /\ mode = "based" => in.ch \notin head
      /\ mode = "digits" => in.ch \notin Dec \cup {"."}
      /\ mode = "fraction" => in.ch \notin Dec
    BY <1>1 DEF NumberEnds, Inline, source, layout, NumberModes
<1>3. Reading /\ mode \in Literals
    BY <1>2, InNumber
<1>4. PICK s, a : AtNumber(s, a)
    BY <1>2, InNumber
<1>5. s \in Nat /\ s > 0 /\ a \in Nat /\ s <= a /\ start = s /\ At(in) = a /\ in.ch = Char(a) /\ text \in Texts
    BY <1>4 DEF AtNumber
<1>6. PICK t : t = a - 1
    OBVIOUS
<1>7. tok \notin LayoutTokens \cup {<<"(">>, <<")">>}
    BY <1>1 DEF LayoutTokens
<1>8. t >= s /\ t \in Nat /\ a = t + 1 /\ Lexeme(tok, Slice(s, t)) /\ \A l \in Nat : l > t => ~AnyLexeme(Slice(s, l))
    <2>1. CASE mode = "based"
        <3>1. /\ a >= s + 2 /\ Char(s) = "0" /\ Char(s + 1) \in DOMAIN DigitsOf
              /\ head = DigitsOf[Char(s + 1)] /\ Char(s + 2) \in head
              /\ \A i \in s + 2 .. a - 1 : Char(i) \in head
            BY <1>3, <1>5, <2>1 DEF Reading, BasedRead
        <3>2. a # s + 2
            BY <3>1, <2>1, <1>2, <1>5
        <3>3. t > s + 1 /\ t > s /\ t >= s /\ t \in Nat /\ a = t + 1 /\ \A x \in s + 2 .. t : Char(x) \in DigitsOf[Char(s + 1)]
            BY <3>1, <3>2, <1>5, <1>6
        <3>4. IsInt(Slice(s, t))
            BY <3>1, <3>3, <1>5, BasedIs
        <3>5. Char(t + 1) \notin DigitsOf[Char(s + 1)]
            BY <3>1, <3>3, <2>1, <1>2, <1>5
        <3>6. \A l \in Nat : l > t => ~AnyLexeme(Slice(s, l))
            BY <3>1, <3>3, <3>5, <1>5, BasedLongest
        <3>7. tok = <<"INT">>
            BY <2>1, <1>1
        <3> QED BY <3>3, <3>4, <3>6, <3>7 DEF Lexeme
    <2>2. CASE mode = "digits"
        <3>1. s < a /\ (\A i \in s .. a - 1 : Char(i) \in Dec) /\ (Char(s) = "0" => Char(s + 1) \in Dec \cup {"."})
            BY <1>3, <1>5, <2>2 DEF Reading, DigitsRead
        <3>2. t >= s /\ t \in Nat /\ a = t + 1 /\ (\A x \in s .. t : Char(x) \in Dec) /\ Char(t + 1) \notin Dec \cup {"."}
            BY <3>1, <2>2, <1>2, <1>5, <1>6
        <3>3. t = s /\ Char(s) = "0" => Char(s + 1) \notin DOMAIN DigitsOf
            BY <3>1, <3>2
        <3>4. IsInt(Slice(s, t))
            BY <3>2, <1>5, DecimalIs
        <3>5. \A l \in Nat : l > t => ~AnyLexeme(Slice(s, l))
            BY <3>2, <3>3, <1>5, DigitsLongest
        <3>6. tok = <<"INT">>
            BY <2>2, <1>1
        <3> QED BY <3>2, <3>4, <3>5, <3>6 DEF Lexeme
    <2>3. CASE mode = "fraction"
        <3>1. PICK p \in s + 1 .. a - 1 : Char(p) = "." /\ \A i \in s .. a - 1 : i # p => Char(i) \in Dec
            BY <1>3, <1>5, <2>3 DEF Reading, FractionRead
        <3>2. t >= s /\ t \in Nat /\ a = t + 1 /\ p \in s + 1 .. t /\ (\A x \in s .. t : x # p => Char(x) \in Dec) /\ Char(t + 1) \notin Dec
            BY <3>1, <2>3, <1>2, <1>5, <1>6
        <3>3. IsFloat(Slice(s, t))
            BY <3>1, <3>2, <1>5, FloatIs
        <3>4. \A l \in Nat : l > t => ~AnyLexeme(Slice(s, l))
            BY <3>1, <3>2, <1>5, FloatLongest
        <3>5. tok = <<"FLOAT">>
            BY <2>3, <1>1
        <3> QED BY <3>2, <3>3, <3>4, <3>5 DEF Lexeme
    <2> QED BY <2>1, <2>2, <2>3, <1>2 DEF NumberModes
<1> QED BY <1>2, <1>3, <1>5, <1>7, <1>8, LiteralKept

-----------------------------------------------------------------------------
(* Readers that look ahead *)
(* Readers that replay or record go forward too. *)
LEMMA PlainReplays ==
    ASSUME NEW r, Plain(r)
    PROVE  Replaying(r)
<1>1. r \in Readers /\ r.upto > 0 /\ ~r.on /\ Len(r.buf) = 0 /\ r.ch = Char(r.upto) /\ r.upto \in Nat
    BY DEF Plain, Readers
<1>2. r.upto - Len(r.buf) = r.upto /\ \A k \in 1 .. Len(r.buf) : FALSE
    BY <1>1
<1> QED BY <1>1, <1>2 DEF Replaying, Recorded

(* Where a reader is that replays. *)
LEMMA AtReplaying ==
    ASSUME NEW r, Replaying(r)
    PROVE  At(r) \in Int /\ r.ch = Char(At(r)) /\ At(r) = r.upto - Len(r.buf)
<1>1. r.upto \in Nat /\ r.buf \in Seq(Symbols) /\ ~r.on /\ r.ch = Char(r.upto - Len(r.buf))
    BY DEF Replaying, Recorded, Readers
<1> QED BY <1>1 DEF At

(* It goes forward by one, too, whether the character is new or recorded. *)
LEMMA GoesOn ==
    ASSUME text \in Texts, NEW r, Replaying(r), r.ch # EOF
    PROVE  At(Nextc(r)) = At(r) + 1 /\ Nextc(r).ch = Char(At(r) + 1)
<1>1. r \in Readers /\ r.upto \in Nat /\ r.buf \in Seq(Symbols) /\ ~r.on
    BY DEF Replaying, Recorded, Readers
<1>2. PICK m : m = Len(r.buf)
    OBVIOUS
<1>3. m \in Nat /\ (m = 0 <=> r.buf = <<>>)
    BY <1>1, <1>2
<1>4. CASE m = 0
    <2>1. Plain(r)
        BY <1>2, <1>4, ReplayedAll
    <2> QED BY <2>1, GoesForward DEF Forward
<1>5. CASE m # 0
    <2>1. r.buf # <<>>
        BY <1>3, <1>5
    <2>2. PICK d : d = Nextc(r)
        OBVIOUS
    <2>3. Replaying(d) /\ Len(d.buf) = m - 1
        BY <2>1, <2>2, <1>1, <1>2, NextReplays DEF Replaying, Replayed
    <2>4. d.upto = r.upto
        <3>1. d = [r EXCEPT !.ch = Head(r.buf), !.buf = Tail(r.buf)]
            BY <2>1, <2>2, <1>1 DEF Nextc
        <3> QED BY <3>1, <1>1 DEF Readers
    <2>5. At(d) = r.upto - (m - 1) /\ d.ch = Char(At(d)) /\ At(r) = r.upto - m
        BY <2>3, <2>4, <1>2, AtReplaying
    <2>6. At(d) = At(r) + 1
        BY <2>5, <1>1, <1>3
    <2> QED BY <2>2, <2>5, <2>6
<1> QED BY <1>4, <1>5

(* So does one that records. *)
LEMMA GoesRecording ==
    ASSUME text \in Texts, NEW r, Recording(r), NEW d, d = Nextc(r)
    PROVE  /\ At(r) = r.upto /\ At(r) \in Nat /\ r.ch = Char(At(r))
           /\ Recording(d) /\ At(d) = At(r) + 1 /\ d.ch = Char(At(r) + 1)
           /\ Len(d.buf) = Len(r.buf) + 1 /\ Len(r.buf) \in Nat
<1>1. r \in Readers /\ r.on /\ r.upto \in Nat /\ r.buf \in Seq(Symbols) /\ r.ch = Char(r.upto)
    BY DEF Recording, Recorded, Readers
<1>2. At(r) = r.upto
    BY <1>1 DEF At
<1>3. Recording(d) /\ Len(d.buf) = Len(r.buf) + 1
    BY NextRecording DEF LongerRecord
<1>4. d.on /\ d.ch = Char(d.upto)
    BY <1>3 DEF Recording
<1>5. d.upto = r.upto + 1
    <2>1. PICK q : q = Read(r)
        OBVIOUS
    <2>2. q \in Readers /\ q.upto = r.upto + 1
        BY <2>1, <1>1, ReadIs DEF IsRead
    <2>3. d = [q EXCEPT !.buf = Append(q.buf, q.ch)]
        <3>1. Nextc(r) = [Read(r) EXCEPT !.buf = Append(@, Read(r).ch)]
            BY <1>1 DEF Nextc
        <3> QED BY <2>1, <3>1
    <2> QED BY <2>2, <2>3 DEF Readers
<1> QED BY <1>1, <1>2, <1>3, <1>4, <1>5 DEF At

(* Where reading again begins *)
LEMMA GoesBack ==
    ASSUME NEW r, Recording(r), NEW n \in Nat, Len(r.buf) = n + 1
    PROVE  At(RecordOff(r)) = At(r) - n
<1>1. r \in Readers /\ r.on /\ r.upto \in Nat /\ r.buf \in Seq(Symbols) /\ r.buf # <<>>
    BY DEF Recording, Recorded, Readers
<1>2. PICK d, s : d = RecordOff(r) /\ s = [r EXCEPT !.on = FALSE]
    OBVIOUS
<1>3. Replaying(d) /\ Len(d.buf) = Len(r.buf) - 1
    BY <1>1, <1>2, RecordEnds DEF Replayed
<1>4. Len(d.buf) = n
    BY <1>3
<1>5. ~s.on /\ s.buf = r.buf /\ s.upto = r.upto /\ s \in Readers
    BY <1>1, <1>2 DEF Readers
<1>6. d = Nextc(s)
    BY <1>1, <1>2, <1>5 DEF RecordOff
<1>7. d.upto = r.upto
    <2>1. d = [s EXCEPT !.ch = Head(s.buf), !.buf = Tail(s.buf)]
        BY <1>1, <1>5, <1>6 DEF Nextc
    <2> QED BY <2>1, <1>5 DEF Readers
<1>8. At(d) = r.upto - n
    BY <1>3, <1>4, <1>7, AtReplaying
<1> QED BY <1>1, <1>2, <1>8 DEF At

-----------------------------------------------------------------------------
(* Escapes in a literal *)
(* What one more character does *)
Adds(s, c, t) ==
    /\ EndsB(t) <=> c = "\\"
    /\ EndsX(t) <=> c = "x" /\ EndsB(s)
    /\ EndsH(t) <=> c \in Hex /\ EndsX(s)
    /\ Broken(t) <=> Broken(s) \/ (c \notin Hex /\ (EndsX(s) \/ EndsH(s)))
    /\ Twofold(t) <=> Twofold(s) \/ (c = "\\" /\ EndsB(s))

(* One more character ends an escape, goes on with it or begins one. *)
LEMMA EscapesGrow ==
    ASSUME NEW S, NEW s \in Seq(S), NEW c \in S, NEW t, t = Append(s, c)
    PROVE  t \in Seq(S) /\ Adds(s, c, t)
<1>1. PICK n : n = Len(s)
    OBVIOUS
<1>2. n \in Nat /\ t \in Seq(S) /\ Len(t) = n + 1 /\ t[n + 1] = c /\ \A k \in 1 .. n : t[k] = s[k]
    BY <1>1, AppendProperties
<1>3. /\ n > 0 => t[n] = s[n]
      /\ n > 1 => t[n - 1] = s[n - 1]
      /\ (n + 1) - 1 = n /\ (n + 1) - 2 = n - 1
    BY <1>2
<1>4. EndsB(t) <=> c = "\\"
    BY <1>2 DEF EndsB
<1>5. EndsX(t) <=> c = "x" /\ EndsB(s)
    BY <1>1, <1>2, <1>3 DEF EndsX, EndsB
<1>6. EndsH(t) <=> c \in Hex /\ EndsX(s)
    BY <1>1, <1>2, <1>3 DEF EndsH, EndsX
<1>7. Twofold(t) <=> Twofold(s) \/ (c = "\\" /\ EndsB(s))
    <2>1. Twofold(s) <=> \E i \in 1 .. n - 1 : t[i] = "\\" /\ t[i + 1] = "\\"
        BY <1>1, <1>2 DEF Twofold
    <2>2. Twofold(t) <=> \E i \in 1 .. n : t[i] = "\\" /\ t[i + 1] = "\\"
        BY <1>2, <1>3 DEF Twofold
    <2>3. EndsB(s) <=> n > 0 /\ t[n] = "\\"
        BY <1>1, <1>3 DEF EndsB
    <2>4. \A i : i \in 1 .. n <=> i \in 1 .. n - 1 \/ (i = n /\ n > 0)
        BY <1>2
    <2> QED BY <2>1, <2>2, <2>3, <2>4, <1>2
<1>8. Broken(t) <=> Broken(s) \/ (c \notin Hex /\ (EndsX(s) \/ EndsH(s)))
    <2> DEFINE From(i, m) == t[i] = "\\" /\ t[i + 1] = "x" /\ (t[i + 2] \notin Hex \/ (i + 3 <= m /\ t[i + 3] \notin Hex))
    <2>1. Broken(s) <=> \E i \in 1 .. n - 2 : From(i, n)
        <3>1. \A i \in 1 .. n - 2 : t[i] = s[i] /\ t[i + 1] = s[i + 1] /\ t[i + 2] = s[i + 2] /\ (i + 3 <= n => t[i + 3] = s[i + 3])
            <4>1. \A i \in 1 .. n - 2 : i \in 1 .. n /\ i + 1 \in 1 .. n /\ i + 2 \in 1 .. n /\ (i + 3 <= n => i + 3 \in 1 .. n)
                BY <1>2
            <4> QED BY <4>1, <1>2
        <3>2. Broken(s) <=> \E i \in 1 .. n - 2 :
                 s[i] = "\\" /\ s[i + 1] = "x" /\ (s[i + 2] \notin Hex \/ (i + 3 <= n /\ s[i + 3] \notin Hex))
            BY <1>1 DEF Broken
        <3> QED BY <3>1, <3>2
    <2>2. Broken(t) <=> \E i \in 1 .. n - 1 : From(i, n + 1)
        <3>1. PICK m : m = n + 1 /\ m - 2 = n - 1
            BY <1>3
        <3>2. Broken(t) <=> \E i \in 1 .. m - 2 :
                 t[i] = "\\" /\ t[i + 1] = "x" /\ (t[i + 2] \notin Hex \/ (i + 3 <= m /\ t[i + 3] \notin Hex))
            BY <3>1, <1>2 DEF Broken
        <3> QED BY <3>1, <3>2
    <2>3. n > 1 => (From(n - 1, n + 1) <=> EndsX(s) /\ c \notin Hex)
        <3> SUFFICES ASSUME n > 1 PROVE From(n - 1, n + 1) <=> EndsX(s) /\ c \notin Hex
            OBVIOUS
        <3>1. PICK i, m : i = n - 1 /\ m = n + 1
            OBVIOUS
        <3>2. i + 1 = n /\ i + 2 = m /\ ~(i + 3 <= m)
            BY <3>1, <1>2
        <3>3. EndsX(s) <=> t[i] = "\\" /\ t[n] = "x"
            BY <3>1, <1>1, <1>3 DEF EndsX
        <3>4. From(i, m) <=> t[i] = "\\" /\ t[n] = "x" /\ c \notin Hex
            BY <3>1, <3>2, <1>2
        <3> QED BY <3>1, <3>3, <3>4
    <2>4. n > 2 => (From(n - 2, n + 1) <=> From(n - 2, n) \/ (EndsH(s) /\ c \notin Hex))
        <3> SUFFICES ASSUME n > 2 PROVE From(n - 2, n + 1) <=> From(n - 2, n) \/ (EndsH(s) /\ c \notin Hex)
            OBVIOUS
        <3>1. PICK i, l, m : i = n - 2 /\ l = n - 1 /\ m = n + 1
            OBVIOUS
        <3>2. i + 1 = l /\ i + 2 = n /\ i + 3 = m /\ ~(m <= n) /\ m <= m /\ i \in 1 .. n
            BY <3>1, <1>2
        <3>3. EndsH(s) <=> t[i] = "\\" /\ t[l] = "x" /\ t[n] \in Hex
            BY <3>1, <3>2, <1>1, <1>2, <1>3 DEF EndsH
        <3>4. From(i, n) <=> t[i] = "\\" /\ t[l] = "x" /\ t[n] \notin Hex
            BY <3>2
        <3>5. From(i, m) <=> t[i] = "\\" /\ t[l] = "x" /\ (t[n] \notin Hex \/ c \notin Hex)
            BY <3>1, <3>2, <1>2
        <3> QED BY <3>1, <3>3, <3>4, <3>5
    <2>5. \A i \in 1 .. n - 3 : From(i, n + 1) <=> From(i, n)
        BY <1>2
    <2>6. /\ \A i : i \in 1 .. n - 1 <=> i \in 1 .. n - 2 \/ (i = n - 1 /\ n > 1)
          /\ \A i : i \in 1 .. n - 2 <=> i \in 1 .. n - 3 \/ (i = n - 2 /\ n > 2)
        BY <1>2
    <2>7. (EndsX(s) => n > 1) /\ (EndsH(s) => n > 2)
        BY <1>1 DEF EndsX, EndsH
    <2> HIDE DEF From
    <2> QED BY <2>1, <2>2, <2>3, <2>4, <2>5, <2>6, <2>7
<1> QED BY <1>2, <1>4, <1>5, <1>6, <1>7, <1>8 DEF Adds

(* The same character does the same to both. *)
LEMMA SameGrow ==
    ASSUME NEW S, NEW s \in Seq(S), NEW t \in Seq(S), SameEscapes(s, t), NEW c \in S, NEW d \in S,
           c = d \/ {c, d} \cap ({"\\", "x"} \cup Hex) = {}
    PROVE  SameEscapes(Append(s, c), Append(t, d))
<1>1. Adds(s, c, Append(s, c)) /\ Adds(t, d, Append(t, d))
    BY EscapesGrow
<1> QED BY <1>1 DEF Adds, SameEscapes

(* Without a backslash there is no escape. *)
LEMMA NoEscapes ==
    ASSUME NEW S, NEW s \in Seq(S), \A k \in 1 .. Len(s) : s[k] # "\\"
    PROVE  SameEscapes(<<>>, s)
<1>1. PICK n : n = Len(s) /\ n \in Nat
    OBVIOUS
<1>2. ~EndsB(s) /\ ~EndsX(s) /\ ~EndsH(s) /\ ~Broken(s) /\ ~Twofold(s)
    <2>1. (n > 0 => n \in 1 .. n) /\ (n > 1 => n - 1 \in 1 .. n) /\ (n > 2 => n - 2 \in 1 .. n)
        BY <1>1
    <2>2. (\A i \in 1 .. n - 1 : i \in 1 .. n) /\ (\A i \in 1 .. n - 2 : i \in 1 .. n)
        BY <1>1
    <2> QED BY <2>1, <2>2, <1>1 DEF EndsB, EndsX, EndsH, Broken, Twofold
<1>3. PICK e : e = <<>>
    OBVIOUS
<1>4. Len(e) = 0
    BY <1>3
<1>5. ~EndsB(e) /\ ~EndsX(e) /\ ~EndsH(e) /\ ~Broken(e) /\ ~Twofold(e)
    BY <1>4 DEF EndsB, EndsX, EndsH, Broken, Twofold
<1> QED BY <1>2, <1>3, <1>5 DEF SameEscapes

(* Where no backslash is escaped, an escape without a value is broken or not finished. *)
LEMMA BadIs ==
    ASSUME NEW S, NEW s \in Seq(S), ~Twofold(s)
    PROVE  BadEscape(s) <=> Broken(s) \/ EndsX(s) \/ EndsH(s)
<1>1. PICK n : n = Len(s) /\ n \in Nat
    OBVIOUS
<1>2. ASSUME NEW i \in 1 .. n - 1, s[i] = "\\" PROVE ~Escaped(s, i)
    <2> SUFFICES ASSUME Escaped(s, i) PROVE FALSE
        OBVIOUS
    <2>1. PICK j \in 1 .. i - 1 : \A k \in j .. i - 1 : s[k] = "\\"
        BY DEF Escaped
    <2>2. i - 1 \in j .. i - 1 /\ i - 1 \in 1 .. n - 1 /\ (i - 1) + 1 = i
        BY <1>1, <1>2
    <2> QED BY <2>1, <2>2, <1>1, <1>2 DEF Twofold
<1>3. BadEscape(s) <=> \E i \in 1 .. n - 1 : s[i] = "\\" /\ s[i + 1] = "x" /\ ~(i + 3 <= n /\ s[i + 2] \in Hex /\ s[i + 3] \in Hex)
    BY <1>1, <1>2 DEF BadEscape
<1>4. ASSUME NEW i \in 1 .. n - 1, s[i] = "\\", s[i + 1] = "x", ~(i + 3 <= n /\ s[i + 2] \in Hex /\ s[i + 3] \in Hex)
      PROVE  Broken(s) \/ EndsX(s) \/ EndsH(s)
    <2>1. i = n - 1 \/ i = n - 2 \/ i + 3 <= n
        BY <1>1
    <2>2. CASE i = n - 1
        <3>1. i + 1 = n /\ n > 1
            BY <2>2, <1>1
        <3> QED BY <3>1, <2>2, <1>1, <1>4 DEF EndsX
    <2>3. CASE i = n - 2
        <3>1. i + 1 = n - 1 /\ i + 2 = n /\ n > 2 /\ i \in 1 .. n - 2
            BY <2>3, <1>1
        <3> QED BY <3>1, <2>3, <1>1, <1>4 DEF EndsH, Broken
    <2>4. CASE i + 3 <= n
        <3>1. i \in 1 .. n - 2
            BY <2>4, <1>1
        <3> QED BY <3>1, <2>4, <1>1, <1>4 DEF Broken
    <2> QED BY <2>1, <2>2, <2>3, <2>4
<1>5. Broken(s) => BadEscape(s)
    <2>1. \A i \in 1 .. n - 2 : i \in 1 .. n - 1
        BY <1>1
    <2> QED BY <2>1, <1>1, <1>3 DEF Broken
<1>6. EndsX(s) => BadEscape(s)
    <2>1. n > 1 => n - 1 \in 1 .. n - 1 /\ (n - 1) + 1 = n /\ ~((n - 1) + 3 <= n)
        BY <1>1
    <2> QED BY <2>1, <1>1, <1>3 DEF EndsX
<1>7. EndsH(s) => BadEscape(s)
    <2>1. n > 2 => n - 2 \in 1 .. n - 1 /\ (n - 2) + 1 = n - 1 /\ ~((n - 2) + 3 <= n)
        BY <1>1
    <2> QED BY <2>1, <1>1, <1>3 DEF EndsH
<1> QED BY <1>3, <1>4, <1>5, <1>6, <1>7

(* The signs behind an escape neither mend it nor break it. *)
LEMMA BadEnds ==
    ASSUME NEW S, NEW s \in Seq(S), ~Twofold(s), NEW c \in S, c \notin {"\\", "x"} \cup Hex
    PROVE  ~Twofold(Append(s, c)) /\ (BadEscape(Append(s, c)) <=> BadEscape(s))
<1>1. PICK t : t = Append(s, c)
    OBVIOUS
<1>2. t \in Seq(S) /\ Adds(s, c, t)
    BY <1>1, EscapesGrow
<1>3. ~Twofold(t)
    BY <1>2 DEF Adds
<1>4. BadEscape(t) <=> Broken(t) \/ EndsX(t) \/ EndsH(t)
    BY <1>2, <1>3, BadIs
<1>5. BadEscape(s) <=> Broken(s) \/ EndsX(s) \/ EndsH(s)
    BY BadIs
<1> QED BY <1>1, <1>2, <1>3, <1>4, <1>5 DEF Adds

(* Slices hold what str may hold. *)
LEMMA SliceHeld ==
    ASSUME text \in Texts, NEW i \in Nat, i > 0, NEW j \in Nat, j >= i - 1
    PROVE  Slice(i, j) \in Seq(Held) /\ Len(Slice(i, j)) = j - i + 1 /\ \A k \in 1 .. j - i + 1 : Slice(i, j)[k] = Char(i + k - 1)
<1>1. PICK s : s = Slice(i, j)
    OBVIOUS
<1>2. s \in Seq(Symbols) /\ Len(s) = j - i + 1 /\ \A k \in 1 .. j - i + 1 : s[k] = Char(i + k - 1)
    BY <1>1, SliceIs
<1>3. Symbols \subseteq Held
    BY DEF Held
<1>4. s \in Seq(Held)
    BY <1>2, <1>3
<1> QED BY <1>1, <1>2, <1>4

(* A slice has no escaped backslash where the text has none. *)
LEMMA NotTwofold ==
    ASSUME text \in Texts, ~EscapedBackslash, NEW i \in Nat, i > 0, NEW j \in Nat, j >= i - 1
    PROVE  ~Twofold(Slice(i, j))
<1>1. PICK s, n : s = Slice(i, j) /\ n = j - i + 1
    OBVIOUS
<1>2. Len(s) = n /\ n \in Nat /\ \A k \in 1 .. n : s[k] = Char(i + k - 1)
    <2>1. n \in Nat
        BY <1>1
    <2> QED BY <2>1, <1>1, SliceHeld
<1> SUFFICES ASSUME NEW k \in 1 .. n - 1, s[k] = "\\", s[k + 1] = "\\" PROVE FALSE
    BY <1>1, <1>2 DEF Twofold
<1>3. PICK x : x = i + k - 1
    OBVIOUS
<1>4. x \in Nat /\ x > 0 /\ x + 1 \in Nat /\ x + 1 > 0 /\ k \in 1 .. n /\ k + 1 \in 1 .. n /\ i + (k + 1) - 1 = x + 1
    BY <1>2, <1>3
<1>5. Char(x) = "\\" /\ Char(x + 1) = "\\" /\ "\\" # EOF
    BY <1>2, <1>3, <1>4, EndIsNoCharacter DEF Signs
<1>6. x \in 1 .. Len(text) /\ text[x] = "\\" /\ x + 1 \in 1 .. Len(text) /\ text[x + 1] = "\\"
    BY <1>4, <1>5, CharText
<1>7. x \in 1 .. Len(text) - 1
    BY <1>4, <1>6
<1> QED BY <1>6, <1>7 DEF EscapedBackslash

Plainly == {"\\", "x"} \cup Hex

(* The value grows with the text, by the same character or by one that means as little. *)
LEMMA ValueGrows ==
    ASSUME text \in Texts, NEW s \in Nat, s > 0, NEW z \in Nat, z >= s, NEW v, ValueAt(v, s, z),
           NEW c, c \in Held, c = Char(z) \/ {c, Char(z)} \cap Plainly = {}
    PROVE  ValueAt(Append(v, c), s, z + 1)
<1>1. PICK w, d, y : w = Slice(s, z - 1) /\ d = Char(z) /\ y = z - 1
    OBVIOUS
<1>2. y \in Nat /\ y >= s - 1 /\ (z + 1) - 1 = z
    BY <1>1
<1>3. w \in Seq(Held)
    BY <1>1, <1>2, SliceHeld
<1>4. d \in Held
    BY <1>1, CharIs DEF Held
<1>5. v \in Seq(Held) /\ SameEscapes(v, w)
    BY <1>1 DEF ValueAt, ValueOf
<1>6. SameEscapes(Append(v, c), Append(w, d))
    BY <1>1, <1>3, <1>4, <1>5, SameGrow DEF Plainly
<1>7. Slice(s, z) = Append(w, d)
    BY <1>1, SliceGrows
<1>8. Append(v, c) \in Seq(Held)
    BY <1>5, AppendProperties
<1> QED BY <1>2, <1>6, <1>7, <1>8 DEF ValueAt, ValueOf

(* A line end of two characters is one in the value. *)
LEMMA ValueOfTwo ==
    ASSUME text \in Texts, NEW s \in Nat, s > 0, NEW z \in Nat, z >= s, NEW v, ValueAt(v, s, z),
           Char(z) = CR, Char(z + 1) = LF
    PROVE  ValueAt(Append(v, LF), s, z + 2)
<1>1. LF \in Held /\ {LF, CR} \cap Plainly = {}
    BY DEF Held, Plainly, Hex, Dec, LF, CR
<1>2. PICK u, y : u = Append(v, LF) /\ y = z + 1
    OBVIOUS
<1>3. ValueAt(u, s, y)
    BY <1>1, <1>2, ValueGrows
<1>4. y \in Nat /\ y >= s /\ y - 1 = z /\ (z + 2) - 1 = y /\ z >= s - 1 /\ Char(y) = LF
    BY <1>2
<1>5. PICK w, t : w = Slice(s, z) /\ t = Append(w, LF)
    OBVIOUS
<1>6. w \in Seq(Held)
    BY <1>4, <1>5, SliceHeld
<1>7. Adds(w, LF, t)
    BY <1>1, <1>5, <1>6, EscapesGrow
<1>8. Slice(s, y) = t
    BY <1>4, <1>5, SliceGrows
<1>9. u \in Seq(Held) /\ SameEscapes(u, w)
    BY <1>3, <1>4, <1>5 DEF ValueAt, ValueOf
<1>10. ~EndsB(u) /\ ~EndsX(u) /\ ~EndsH(u)
    <2>1. v \in Seq(Held)
        BY DEF ValueAt, ValueOf
    <2>2. Adds(v, LF, u)
        BY <2>1, <1>1, <1>2, EscapesGrow
    <2> QED BY <2>2, <1>1 DEF Adds, Plainly
<1>11. SameEscapes(u, t)
    <2>1. LF # "\\" /\ LF # "x" /\ LF \notin Hex
        BY <1>1 DEF Plainly
    <2> QED BY <2>1, <1>7, <1>9, <1>10 DEF SameEscapes, Adds
<1> QED BY <1>2, <1>4, <1>8, <1>9, <1>11 DEF ValueAt, ValueOf

(* The value is empty before the first character behind the signs. *)
LEMMA ValueStarts ==
    ASSUME text \in Texts, NEW s \in Nat, s > 0, NEW q \in Nat, q >= s, Slice(s, q - 1) \in StringPrefixes,
           NEW z \in Nat, z > q, \A x \in q .. z - 1 : Char(x) \in Quotes
    PROVE  ValueAt(<<>>, s, z)
<1>1. PICK m, y, w : m = q - s /\ y = z - 1 /\ w = Slice(s, y)
    OBVIOUS
<1>2. m \in Nat /\ s + m - 1 = q - 1 /\ y \in Nat /\ y >= s - 1 /\ s + m = q
    BY <1>1
<1>3. \A k \in 0 .. m - 1 : Char(s + k) \in Prefix
    BY <1>2, PrefixChars
<1>4. w \in Seq(Held) /\ Len(w) = y - s + 1 /\ \A k \in 1 .. y - s + 1 : w[k] = Char(s + k - 1)
    BY <1>1, <1>2, SliceHeld
<1>5. "\\" \notin Prefix \cup Quotes
    BY DEF Prefix, Quotes
<1>6. ASSUME NEW k \in 1 .. Len(w) PROVE w[k] # "\\"
    <2>1. PICK x : x = s + k - 1
        OBVIOUS
    <2>2. CASE k <= m
        <3>1. k - 1 \in 0 .. m - 1 /\ s + (k - 1) = x
            BY <2>1, <2>2, <1>2, <1>4, <1>6
        <3>2. Char(x) \in Prefix
            BY <3>1, <1>3
        <3> QED BY <3>2, <2>1, <1>4, <1>5, <1>6
    <2>3. CASE k > m
        <3>1. x \in q .. z - 1
            BY <2>1, <2>3, <1>1, <1>2, <1>4, <1>6
        <3> QED BY <3>1, <2>1, <1>4, <1>5, <1>6
    <2>4. k \in Nat
        BY <1>4
    <2> QED BY <2>2, <2>3, <2>4, <1>2
<1>7. SameEscapes(<<>>, w)
    BY <1>4, <1>6, NoEscapes
<1> QED BY <1>1, <1>7 DEF ValueAt, ValueOf

(* With the signs that end it the literal has the escapes of its value. *)
LEMMA ValueEnds ==
    ASSUME text \in Texts, ~EscapedBackslash, NEW s \in Nat, s > 0, NEW z \in Nat, z >= s, NEW v, ValueAt(v, s, z),
           NEW t, t = z \/ (t = z + 2 /\ Char(z + 1) \in Quotes /\ Char(z + 2) \in Quotes), Char(z) \in Quotes
    PROVE  BadEscape(Slice(s, t)) <=> BadEscape(v)
<1>1. PICK w, y : w = Slice(s, y) /\ y = z - 1
    OBVIOUS
<1>2. /\ y \in Nat /\ y >= s - 1 /\ z >= s - 1 /\ z + 1 \in Nat /\ z + 1 >= s /\ z + 1 >= s - 1 /\ z + 2 \in Nat /\ z + 2 >= s
      /\ (z + 1) - 1 = z /\ (z + 2) - 1 = z + 1
    BY <1>1
<1>4. /\ w \in Seq(Held) /\ Slice(s, z) \in Seq(Held) /\ Slice(s, z + 1) \in Seq(Held)
      /\ ~Twofold(w) /\ ~Twofold(Slice(s, z)) /\ ~Twofold(Slice(s, z + 1))
    BY <1>1, <1>2, SliceHeld, NotTwofold
<1>5. Char(z) \in Held /\ Char(z + 1) \in Held /\ Char(z + 2) \in Held
    BY <1>2, CharIs DEF Held
<1>6. Quotes \cap Plainly = {}
    BY DEF Quotes, Plainly, Hex, Dec
<1>7. BadEscape(v) <=> BadEscape(w)
    <2>1. v \in Seq(Held) /\ SameEscapes(v, w)
        BY <1>1 DEF ValueAt, ValueOf
    <2>2. ~Twofold(v)
        BY <2>1, <1>4 DEF SameEscapes
    <2>3. BadEscape(v) <=> Broken(v) \/ EndsX(v) \/ EndsH(v)
        BY <2>1, <2>2, BadIs
    <2>4. BadEscape(w) <=> Broken(w) \/ EndsX(w) \/ EndsH(w)
        BY <1>4, BadIs
    <2> QED BY <2>1, <2>3, <2>4 DEF SameEscapes
<1>8. BadEscape(Slice(s, z)) <=> BadEscape(w)
    <2>1. Slice(s, z) = Append(w, Char(z))
        BY <1>1, SliceGrows
    <2>2. BadEscape(Append(w, Char(z))) <=> BadEscape(w)
        BY <1>4, <1>5, <1>6, BadEnds DEF Plainly
    <2> QED BY <2>1, <2>2
<1>9. CASE t = z + 2 /\ Char(z + 1) \in Quotes /\ Char(z + 2) \in Quotes
    <2>1. BadEscape(Append(Slice(s, z), Char(z + 1))) <=> BadEscape(Slice(s, z))
        BY <1>4, <1>5, <1>6, <1>9, BadEnds DEF Plainly
    <2>2. Slice(s, z + 1) = Append(Slice(s, z), Char(z + 1))
        BY <1>2, SliceGrows
    <2>3. BadEscape(Append(Slice(s, z + 1), Char(z + 2))) <=> BadEscape(Slice(s, z + 1))
        BY <1>4, <1>5, <1>6, <1>9, BadEnds DEF Plainly
    <2>4. Slice(s, z + 2) = Append(Slice(s, z + 1), Char(z + 2))
        BY <1>2, SliceGrows
    <2> QED BY <2>1, <2>2, <2>3, <2>4, <1>7, <1>8, <1>9
<1> QED BY <1>7, <1>8, <1>9

(* A literal is raw if its prefix says so. *)
LEMMA RawIs ==
    ASSUME text \in Texts, NEW s \in Nat, s > 0, NEW q \in Nat, q >= s, Slice(s, q - 1) \in StringPrefixes,
           Char(q) \in Quotes, NEW t \in Nat, t >= q
    PROVE  IsRaw(Slice(s, t)) <=> "r" \in Range(Slice(s, q - 1))
<1>1. PICK m, n, w, p : m = q - s /\ n = t - s + 1 /\ w = Slice(s, t) /\ p = Slice(s, q - 1)
    OBVIOUS
<1>2. m \in Nat /\ n \in Nat /\ m < n /\ s + m - 1 = q - 1 /\ (q - 1) - s + 1 = m /\ s + m = q /\ s + (m + 1) - 1 = q /\ m + 1 \in 1 .. n
    BY <1>1
<1>3. DOMAIN w = 1 .. n /\ \A k \in 1 .. n : w[k] = Char(s + k - 1)
    BY <1>1 DEF Slice
<1>4. DOMAIN p = 1 .. m /\ \A k \in 1 .. m : p[k] = Char(s + k - 1)
    BY <1>1, <1>2 DEF Slice
<1>5. \A k \in 1 .. m : Char(s + k - 1) \in Prefix
    <2>1. \A k \in 0 .. m - 1 : Char(s + k) \in Prefix
        BY <1>2, PrefixChars
    <2>2. \A k \in 1 .. m : k - 1 \in 0 .. m - 1 /\ s + (k - 1) = s + k - 1
        BY <1>2
    <2> QED BY <2>1, <2>2
<1>6. w[m + 1] \in Quotes /\ "r" \notin Quotes /\ Quotes \cap Prefix = {}
    BY <1>2, <1>3 DEF Quotes, Prefix
<1>7. ASSUME IsRaw(w) PROVE "r" \in Range(p)
    <2>1. PICK i \in 1 .. n : w[i] = "r" /\ \A k \in 1 .. i - 1 : w[k] \notin Quotes
        BY <1>3, <1>7 DEF IsRaw
    <2>2. i \in 1 .. m
        <3>1. m + 1 \notin 1 .. i - 1 /\ i # m + 1
            BY <2>1, <1>6
        <3> QED BY <3>1, <1>2
    <2>3. p[i] = "r"
        BY <2>1, <2>2, <1>3, <1>4
    <2> QED BY <2>2, <2>3, <1>4 DEF Range
<1>8. ASSUME "r" \in Range(p) PROVE IsRaw(w)
    <2>1. PICK i \in 1 .. m : p[i] = "r"
        BY <1>4, <1>8 DEF Range
    <2>2. i \in 1 .. n /\ \A k \in 1 .. i - 1 : k \in 1 .. m /\ k \in 1 .. n
        BY <1>2
    <2>3. w[i] = "r" /\ \A k \in 1 .. i - 1 : w[k] \notin Quotes
        BY <2>1, <2>2, <1>3, <1>4, <1>5, <1>6
    <2> QED BY <2>2, <2>3, <1>3 DEF IsRaw
<1> QED BY <1>1, <1>7, <1>8

-----------------------------------------------------------------------------
(* Names and prefixes *)
(* No literal begins with a character that is no letter of a prefix and no quotation mark. *)
LEMMA NoLiteralAt ==
    ASSUME text \in Texts, NEW i \in Nat, i > 0, Char(i) \notin Prefix \cup Quotes
    PROVE  NoLiteral(i)
<1> SUFFICES ASSUME NEW p \in StringPrefixes, Slice(i, i + Len(p) - 1) = p, Char(i + Len(p)) \in Quotes
             PROVE  FALSE
    BY DEF NoLiteral
<1>1. PICK m : m = Len(p)
    OBVIOUS
<1>2. m \in Nat
    BY <1>1, PrefixLength
<1>3. Slice(i, i + m - 1) \in StringPrefixes /\ Char(i + m) \in Quotes
    BY <1>1
<1>4. \A k \in 0 .. m - 1 : Char(i + k) \in Prefix
    BY <1>2, <1>3, PrefixChars
<1>5. CASE m = 0
    <2>1. i + m = i
        BY <1>5
    <2> QED BY <2>1, <1>3
<1>6. CASE m # 0
    <2>1. 0 \in 0 .. m - 1 /\ i + 0 = i
        BY <1>2, <1>6
    <2> QED BY <2>1, <1>4
<1> QED BY <1>5, <1>6

(* Letters and quotation marks are characters of a text. *)
LEMMA LettersInText ==
    \A c \in IdentLetters \cup Quotes \cup Prefix : c # EOF
BY EndIsNoCharacter DEF IdentLetters, Letters, Prefix

(* A letter that begins no prefix begins a name. *)
LEMMA NameBeginsKept ==
    ASSUME Lexing, ~EscapedBackslash, NameBegins
    PROVE  Kept
<1>1. /\ mode = "tokens" /\ in.ch \in Letters /\ in.ch \notin Prefix \cup Quotes /\ text' = text /\ inside_couples' = inside_couples
      /\ start' = At(in) /\ in' = in /\ mode' = "name" /\ out' = out /\ str' = <<>>
    BY DEF NameBegins, Inline, source, InTokens, Go, Prefix, Letters, Quotes
<1>2. PICK b, a : AtSpace(b, a)
    BY <1>1, InSpace DEF Spaces
<1>3. in.ch # EOF
    BY <1>1, LettersInText DEF IdentLetters
<1>4. a \in Nat /\ a > 0 /\ At(in) = a /\ in.ch = Char(a) /\ text \in Texts
    BY <1>2 DEF AtSpace
<1>5. At(in)' = a
    BY <1>1, <1>4 DEF At
<1>6. Slice(a, a - 1) = <<>> /\ NoLiteral(a)
    <2>1. a >= a
        BY <1>4
    <2> QED BY <2>1, <1>1, <1>4, SliceGrows, NoLiteralAt
<1>7. \A i \in a .. a : i = a
    BY <1>4
<1>8. NameRead'
    <2>1. NoLiteral(start)'
        BY <1>1, <1>4, <1>6 DEF NoLiteral, Slice, Char
    <2>2. Slice(start, At(in) - 1)' = Slice(a, a - 1)
        BY <1>1, <1>4, <1>5 DEF Slice, Char
    <2>3. Char(start)' \in Letters /\ \A i \in a .. a : Char(i)' \in IdentLetters
        BY <1>1, <1>4, <1>7 DEF Char, IdentLetters
    <2> QED BY <2>1, <2>2, <2>3, <1>1, <1>4, <1>5, <1>6 DEF NameRead
<1>9. a <= a
    BY <1>4
<1>10. Reading'
    BY <1>1, <1>4, <1>5, <1>8, <1>9 DEF Reading, Literals
<1> QED BY <1>1, <1>2, <1>3, <1>4, <1>10, StartKept DEF Literals

(* A keyword is a lexeme, and so is a name. *)
LEMMA WordToken ==
    ASSUME text \in Texts, NEW i \in Nat, i > 0, NEW j \in Nat, j >= i, Char(i) \in Letters,
           \A x \in i .. j : Char(x) \in IdentLetters, NEW tok, tok = TokenOfWord(Slice(i, j))
    PROVE  Lexeme(tok, Slice(i, j)) /\ tok \notin LayoutTokens \cup {<<"(">>, <<")">>}
<1>1. PICK w : w = Slice(i, j)
    OBVIOUS
<1>2. IsWord(w)
    BY <1>1, WordIs
<1>3. CASE w \in Keywords
    <2>1. tok = w
        BY <1>1, <1>3 DEF TokenOfWord
    <2>2. w[1] \in Letters
        BY <1>2 DEF IsWord
    <2>3. \A c \in {"NEWLINE", "INDENT", "DEDENT", "END", "(", ")", "NAME", "INT", "FLOAT", "STRING", "BYTES"} :
             c \notin Letters /\ <<c>>[1] = c
        BY DEF Letters
    <2>4. \A c \in {"NEWLINE", "INDENT", "DEDENT", "END", "(", ")", "NAME", "INT", "FLOAT", "STRING", "BYTES"} : w # <<c>>
        BY <2>2, <2>3
    <2>5. w \notin LayoutTokens \cup {<<"(">>, <<")">>}
        BY <2>4 DEF LayoutTokens
    <2>6. w \notin {<<"NAME">>, <<"INT">>, <<"FLOAT">>, <<"STRING">>, <<"BYTES">>}
        BY <2>4
    <2>7. Lexeme(w, w)
        BY <2>6, <1>3 DEF Lexeme
    <2> QED BY <2>1, <2>5, <2>7, <1>1
<1>4. CASE w \notin Keywords
    <2>1. tok = <<"NAME">>
        BY <1>1, <1>4 DEF TokenOfWord
    <2>2. tok \notin LayoutTokens \cup {<<"(">>, <<")">>}
        BY <2>1 DEF LayoutTokens
    <2>3. Lexeme(<<"NAME">>, w)
        BY <1>2, <1>4 DEF Lexeme
    <2> QED BY <2>1, <2>2, <2>3, <1>1
<1> QED BY <1>3, <1>4

(* A name goes on, or ends before what can be in no word; it is a keyword if it is one. *)
LEMMA NameCharKept ==
    ASSUME Lexing, ~EscapedBackslash, NameChar
    PROVE  Kept
<1>1. PICK r, u : r = Nextc(in) /\ u = Append(str, in.ch)
    OBVIOUS
<1>2. /\ mode = "name" /\ text' = text /\ inside_couples' = inside_couples /\ current_indent' = current_indent
      /\ start' = start /\ str' = u
      /\ \/ r.ch \in IdentLetters /\ Go(r, "name")
         \/ r.ch \notin IdentLetters /\ Return(r, TokenOfWord(u), start)
    BY <1>1 DEF NameChar, Inline, source, layout
<1>3. mode \in Literals
    BY <1>2 DEF Literals
<1>4. PICK b, s : AtLiteral(b, s)
    BY <1>3, InLiteral
<1>5. s \in Nat /\ s > 0 /\ start = s /\ text \in Texts /\ s <= At(in) /\ NameRead
    BY <1>2, <1>4 DEF AtLiteral, Reading
<1>6. Replaying(in)
    BY <1>2 DEF Lexing, ReaderInv, NameHeld
<1>7. PICK a : a = At(in)
    OBVIOUS
<1>8. a \in Int /\ in.ch = Char(a)
    BY <1>6, <1>7, AtReplaying
<1>9. /\ Char(s) \in Letters /\ str = Slice(s, a - 1) /\ NoLiteral(s)
      /\ \A i \in s .. a : Char(i) \in IdentLetters
    BY <1>5, <1>7 DEF NameRead
<1>10. a \in Nat /\ s <= a /\ a >= s /\ a \in s .. a
    BY <1>5, <1>7, <1>8
<1>11. in.ch # EOF
    BY <1>8, <1>9, <1>10, LettersInText
<1>12. At(r) = a + 1 /\ r.ch = Char(a + 1)
    BY <1>1, <1>5, <1>6, <1>7, <1>11, GoesOn
<1>13. u = Slice(s, a)
    BY <1>1, <1>5, <1>8, <1>9, <1>10, SliceGrows
<1>14. CASE r.ch \in IdentLetters /\ Go(r, "name")
    <2>1. in' = r /\ mode' = "name" /\ out' = out /\ At(in)' = a + 1
        BY <1>12, <1>14 DEF Go, At
    <2>2. NoLiteral(start)'
        BY <1>2, <1>5, <1>9 DEF NoLiteral, Slice, Char
    <2>3. (a + 1) - 1 = a
        BY <1>10
    <2>4. Slice(start, At(in) - 1)' = Slice(s, a)
        BY <2>1, <2>3, <1>2, <1>5 DEF Slice, Char
    <2>5. \A i \in s .. a + 1 : Char(i) \in IdentLetters
        <3>1. \A i \in s .. a + 1 : i \in s .. a \/ i = a + 1
            BY <1>10
        <3> QED BY <3>1, <1>9, <1>12, <1>14
    <2>6. Char(start)' \in Letters /\ \A i \in s .. a + 1 : Char(i)' \in IdentLetters
        BY <2>5, <1>2, <1>5, <1>9 DEF Char
    <2>7. NameRead'
        BY <2>1, <2>2, <2>4, <2>6, <1>2, <1>5, <1>13 DEF NameRead
    <2>8. s <= a + 1
        BY <1>5, <1>10
    <2>9. Reading'
        BY <2>1, <2>7, <2>8, <1>2, <1>5 DEF Reading, Literals
    <2> QED BY <2>1, <2>9, <1>2, <1>3, GoOnKept
<1>15. CASE r.ch \notin IdentLetters /\ Return(r, TokenOfWord(u), start)
    <2>1. PICK tok : tok = TokenOfWord(u)
        OBVIOUS
    <2>2. Lexeme(tok, Slice(s, a)) /\ tok \notin LayoutTokens \cup {<<"(">>, <<")">>}
        BY <2>1, <1>5, <1>9, <1>10, <1>13, WordToken
    <2>3. \A l \in Nat : l > a => ~AnyLexeme(Slice(s, l))
        BY <1>5, <1>9, <1>10, <1>12, <1>15, WordLongest
    <2> QED BY <2>1, <2>2, <2>3, <1>2, <1>3, <1>5, <1>10, <1>12, <1>15, LiteralKept
<1> QED BY <1>2, <1>14, <1>15

(* A letter that may be of a prefix, or a quotation mark: recording begins. *)
LEMMA HeadBeginsKept ==
    ASSUME Lexing, ~EscapedBackslash, HeadBegins
    PROVE  Kept
<1>1. PICK r : r = RecordOn(in)
    OBVIOUS
<1>2. /\ mode = "tokens" /\ in.ch \in {"r", "u", "b"} \cup Quotes /\ text' = text /\ inside_couples' = inside_couples
      /\ start' = At(in) /\ in' = r /\ mode' = "head" /\ out' = out /\ head' = {}
    BY <1>1 DEF HeadBegins, Inline, source, InTokens, Go
<1>3. PICK b, a : AtSpace(b, a)
    BY <1>2, InSpace DEF Spaces
<1>4. in.ch # EOF
    BY <1>2, LettersInText DEF Prefix
<1>5. a \in Nat /\ a > 0 /\ At(in) = a /\ text \in Texts /\ Plain(in)
    BY <1>3 DEF AtSpace
<1>6. Recording(r) /\ r.buf = <<in.ch>> /\ r.ch = in.ch
    BY <1>1, <1>5, RecordBegins
<1>7. At(r) = a
    <2>1. in \in Readers /\ in.upto = a
        BY <1>5, AtPlain DEF Plain
    <2>2. r.on /\ r.upto = a
        BY <2>1, <1>1 DEF RecordOn, Readers
    <2> QED BY <2>2 DEF At
<1>8. At(in)' = a
    BY <1>2, <1>7 DEF At
<1>9. PICK p : p = <<>>
    OBVIOUS
<1>10. p \in StringPrefixes /\ Range(p) = {} /\ Len(p) = 0 /\ p = Slice(a, a - 1) /\ a = a + 0 /\ a >= a /\ a <= a
    <2>1. a >= a /\ a = a + 0 /\ a <= a
        BY <1>5
    <2>2. Slice(a, a - 1) = p
        BY <2>1, <1>5, <1>9, SliceGrows
    <2>3. Range(p) = {}
        BY <1>9 DEF Range
    <2> QED BY <2>1, <2>2, <2>3, <1>9 DEF StringPrefixes
<1>11. Slice(start, At(in) - 1)' = Slice(a, a - 1)
    BY <1>2, <1>5, <1>8 DEF Slice, Char
<1>12. Len(in.buf)' = 0 + 1 /\ in.ch' \in {"r", "u", "b"} \cup Quotes
    BY <1>2, <1>6
<1>13. HeadRead'
    BY <1>2, <1>5, <1>8, <1>10, <1>11, <1>12 DEF HeadRead
<1>14. Reading'
    BY <1>2, <1>5, <1>8, <1>10, <1>13 DEF Reading, Literals
<1> QED BY <1>2, <1>3, <1>4, <1>5, <1>14, StartKept DEF Literals

(* In front of a string *)
AtHead(s, a, p) ==
    /\ s \in Nat /\ s > 0 /\ a \in Nat /\ start = s /\ At(in) = a /\ in.ch = Char(a) /\ text \in Texts /\ Recording(in)
    /\ p \in StringPrefixes /\ head = Range(p) /\ p = Slice(s, a - 1) /\ a = s + Len(p) /\ Len(in.buf) = Len(p) + 1
    /\ Len(p) \in 0 .. 2 /\ a >= s
    /\ p = <<>> => in.ch \in {"r", "u", "b"} \cup Quotes

(* What is said in front of a string. *)
LEMMA InHead ==
    ASSUME Lexing, ~EscapedBackslash, mode = "head"
    PROVE  \E s, a, p : AtHead(s, a, p)
<1>1. PICK b, s : AtLiteral(b, s)
    BY InLiteral DEF Literals
<1>2. s \in Nat /\ s > 0 /\ start = s /\ text \in Texts /\ HeadRead
    BY <1>1 DEF AtLiteral, Reading
<1>3. Recording(in)
    BY DEF Lexing, ReaderInv, HeadHeld
<1>4. PICK a : a = At(in)
    OBVIOUS
<1>5. a \in Nat /\ in.ch = Char(a)
    BY <1>2, <1>3, <1>4, GoesRecording
<1>6. PICK p \in StringPrefixes :
         /\ head = Range(p) /\ p = Slice(s, a - 1) /\ a = s + Len(p) /\ Len(in.buf) = Len(p) + 1
         /\ p = <<>> => in.ch \in {"r", "u", "b"} \cup Quotes
    BY <1>2, <1>4 DEF HeadRead
<1>7. Len(p) \in 0 .. 2
    BY PrefixLength
<1>8. a >= s
    BY <1>2, <1>6, <1>7
<1> QED BY <1>2, <1>3, <1>4, <1>5, <1>6, <1>7, <1>8 DEF AtHead

(* A letter more makes a prefix of a prefix, unless it is excluded. *)
LEMMA PrefixGrows ==
    ASSUME NEW p \in StringPrefixes, NEW c \in Prefix, Range(p) \cap Excludes(c) = {}
    PROVE  Append(p, c) \in StringPrefixes /\ Range(Append(p, c)) = Range(p) \cup {c} /\ Len(Append(p, c)) = Len(p) + 1
<1>1. \A x, y : Range(<<x>>) = {x} /\ Range(<<x, y>>) = {x, y}
    BY DEF Range
<1>2. CASE p = <<>>
    <2>1. Append(p, c) = <<c>> /\ Range(p) = {} /\ Len(p) = 0
        BY <1>2 DEF Range
    <2> QED BY <2>1, <1>1 DEF StringPrefixes, Prefix
<1>3. ASSUME NEW x \in Prefix, p = <<x>>
      PROVE  Append(p, c) \in StringPrefixes /\ Range(Append(p, c)) = Range(p) \cup {c} /\ Len(Append(p, c)) = Len(p) + 1
    <2>0. Append(<<x>>, c) = <<x, c>> /\ Len(<<x>>) = 1
        <3>1. PICK u, v : u = <<x>> /\ v = Append(u, c)
            OBVIOUS
        <3>2. u \in Seq(Prefix) /\ Len(u) = 1 /\ u[1] = x
            BY <3>1, TuplesAre
        <3>3. v \in Seq(Prefix) /\ Len(v) = 2 /\ v[1] = x /\ v[2] = c
            BY <3>1, <3>2, AppendProperties
        <3>4. v = <<v[1], v[2]>>
            BY <3>3, SeqOfLength
        <3> QED BY <3>1, <3>2, <3>3, <3>4
    <2>1. Append(p, c) = <<x, c>> /\ Len(p) = 1
        BY <2>0, <1>3, Zenon
    <2>2. Range(p) = {x} /\ Range(<<x, c>>) = {x, c}
        BY <1>1, <1>3
    <2>3. x \notin Excludes(c)
        BY <2>2
    <2>4. <<x, c>> \in StringPrefixes
        BY <2>3 DEF StringPrefixes, Prefix, Excludes
    <2> QED BY <2>1, <2>2, <2>4
<1>4. ASSUME NEW x \in Prefix, NEW y \in Prefix, p = <<x, y>>, p \in {<<"r", "u">>, <<"u", "r">>, <<"r", "b">>, <<"b", "r">>}
      PROVE  FALSE
    <2>1. Range(p) = {x, y}
        BY <1>1, <1>4
    <2>2. x \notin Excludes(c) /\ y \notin Excludes(c)
        BY <2>1
    <2> QED BY <2>2, <1>4 DEF Prefix, Excludes
<1>5. \/ p = <<>>
      \/ \E x \in Prefix : p = <<x>>
      \/ \E x, y \in Prefix : p = <<x, y>> /\ p \in {<<"r", "u">>, <<"u", "r">>, <<"r", "b">>, <<"b", "r">>}
    BY DEF StringPrefixes, Prefix
<1> QED BY <1>2, <1>3, <1>4, <1>5

(* A letter of a prefix. *)
LEMMA HeadLetterKept ==
    ASSUME Lexing, ~EscapedBackslash, HeadLetter
    PROVE  Kept
<1>1. /\ mode = "head" /\ mode' = "head" /\ in.ch \in Prefix /\ head \cap Excludes(in.ch) = {} /\ head' = head \cup {in.ch}
      /\ in' = Nextc(in) /\ text' = text /\ inside_couples' = inside_couples /\ start' = start /\ out' = out
    BY DEF HeadLetter, Inline, source, Go, Prefix
<1>2. PICK s, a, p : AtHead(s, a, p)
    BY <1>1, InHead
<1>3. /\ s \in Nat /\ s > 0 /\ a \in Nat /\ start = s /\ At(in) = a /\ in.ch = Char(a) /\ text \in Texts /\ Recording(in)
      /\ p \in StringPrefixes /\ head = Range(p) /\ p = Slice(s, a - 1) /\ a = s + Len(p) /\ Len(in.buf) = Len(p) + 1
      /\ Len(p) \in 0 .. 2 /\ a >= s
    BY <1>2 DEF AtHead
<1>4. PICK d : d = Nextc(in)
    OBVIOUS
<1>5. At(d) = a + 1 /\ Len(d.buf) = Len(in.buf) + 1
    BY <1>3, <1>4, GoesRecording
<1>6. PICK q : q = Append(p, in.ch)
    OBVIOUS
<1>7. q \in StringPrefixes /\ Range(q) = head' /\ Len(q) = Len(p) + 1
    BY <1>1, <1>3, <1>6, PrefixGrows
<1>8. q = Slice(s, a)
    BY <1>3, <1>6, SliceGrows
<1>9. At(in)' = a + 1 /\ Len(in.buf)' = Len(q) + 1 /\ (a + 1) - 1 = a /\ a + 1 = s + Len(q) /\ q # <<>> /\ s <= a + 1
    <2>1. At(in)' = a + 1 /\ Len(in.buf)' = Len(d.buf)
        BY <1>1, <1>4, <1>5 DEF At
    <2>2. Len(q) # 0
        BY <1>3, <1>7
    <2>3. q # <<>>
        BY <2>2
    <2> QED BY <2>1, <2>3, <1>3, <1>5, <1>7
<1>10. Slice(start, At(in) - 1)' = Slice(s, a)
    BY <1>1, <1>3, <1>9 DEF Slice, Char
<1>11. HeadRead'
    BY <1>1, <1>3, <1>7, <1>8, <1>9, <1>10 DEF HeadRead
<1>12. Reading'
    BY <1>1, <1>3, <1>9, <1>11 DEF Reading, Literals
<1> QED BY <1>1, <1>12, GoOnKept DEF Literals

(* A prefix that no quotation mark follows, and that does not go on, begins no literal. *)
LEMMA NoLiteralBehind ==
    ASSUME NEW s, NEW a, NEW p, AtHead(s, a, p), in.ch \notin Quotes,
           in.ch \in Prefix => head \cap Excludes(in.ch) # {}
    PROVE  NoLiteral(s)
<1> SUFFICES ASSUME NEW o \in StringPrefixes, Slice(s, s + Len(o) - 1) = o, Char(s + Len(o)) \in Quotes
             PROVE  FALSE
    BY DEF NoLiteral
<1>1. /\ s \in Nat /\ s > 0 /\ a \in Nat /\ in.ch = Char(a) /\ text \in Texts
      /\ p \in StringPrefixes /\ head = Range(p) /\ p = Slice(s, a - 1) /\ a = s + Len(p) /\ Len(p) \in 0 .. 2
      /\ (p = <<>> => in.ch \in {"r", "u", "b"} \cup Quotes)
    BY DEF AtHead
<1>2. PICK m, n : m = Len(p) /\ n = Len(o)
    OBVIOUS
<1>3. m \in 0 .. 2 /\ n \in 0 .. 2 /\ m \in Nat /\ n \in Nat /\ a = s + m
    <2>1. m \in 0 .. 2 /\ a = s + m
        BY <1>1, <1>2
    <2>2. n \in 0 .. 2
        BY <1>2, PrefixLength
    <2> QED BY <2>1, <2>2
<1>4. Slice(s, s + m - 1) \in StringPrefixes /\ Slice(s, s + n - 1) = o /\ Char(s + n) \in Quotes
    BY <1>1, <1>2
<1>5. \A k \in 0 .. m - 1 : Char(s + k) \in Prefix
    BY <1>1, <1>3, <1>4, PrefixChars
<1>6. \A k \in 0 .. n - 1 : Char(s + k) \in Prefix
    BY <1>1, <1>3, <1>4, PrefixChars
<1>7. \A c \in Prefix : c \notin Quotes
    BY DEF Prefix, Quotes
<1>8. n # m
    BY <1>1, <1>3, <1>4
<1>9. ~(n < m)
    <2> SUFFICES ASSUME n < m PROVE FALSE
        OBVIOUS
    <2>1. n \in 0 .. m - 1
        BY <1>3
    <2> QED BY <2>1, <1>4, <1>5, <1>7
<1>10. m < n
    BY <1>3, <1>8, <1>9
<1>11. Char(a) \in Prefix
    <2>1. m \in 0 .. n - 1
        BY <1>3, <1>10
    <2> QED BY <2>1, <1>3, <1>6
<1>12. head \cap Excludes(Char(a)) # {}
    BY <1>1, <1>11
<1>13. m # 0
    <2> SUFFICES ASSUME m = 0 PROVE FALSE
        OBVIOUS
    <2>1. p \in Seq(Prefix)
        BY <1>1, PrefixLength
    <2>2. p = <<>>
        BY <2>1, <1>2
    <2>3. head = {}
        BY <2>2, <1>1 DEF Range
    <2> QED BY <2>3, <1>12
<1>14. m = 1 /\ n = 2 /\ a = s + 1
    BY <1>3, <1>10, <1>13
<1>15. p = <<Char(s)>> /\ o = <<Char(s), Char(a)>>
    <2>1. s \in Nat /\ a = s + 1 /\ n = 2
        BY <1>1, <1>14
    <2>2. a - 1 = s /\ s + n - 1 = s + 1
        BY <2>1
    <2>3. p = Slice(s, s) /\ o = Slice(s, s + 1)
        BY <2>2, <1>1, <1>4
    <2> QED BY <2>1, <2>3, <1>1, SliceText
<1>16. Range(p) = {Char(s)}
    BY <1>15 DEF Range
<1>17. Char(s) \in Excludes(Char(a))
    BY <1>1, <1>12, <1>16
<1>18. <<Char(s), Char(a)>> \in {<<"r", "u">>, <<"u", "r">>, <<"r", "b">>, <<"b", "r">>}
    BY <1>15 DEF StringPrefixes
<1> QED BY <1>17, <1>18 DEF Excludes

(* No literal: the letters are read again from where they began, as a name. *)
LEMMA HeadFailsKept ==
    ASSUME Lexing, ~EscapedBackslash, HeadFails
    PROVE  Kept
<1>1. /\ mode = "head" /\ mode' = "name" /\ in.ch \notin Quotes /\ (in.ch \in Prefix => head \cap Excludes(in.ch) # {})
      /\ in' = RecordOff(in) /\ text' = text /\ inside_couples' = inside_couples /\ start' = start /\ out' = out /\ str' = <<>>
    BY DEF HeadFails, Inline, source, Go, Prefix
<1>2. PICK s, a, p : AtHead(s, a, p)
    BY <1>1, InHead
<1>3. /\ s \in Nat /\ s > 0 /\ a \in Nat /\ start = s /\ At(in) = a /\ in.ch = Char(a) /\ text \in Texts /\ Recording(in)
      /\ p \in StringPrefixes /\ head = Range(p) /\ p = Slice(s, a - 1) /\ a = s + Len(p) /\ Len(in.buf) = Len(p) + 1
      /\ Len(p) \in 0 .. 2 /\ a >= s
      /\ (p = <<>> => in.ch \in {"r", "u", "b"} \cup Quotes)
    BY <1>2 DEF AtHead
<1>4. NoLiteral(s)
    BY <1>1, <1>2, NoLiteralBehind
<1>5. At(in)' = s
    <2>1. Len(p) \in Nat /\ a - Len(p) = s
        BY <1>3
    <2>2. At(RecordOff(in)) = a - Len(p)
        BY <2>1, <1>3, GoesBack
    <2> QED BY <2>1, <2>2, <1>1 DEF At
<1>6. Char(s) \in Prefix
    <2>1. CASE Len(p) = 0
        <3>1. p \in Seq(Prefix)
            BY <1>3, PrefixLength
        <3>2. p = <<>>
            BY <3>1, <2>1
        <3>3. a = s
            <4>1. PICK m : m = Len(p)
                OBVIOUS
            <4>2. m = 0 /\ a = s + m
                BY <4>1, <2>1, <1>3
            <4> QED BY <4>2, <1>3
        <3> QED BY <3>2, <3>3, <1>1, <1>3 DEF Prefix
    <2>2. CASE Len(p) # 0
        <3>1. PICK m : m = Len(p)
            OBVIOUS
        <3>2. m \in Nat /\ a - 1 = s + m - 1 /\ 0 \in 0 .. m - 1 /\ s + 0 = s
            BY <3>1, <2>2, <1>3
        <3>3. Slice(s, s + m - 1) \in StringPrefixes
            BY <3>2, <1>3
        <3> QED BY <3>2, <3>3, <1>3, PrefixChars
    <2> QED BY <2>1, <2>2
<1>7. Char(s) \in Letters /\ Char(s) \in IdentLetters
    BY <1>6 DEF Prefix, Letters, IdentLetters
<1>8. Slice(s, s - 1) = <<>> /\ s <= s /\ \A i \in s .. s : i = s
    <2>1. s >= s
        BY <1>3
    <2> QED BY <2>1, <1>3, SliceGrows
<1>9. NameRead'
    <2>1. NoLiteral(start)'
        BY <1>1, <1>3, <1>4 DEF NoLiteral, Slice, Char
    <2>2. Slice(start, At(in) - 1)' = Slice(s, s - 1)
        BY <1>1, <1>3, <1>5 DEF Slice, Char
    <2>3. Char(start)' \in Letters /\ \A i \in s .. s : Char(i)' \in IdentLetters
        BY <1>1, <1>3, <1>7, <1>8 DEF Char
    <2> QED BY <2>1, <2>2, <2>3, <1>1, <1>3, <1>5, <1>8 DEF NameRead
<1>10. Reading'
    BY <1>1, <1>3, <1>5, <1>8, <1>9 DEF Reading, Literals
<1> QED BY <1>1, <1>10, GoOnKept DEF Literals

(* What is looked at to tell a long string *)
LEMMA StringReads ==
    ASSUME NEW s, NEW a, NEW p, AtHead(s, a, p), in.ch \in Quotes,
           NEW r1, r1 = RecordOn(Nextc(RecordHalt(in))), NEW r2, r2 = Nextc(r1)
    PROVE  /\ r1.ch = Char(a + 1) /\ r2.ch = Char(a + 2)
           /\ At(RecordOff(r1)) = a + 1 /\ At(RecordOff(r2)) = a + 1
           /\ At(RecordHalt(Nextc(r2))) = a + 3
<1>1. s \in Nat /\ a \in Nat /\ At(in) = a /\ in.ch = Char(a) /\ text \in Texts /\ Recording(in)
    BY DEF AtHead
<1>2. PICK h, r, r3, z : h = RecordHalt(in) /\ r = Nextc(h) /\ r3 = Nextc(r2) /\ z = RecordHalt(r3)
    OBVIOUS
<1>3. in.ch # EOF
    BY LettersInText
<1>4. in \in Readers /\ in.on /\ in.upto = a
    BY <1>1, GoesRecording DEF Recording, Recorded
<1>5. Plain(h) /\ h.ch = in.ch
    BY <1>1, <1>2, RecordDropped
<1>6. At(h) = a
    <2>1. h.upto = in.upto
        BY <1>2, <1>4 DEF RecordHalt, Readers
    <2> QED BY <2>1, <1>4, <1>5, AtPlain
<1>7. Plain(r) /\ At(r) = a + 1 /\ r.ch = Char(a + 1)
    <2>1. Forward(h, r)
        BY <1>1, <1>2, <1>3, <1>5, GoesForward
    <2> QED BY <2>1, <1>6 DEF Forward
<1>8. Recording(r1) /\ Len(r1.buf) = 1 /\ r1.ch = r.ch
    <2>1. Recording(r1) /\ r1.buf = <<r.ch>> /\ r1.ch = r.ch
        BY <1>1, <1>2, <1>7, RecordBegins
    <2> QED BY <2>1
<1>9. At(r1) = a + 1
    <2>1. r \in Readers /\ r.upto = a + 1
        BY <1>7, AtPlain DEF Plain
    <2>2. r1.on /\ r1.upto = a + 1
        BY <2>1, <1>2 DEF RecordOn, Readers
    <2> QED BY <2>2 DEF At
<1>10. Recording(r2) /\ At(r2) = a + 2 /\ r2.ch = Char(a + 2) /\ Len(r2.buf) = 2
    <2>1. Recording(r2) /\ At(r2) = a + 1 + 1 /\ r2.ch = Char(a + 1 + 1) /\ Len(r2.buf) = 1 + 1
        BY <1>1, <1>8, <1>9, GoesRecording
    <2>2. a + 1 + 1 = a + 2
        BY <1>1
    <2> QED BY <2>1, <2>2
<1>11. Recording(r3) /\ At(r3) = a + 3
    <2>1. Recording(r3) /\ At(r3) = a + 2 + 1
        BY <1>1, <1>2, <1>10, GoesRecording
    <2>2. a + 2 + 1 = a + 3
        BY <1>1
    <2> QED BY <2>1, <2>2
<1>12. At(RecordOff(r1)) = a + 1
    <2>1. Len(r1.buf) = 0 + 1 /\ 0 \in Nat
        BY <1>8
    <2>2. At(RecordOff(r1)) = At(r1) - 0
        BY <2>1, <1>8, GoesBack
    <2> QED BY <2>2, <1>1, <1>9
<1>13. At(RecordOff(r2)) = a + 1
    <2>1. Len(r2.buf) = 1 + 1
        BY <1>10
    <2>2. At(RecordOff(r2)) = At(r2) - 1
        BY <2>1, <1>10, GoesBack
    <2> QED BY <2>2, <1>1, <1>10
<1>14. At(z) = a + 3
    <2>1. Plain(z)
        BY <1>2, <1>11, RecordDropped
    <2>2. r3 \in Readers /\ r3.upto = a + 3
        BY <1>1, <1>11, GoesRecording DEF Recording, Recorded
    <2>3. z.upto = r3.upto
        BY <2>2, <1>2 DEF RecordHalt, Readers
    <2> QED BY <2>1, <2>2, <2>3, AtPlain
<1> QED BY <1>2, <1>7, <1>8, <1>10, <1>12, <1>13, <1>14

-----------------------------------------------------------------------------
(* Strings *)
(* What is read of a string that begins at s, its sign at q, before z: the prefix has the letters h, c is the quote. *)
StringOver(s, q, z, h, c) ==
    /\ s \in Nat /\ s > 0 /\ q \in Nat /\ q >= s /\ z \in Nat /\ z > q
    /\ Slice(s, q - 1) \in StringPrefixes /\ h = Range(Slice(s, q - 1))
    /\ Char(q) = c.sign
    /\ c.escape <=> Char(z - 1) = "\\"
    /\ c.long <=> Char(q + 1) = Char(q) /\ Char(q + 2) = Char(q)
    /\ c.long => z >= q + 3 /\ \A i \in q + 3 .. z - 1 : ~SignsAt(i, c.sign)
    /\ ~c.long => \A i \in q + 1 .. z - 1 : Char(i) \notin {LF, CR} /\ ~(Char(i) = c.sign /\ Char(i - 1) # "\\")

(* Inside of a string, before its end *)
AtString(s, q, a) ==
    /\ StringOver(s, q, a, head, quote) /\ quote \in QuoteTypes /\ ValueAt(str, s, a)
    /\ start = s /\ At(in) = a /\ in.ch = Char(a) /\ text \in Texts
    /\ At(Nextc(in)) = a + 1 /\ Nextc(in).ch = Char(a + 1)

(* What is said inside of a string, before the end of the text. *)
LEMMA InString ==
    ASSUME Lexing, ~EscapedBackslash, mode = "string", in.ch # EOF
    PROVE  \E s, q, a : AtString(s, q, a)
<1>1. PICK b, s : AtLiteral(b, s)
    BY InLiteral DEF Literals
<1>2. s \in Nat /\ s > 0 /\ start = s /\ text \in Texts /\ s <= At(in) /\ StringRead /\ ValueRead /\ quote \in QuoteTypes
    BY <1>1 DEF AtLiteral, Reading
<1>3. Replaying(in)
    BY PlainReplays DEF Lexing, ReaderInv, StringHeld
<1>4. PICK a : a = At(in)
    OBVIOUS
<1>5. a \in Int /\ in.ch = Char(a)
    BY <1>3, <1>4, AtReplaying
<1>6. At(Nextc(in)) = a + 1 /\ Nextc(in).ch = Char(a + 1)
    BY <1>2, <1>3, <1>4, GoesOn
<1>7. PICK q \in s .. a - 1 :
          /\ Slice(s, q - 1) \in StringPrefixes /\ head = Range(Slice(s, q - 1))
          /\ Char(q) = quote.sign
          /\ quote.escape <=> Char(a - 1) = "\\"
          /\ quote.long <=> Char(q + 1) = Char(q) /\ Char(q + 2) = Char(q)
          /\ quote.long => a >= q + 3 /\ \A i \in q + 3 .. a - 1 : ~SignsAt(i, quote.sign)
          /\ ~quote.long => \A i \in q + 1 .. a - 1 : Char(i) \notin {LF, CR} /\ ~(Char(i) = quote.sign /\ Char(i - 1) # "\\")
    BY <1>2, <1>4 DEF StringRead
<1>8. q \in Nat /\ q >= s /\ a \in Nat /\ a > q
    BY <1>2, <1>5, <1>7
<1>9. StringOver(s, q, a, head, quote)
    BY <1>2, <1>7, <1>8 DEF StringOver
<1>10. AtString(s, q, a)
    BY <1>2, <1>4, <1>5, <1>6, <1>9 DEF AtString, ValueRead
<1> QED BY <1>10

(* A string goes on. *)
LEMMA StringKept ==
    ASSUME Lexing, ~EscapedBackslash, mode \in Literals,
           mode' = "string", start' = start, text' = text, out' = out, inside_couples' = inside_couples,
           NEW s, start = s, NEW z, At(in)' = z, s \in Nat, s > 0, z \in Int, s <= z,
           NEW h, head' = h, NEW c, quote' = c, c \in QuoteTypes, NEW v, str' = v, NEW ch, in'.ch = ch,
           ch # EOF => ValueAt(v, s, z) /\ \E q : StringOver(s, q, z, h, c)
    PROVE  Kept
<1>1. ASSUME ch # EOF PROVE StringRead'
    <2>1. PICK q : StringOver(s, q, z, h, c)
        BY <1>1
    <2>2. q \in s .. z - 1
        BY <2>1 DEF StringOver
    <2>3. \A i : Char(i)' = Char(i)
        BY DEF Char
    <2>4. \A i, j : Slice(i, j)' = Slice(i, j)
        BY DEF Slice, Char
    <2>5. \A i, x : SignsAt(i, x)' <=> SignsAt(i, x)
        BY DEF SignsAt, Char
    <2>6. c.sign \in Quotes
        BY DEF QuoteTypes
    <2> QED BY <2>1, <2>2, <2>3, <2>4, <2>5, <2>6 DEF StringOver, StringRead
<1>2. ASSUME ch # EOF PROVE ValueRead'
    <2>1. PICK w : w = Slice(s, z - 1)
        OBVIOUS
    <2>2. ValueOf(v, w)
        BY <2>1, <1>2 DEF ValueAt
    <2>3. Slice(start, At(in) - 1)' = w
        BY <2>1 DEF Slice, Char
    <2> QED BY <2>2, <2>3 DEF ValueRead, ValueAt
<1>3. Reading'
    BY <1>1, <1>2 DEF Reading, Literals
<1> QED BY <1>3, GoOnKept DEF Literals

(* One or three signs begin the string; the second of two is read again. *)
LEMMA StringBeginsKept ==
    ASSUME Lexing, ~EscapedBackslash, StringBegins
    PROVE  Kept
<1>1. PICK r1, r2, c : r1 = RecordOn(Nextc(RecordHalt(in))) /\ r2 = Nextc(r1) /\ c = quote'
    OBVIOUS
<1>2. /\ mode = "head" /\ in.ch \in Quotes /\ mode' = "string" /\ text' = text /\ inside_couples' = inside_couples
      /\ start' = start /\ head' = head /\ out' = out /\ str' = <<>>
      /\ c = [sign |-> in.ch, long |-> r1.ch = in.ch /\ r2.ch = in.ch, escape |-> FALSE]
      /\ in' = IF r1.ch = in.ch /\ r2.ch = in.ch THEN RecordHalt(Nextc(r2)) ELSE RecordOff(IF r1.ch = in.ch THEN r2 ELSE r1)
    BY <1>1 DEF StringBegins, Inline, source, Go
<1>3. PICK s, a, p : AtHead(s, a, p)
    BY <1>2, InHead
<1>4. /\ s \in Nat /\ s > 0 /\ a \in Nat /\ start = s /\ At(in) = a /\ in.ch = Char(a)
      /\ p \in StringPrefixes /\ head = Range(p) /\ p = Slice(s, a - 1) /\ a >= s
    BY <1>3 DEF AtHead
<1>5. /\ r1.ch = Char(a + 1) /\ r2.ch = Char(a + 2)
      /\ At(RecordOff(r1)) = a + 1 /\ At(RecordOff(r2)) = a + 1
      /\ At(RecordHalt(Nextc(r2))) = a + 3
    BY <1>1, <1>2, <1>3, StringReads
<1>6. c \in QuoteTypes /\ c.sign = Char(a) /\ c.escape = FALSE /\ (c.long <=> Char(a + 1) = Char(a) /\ Char(a + 2) = Char(a))
    <2>1. c = [sign |-> Char(a), long |-> Char(a + 1) = Char(a) /\ Char(a + 2) = Char(a), escape |-> FALSE] /\ Char(a) \in Quotes
        BY <1>2, <1>4, <1>5
    <2> QED BY <2>1 DEF QuoteTypes
<1>10. text \in Texts
    BY <1>3 DEF AtHead
<1>7. Char(a) \notin {"\\", LF, CR} /\ Char(a) = c.sign
    BY <1>2, <1>4, <1>6 DEF Quotes, LF, CR
<1>8. CASE c.long
    <2>1. At(in)' = a + 3
        BY <1>2, <1>4, <1>5, <1>6, <1>8 DEF At
    <2>2. a + 3 >= a + 3 /\ a + 3 > a /\ a + 3 \in Nat /\ s <= a + 3 /\ (a + 3) - 1 = a + 2 /\ \A i \in a + 3 .. a + 2 : FALSE
        BY <1>4
    <2>3. Char(a + 2) # "\\"
        BY <1>6, <1>7, <1>8
    <2>4. StringOver(s, a, a + 3, head, c)
        BY <2>2, <2>3, <1>4, <1>6, <1>7, <1>8 DEF StringOver
    <2>5. a + 3 \in Int
        BY <2>2
    <2>6. ValueAt(<<>>, s, a + 3)
        <3>1. \A x \in a .. (a + 3) - 1 : x = a \/ x = a + 1 \/ x = a + 2
            BY <1>4
        <3>2. \A x \in a .. (a + 3) - 1 : Char(x) \in Quotes
            BY <3>1, <1>2, <1>4, <1>6, <1>8
        <3> QED BY <3>2, <2>2, <1>4, <1>10, ValueStarts
    <2> QED BY <2>1, <2>2, <2>4, <2>5, <2>6, <1>1, <1>2, <1>4, <1>6, <1>10, StringKept DEF Literals
<1>9. CASE ~c.long
    <2>1. At(in)' = a + 1
        BY <1>2, <1>4, <1>5, <1>6, <1>9 DEF At
    <2>2. a + 1 > a /\ a + 1 \in Nat /\ s <= a + 1 /\ (a + 1) - 1 = a /\ \A i \in a + 1 .. a : FALSE
        BY <1>4
    <2>3. StringOver(s, a, a + 1, head, c)
        BY <2>2, <1>4, <1>6, <1>7, <1>9 DEF StringOver
    <2>4. a + 1 \in Int
        BY <2>2
    <2>5. ValueAt(<<>>, s, a + 1)
        <3>1. \A x \in a .. (a + 1) - 1 : x = a
            BY <1>4
        <3>2. \A x \in a .. (a + 1) - 1 : Char(x) \in Quotes
            BY <3>1, <1>2, <1>4
        <3> QED BY <3>2, <2>2, <1>4, <1>10, ValueStarts
    <2> QED BY <2>1, <2>2, <2>3, <2>4, <2>5, <1>1, <1>2, <1>4, <1>6, <1>10, StringKept DEF Literals
<1> QED BY <1>8, <1>9

(* A string ends: its token, and nothing longer; where it has no value the text is refused. *)
LEMMA StringEnds ==
    ASSUME Lexing, ~EscapedBackslash, mode = "string", NEW s, NEW q, NEW a, AtString(s, q, a), Char(a) \in Quotes,
           NEW t, t = a \/ (t = a + 2 /\ Char(a + 1) \in Quotes /\ Char(a + 2) \in Quotes),
           NEW r, At(r) = t + 1, EndString(r),
           \/ ShortAt(q, t) /\ ~(Char(q + 1) = Char(q) /\ Char(q + 2) = Char(q))
           \/ LongAt(q, t),
           text' = text, current_indent' = current_indent, inside_couples' = inside_couples, start' = start
    PROVE  Kept
<1>1. /\ s \in Nat /\ s > 0 /\ q \in Nat /\ q >= s /\ start = s /\ text \in Texts /\ Slice(s, q - 1) \in StringPrefixes
      /\ head = Range(Slice(s, q - 1)) /\ Char(q) \in Quotes /\ a \in Nat /\ a > q /\ ValueAt(str, s, a)
    BY DEF AtString, StringOver, QuoteTypes
<1>2. t \in Nat /\ t > q /\ t >= q /\ t >= s /\ a >= s
    BY <1>1
<1>3. PICK kind : kind = Kind
    OBVIOUS
<1>4. kind = IF "b" \in Range(Slice(s, q - 1)) THEN <<"BYTES">> ELSE <<"STRING">>
    BY <1>1, <1>3 DEF Kind
<1>5. /\ AnyLiteral(Slice(s, t)) /\ (Valueless(Slice(s, t)) \/ Lexeme(kind, Slice(s, t)))
      /\ \A l \in Nat : l > t => ~AnyLexeme(Slice(s, l))
    BY <1>1, <1>2, <1>4, LiteralToken
<1>6. kind \notin LayoutTokens \cup {<<"(">>, <<")">>}
    BY <1>4 DEF LayoutTokens
<1>7. Valueless(Slice(s, t)) <=> "r" \notin head /\ BadEscape(str)
    <2>1. IsRaw(Slice(s, t)) <=> "r" \in head
        BY <1>1, <1>2, RawIs
    <2>2. BadEscape(Slice(s, t)) <=> BadEscape(str)
        BY <1>1, <1>2, ValueEnds
    <2> QED BY <2>1, <2>2 DEF Valueless
<1>8. CASE "r" \notin head /\ BadEscape(str)
    <2>1. in' = r /\ mode' = "error" /\ out' = out
        BY <1>8 DEF EndString, Refuse
    <2>2. PICK z : z = t + 1
        OBVIOUS
    <2>3. z \in Nat /\ z > 0 /\ z - 1 = t
        BY <2>2, <1>2
    <2>4. At(in)' = z
        BY <2>1, <2>2 DEF At
    <2>5. AnyLiteral(Slice(s, z - 1)) /\ Valueless(Slice(s, z - 1))
        BY <2>3, <1>5, <1>7, <1>8
    <2> QED BY <2>1, <2>3, <2>4, <2>5, <1>1, RefusedKept DEF Lexing
<1>9. CASE ~("r" \notin head /\ BadEscape(str))
    <2>1. Return(r, kind, start)
        BY <1>3, <1>9 DEF EndString
    <2>2. Lexeme(kind, Slice(s, t))
        BY <1>5, <1>7, <1>9
    <2> QED BY <2>1, <2>2, <1>1, <1>2, <1>5, <1>6, LiteralKept DEF Literals
<1> QED BY <1>8, <1>9

(* A sign that is not escaped: the end, or one of too few in a long string. *)
LEMMA StringSignKept ==
    ASSUME Lexing, ~EscapedBackslash, StringSign
    PROVE  Kept
<1>1. PICK r1, r2, r3 : r1 = Nextc(in) /\ r2 = Nextc(r1) /\ r3 = Nextc(r2)
    OBVIOUS
<1>2. /\ mode = "string" /\ in.ch = quote.sign /\ ~quote.escape /\ text' = text /\ inside_couples' = inside_couples
      /\ current_indent' = current_indent /\ start' = start /\ head' = head /\ quote' = quote
      /\ \/ ~quote.long /\ EndString(r1)
         \/ quote.long /\ r1.ch # in.ch /\ Go(r1, "string") /\ str' = Append(str, in.ch)
         \/ quote.long /\ r1.ch = in.ch /\ r2.ch # in.ch /\ Go(r2, "string") /\ str' = str \o <<in.ch, in.ch>>
         \/ quote.long /\ r1.ch = in.ch /\ r2.ch = in.ch /\ EndString(r3)
    BY <1>1 DEF StringSign, Inline, source, layout
<1>3. quote \in QuoteTypes /\ Reading
    <2>1. \E b, s : AtLiteral(b, s)
        BY <1>2, InLiteral DEF Literals
    <2> QED BY <2>1, <1>2 DEF AtLiteral, Reading
<1>4. in.ch # EOF
    BY <1>2, <1>3, LettersInText DEF QuoteTypes
<1>5. PICK s, q, a : AtString(s, q, a)
    BY <1>2, <1>4, InString
<1>6. PICK g : g = quote.sign
    OBVIOUS
<1>7. /\ s \in Nat /\ s > 0 /\ q \in Nat /\ q >= s /\ a \in Nat /\ a > q /\ start = s /\ text \in Texts
      /\ Char(a) = g /\ Char(q) = g /\ g \in Quotes /\ Char(a - 1) # "\\"
      /\ At(r1) = a + 1 /\ r1.ch = Char(a + 1)
      /\ quote.long <=> Char(q + 1) = Char(q) /\ Char(q + 2) = Char(q)
      /\ quote.long => a >= q + 3 /\ \A i \in q + 3 .. a - 1 : ~SignsAt(i, g)
      /\ ~quote.long => \A i \in q + 1 .. a - 1 : Char(i) \notin {LF, CR} /\ ~(Char(i) = g /\ Char(i - 1) # "\\")
    BY <1>1, <1>2, <1>5, <1>6 DEF AtString, StringOver, QuoteTypes
<1>8. g \notin {LF, CR, EOF, "\\"}
    <2>1. g # EOF
        BY <1>7, LettersInText
    <2> QED BY <2>1, <1>7 DEF Quotes, LF, CR
<1>9. ValueAt(str, s, a) /\ g \in Held /\ a >= s
    <2>1. Char(a) \in Symbols
        BY <1>7, CharIs
    <2> QED BY <2>1, <1>5, <1>7 DEF AtString, Held
<1>10. ASSUME quote.long, r1.ch = in.ch
       PROVE  At(r2) = a + 2 /\ r2.ch = Char(a + 2) /\ (r2.ch = in.ch => At(r3) = a + 3)
    <2>1. Plain(in)
        BY <1>2, <1>10 DEF Lexing, ReaderInv, StringHeld
    <2>2. Forward(in, r1)
        BY <2>1, <1>1, <1>4, <1>7, GoesForward
    <2>3. Forward(r1, r2)
        BY <2>2, <1>1, <1>4, <1>7, <1>10, GoesForward DEF Forward
    <2>4. At(r2) = (a + 1) + 1 /\ r2.ch = Char((a + 1) + 1)
        BY <2>3, <1>7 DEF Forward
    <2>5. (a + 1) + 1 = a + 2 /\ (a + 2) + 1 = a + 3
        BY <1>7
    <2>6. r2.ch = in.ch => At(r3) = a + 3
        <3> SUFFICES ASSUME r2.ch = in.ch PROVE At(r3) = a + 3
            OBVIOUS
        <3>1. Forward(r2, r3)
            BY <2>3, <1>1, <1>4, <1>7, GoesForward DEF Forward
        <3> QED BY <3>1, <2>4, <2>5 DEF Forward
    <2> QED BY <2>4, <2>5, <2>6
<1>11. CASE ~quote.long /\ EndString(r1)
    <2>1. q + 1 <= a /\ \A x : x \in q + 1 .. a => x = a \/ (x \in q + 1 .. a - 1 /\ x # a)
        BY <1>7
    <2>2. ASSUME NEW x \in q + 1 .. a
          PROVE  Char(x) \notin {LF, CR} /\ (x = a <=> Char(x) = Char(q) /\ Char(x - 1) # "\\")
        <3>1. CASE x = a
            BY <3>1, <1>7, <1>8
        <3>2. CASE x \in q + 1 .. a - 1 /\ x # a
            BY <3>2, <1>7, <1>11
        <3> QED BY <2>1, <3>1, <3>2
    <2>3. ShortAt(q, a)
        BY <2>1, <2>2, <1>7, <1>11 DEF ShortAt
    <2> QED BY <2>3, <1>2, <1>5, <1>7, <1>11, StringEnds
<1>12. CASE quote.long /\ r1.ch # in.ch /\ Go(r1, "string") /\ str' = Append(str, in.ch)
    <2>1. in' = r1 /\ mode' = "string" /\ out' = out /\ At(in)' = a + 1
        BY <1>7, <1>12 DEF Go, At
    <2>2. /\ a + 1 >= q + 3 /\ a + 1 > q /\ a + 1 \in Nat /\ a + 1 \in Int /\ s <= a + 1 /\ (a + 1) - 1 = a
          /\ \A i : i \in q + 3 .. a => i = a \/ i \in q + 3 .. a - 1
        BY <1>7, <1>12
    <2>3. ~SignsAt(a, g)
        BY <1>2, <1>6, <1>7, <1>12 DEF SignsAt
    <2>4. \A i \in q + 3 .. a : ~SignsAt(i, g)
        BY <2>2, <2>3, <1>7, <1>12
    <2>5. StringOver(s, q, a + 1, head, quote)
        BY <2>2, <2>4, <1>2, <1>5, <1>6, <1>7, <1>8, <1>12 DEF StringOver, AtString
    <2>6. ValueAt(str', s, a + 1)
        BY <1>2, <1>6, <1>7, <1>9, <1>12, ValueGrows
    <2> QED BY <2>1, <2>2, <2>5, <2>6, <1>2, <1>3, <1>7, StringKept DEF Literals
<1>13. CASE quote.long /\ r1.ch = in.ch /\ r2.ch # in.ch /\ Go(r2, "string") /\ str' = str \o <<in.ch, in.ch>>
    <2>1. in' = r2 /\ mode' = "string" /\ out' = out /\ At(in)' = a + 2
        BY <1>10, <1>13 DEF Go, At
    <2>2. /\ a + 2 >= q + 3 /\ a + 2 > q /\ a + 2 \in Nat /\ a + 2 \in Int /\ s <= a + 2 /\ (a + 2) - 1 = a + 1
          /\ \A i : i \in q + 3 .. a + 1 => i = a \/ i = a + 1 \/ i \in q + 3 .. a - 1
          /\ (a + 1) + 1 = a + 2
        <3>1. quote.long
            BY <1>13
        <3> QED BY <3>1, <1>7
    <2>3. Char(a + 2) # g /\ Char(a + 1) = g
        BY <1>2, <1>6, <1>7, <1>10, <1>13
    <2>4. ~SignsAt(a, g) /\ ~SignsAt(a + 1, g)
        BY <2>2, <2>3 DEF SignsAt
    <2>5. \A i \in q + 3 .. a + 1 : ~SignsAt(i, g)
        BY <2>2, <2>4, <1>7, <1>13
    <2>6. StringOver(s, q, a + 2, head, quote)
        BY <2>2, <2>3, <2>5, <1>2, <1>5, <1>6, <1>7, <1>8, <1>13 DEF StringOver, AtString
    <2>7. ValueAt(str', s, a + 2)
        <3>1. PICK u, z : u = Append(str, g) /\ z = a + 1
            OBVIOUS
        <3>2. ValueAt(u, s, z)
            BY <3>1, <1>2, <1>6, <1>7, <1>9, ValueGrows
        <3>3. z \in Nat /\ z >= s /\ z + 1 = a + 2
            BY <3>1, <1>7
        <3>4. Char(z) = g
            BY <2>3, <3>1
        <3>5. ValueAt(Append(u, g), s, z + 1)
            BY <3>2, <3>3, <3>4, <1>7, <1>9, ValueGrows
        <3>6. str' = Append(u, g)
            <4>1. str \in Seq(Held) /\ g \in Held
                BY <1>9 DEF ValueAt, ValueOf
            <4> QED BY <4>1, <3>1, <1>2, <1>6, <1>13
        <3> QED BY <3>3, <3>5, <3>6
    <2> QED BY <2>1, <2>2, <2>6, <2>7, <1>2, <1>3, <1>7, StringKept DEF Literals
<1>14. CASE quote.long /\ r1.ch = in.ch /\ r2.ch = in.ch /\ EndString(r3)
    <2>1. PICK t : t = a + 2
        OBVIOUS
    <2>2. /\ t \in Nat /\ t > q /\ q + 5 <= t /\ t - 2 = a /\ a + 2 <= t /\ At(r3) = t + 1
          /\ \A x : x \in q + 3 .. t => (x + 2 <= t => x = a \/ x \in q + 3 .. a - 1) /\ (x \in q + 3 .. a - 1 => x # a)
        BY <2>1, <1>7, <1>10, <1>14
    <2>3. SignsAt(a, g)
        BY <1>2, <1>6, <1>7, <1>10, <1>14 DEF SignsAt
    <2>4. ASSUME NEW x \in q + 3 .. t PROVE x = a <=> x + 2 <= t /\ SignsAt(x, g)
        BY <2>2, <2>3, <1>7, <1>14
    <2>5. LongAt(q, t)
        BY <2>2, <2>4, <1>7, <1>14 DEF LongAt
    <2>6. Char(a) \in Quotes /\ Char(a + 1) \in Quotes /\ Char(a + 2) \in Quotes
        BY <1>2, <1>6, <1>7, <1>10, <1>14
    <2> QED BY <2>1, <2>2, <2>5, <2>6, <1>2, <1>5, <1>14, StringEnds
<1> QED BY <1>2, <1>11, <1>12, <1>13, <1>14

(* A line end is part of a long string; a short one is refused there, and no lexeme goes on. *)
LEMMA StringNewlineKept ==
    ASSUME Lexing, ~EscapedBackslash, StringNewline
    PROVE  Kept
<1>1. PICK r, r2, c : r = Nextc(in) /\ r2 = Nextc(r) /\ c = quote'
    OBVIOUS
<1>2. /\ mode = "string" /\ in.ch \in {LF, CR} /\ text' = text /\ inside_couples' = inside_couples
      /\ start' = start /\ head' = head /\ out' = out /\ c = [quote EXCEPT !.escape = FALSE]
      /\ quote.long => mode' = "string" /\ str' = Append(str, LF) /\ in' = IF in.ch = CR /\ r.ch = LF THEN r2 ELSE r
      /\ ~quote.long => mode' = "error" /\ in' = in
    BY <1>1 DEF StringNewline, Inline, source
<1>3. in.ch # EOF
    BY <1>2, EndIsNoCharacter
<1>4. PICK s, q, a : AtString(s, q, a)
    BY <1>2, <1>3, InString
<1>5. quote \in QuoteTypes
    BY <1>4 DEF AtString
<1>6. c \in QuoteTypes /\ c.sign = quote.sign /\ c.long = quote.long /\ c.escape = FALSE
    BY <1>2, <1>5 DEF QuoteTypes
<1>7. PICK g : g = quote.sign
    OBVIOUS
<1>8. /\ s \in Nat /\ s > 0 /\ q \in Nat /\ q >= s /\ a \in Nat /\ a > q /\ start = s /\ text \in Texts
      /\ Char(a) = in.ch /\ Char(q) = g /\ g \in Quotes /\ At(in) = a
      /\ At(r) = a + 1 /\ r.ch = Char(a + 1)
      /\ Slice(s, q - 1) \in StringPrefixes
      /\ quote.long <=> Char(q + 1) = Char(q) /\ Char(q + 2) = Char(q)
      /\ quote.long => a >= q + 3 /\ \A i \in q + 3 .. a - 1 : ~SignsAt(i, g)
      /\ ~quote.long => \A i \in q + 1 .. a - 1 : ~(Char(i) = g /\ Char(i - 1) # "\\")
      /\ ValueAt(str, s, a) /\ a >= s
    BY <1>1, <1>2, <1>4, <1>7 DEF AtString, StringOver, QuoteTypes
<1>9. g \notin {LF, CR} /\ LF # "\\" /\ CR # "\\"
    BY <1>8 DEF Quotes, LF, CR
<1>10. ~SignsAt(a, g)
    BY <1>2, <1>8, <1>9 DEF SignsAt
<1>11. CASE ~quote.long
    <2>1. \A l \in Nat : l >= a - 1 => ~AnyLexeme(Slice(s, l))
        BY <1>2, <1>8, <1>11, LiteralRefused
    <2>2. At(in)' = a
        BY <1>2, <1>8, <1>11 DEF At
    <2> QED BY <2>1, <2>2, <1>2, <1>8, <1>11, RefusedKept DEF Lexing
<1>12. CASE quote.long /\ ~(in.ch = CR /\ r.ch = LF)
    <2>1. in' = r /\ mode' = "string" /\ At(in)' = a + 1
        BY <1>2, <1>8, <1>12 DEF At
    <2>2. /\ a + 1 >= q + 3 /\ a + 1 > q /\ a + 1 \in Nat /\ a + 1 \in Int /\ s <= a + 1 /\ (a + 1) - 1 = a
          /\ \A i : i \in q + 3 .. a => i = a \/ i \in q + 3 .. a - 1
        BY <1>8, <1>12
    <2>3. \A i \in q + 3 .. a : ~SignsAt(i, g)
        BY <2>2, <1>8, <1>10, <1>12
    <2>4. StringOver(s, q, a + 1, head, c)
        BY <2>2, <2>3, <1>2, <1>4, <1>6, <1>7, <1>8, <1>9, <1>12 DEF StringOver, AtString
    <2>5. ValueAt(str', s, a + 1)
        <3>1. LF \in Held /\ {LF, CR} \cap Plainly = {}
            BY DEF Held, Plainly, Hex, Dec, LF, CR
        <3>2. {LF, Char(a)} \cap Plainly = {}
            BY <3>1, <1>2, <1>8
        <3> QED BY <3>1, <3>2, <1>2, <1>8, <1>12, ValueGrows
    <2> QED BY <2>1, <2>2, <2>4, <2>5, <1>1, <1>2, <1>6, <1>8, StringKept DEF Literals
<1>13. CASE quote.long /\ in.ch = CR /\ r.ch = LF
    <2>1. At(r2) = a + 2
        <3>1. Plain(in)
            BY <1>2, <1>13 DEF Lexing, ReaderInv, StringHeld
        <3>2. Forward(in, r)
            BY <3>1, <1>1, <1>3, <1>8, GoesForward
        <3>3. r.ch # EOF
            BY <1>13, EndIsNoCharacter
        <3>4. Forward(r, r2)
            BY <3>2, <3>3, <1>1, <1>8, GoesForward DEF Forward
        <3>5. At(r2) = (a + 1) + 1 /\ (a + 1) + 1 = a + 2
            BY <3>4, <1>8 DEF Forward
        <3> QED BY <3>5
    <2>2. in' = r2 /\ mode' = "string" /\ At(in)' = a + 2
        BY <2>1, <1>2, <1>13 DEF At
    <2>3. /\ a + 2 >= q + 3 /\ a + 2 > q /\ a + 2 \in Nat /\ a + 2 \in Int /\ s <= a + 2 /\ (a + 2) - 1 = a + 1
          /\ \A i : i \in q + 3 .. a + 1 => i = a \/ i = a + 1 \/ i \in q + 3 .. a - 1
        BY <1>8, <1>13
    <2>4. ~SignsAt(a + 1, g)
        BY <1>8, <1>9, <1>13 DEF SignsAt
    <2>5. \A i \in q + 3 .. a + 1 : ~SignsAt(i, g)
        BY <2>3, <2>4, <1>8, <1>10, <1>13
    <2>6. Char(a + 1) # "\\"
        BY <1>8, <1>9, <1>13
    <2>7. StringOver(s, q, a + 2, head, c)
        BY <2>3, <2>5, <2>6, <1>2, <1>4, <1>6, <1>7, <1>8, <1>13 DEF StringOver, AtString
    <2>8. ValueAt(str', s, a + 2)
        BY <1>2, <1>8, <1>13, ValueOfTwo
    <2> QED BY <2>2, <2>3, <2>7, <2>8, <1>1, <1>2, <1>6, <1>8, StringKept DEF Literals
<1> QED BY <1>11, <1>12, <1>13

(* The end of a text lies behind its characters. *)
LEMMA EndBehind ==
    ASSUME text \in Texts, NEW i \in Nat, i > 0, Char(i) = EOF
    PROVE  i > Len(text)
<1> SUFFICES ASSUME i <= Len(text) PROVE FALSE
    BY CharIs
<1>1. i \in 1 .. Len(text) /\ text[i] = EOF
    BY DEF Char
<1>2. text \in Seq(Range(text))
    BY TextIs
<1>3. EOF \in Range(text)
    BY <1>1, <1>2 DEF Range
<1>4. PICK s \in Scripts : text \in Range(s)
    BY DEF Texts
<1>5. EOF \notin Range(text)
    BY <1>4, ScriptsAreTexts DEF Range
<1> QED BY <1>3, <1>5

(* Any other character; at the end of the text the reader stays. *)
LEMMA StringCharKept ==
    ASSUME Lexing, ~EscapedBackslash, StringChar
    PROVE  Kept
<1>1. PICK r, c : r = Nextc(in) /\ c = quote'
    OBVIOUS
<1>2. /\ mode = "string" /\ in.ch \notin {LF, CR} /\ text' = text /\ inside_couples' = inside_couples /\ mode' = "string"
      /\ start' = start /\ head' = head /\ out' = out /\ c = [quote EXCEPT !.escape = in.ch = "\\"] /\ in' = r
      /\ in.ch = quote.sign => quote.escape
      /\ in.ch # EOF => str' = Append(str, in.ch)
    BY <1>1 DEF StringChar, Inline, source, Go
<1>3. PICK b, s : AtLiteral(b, s)
    BY <1>2, InLiteral DEF Literals
<1>4. s \in Nat /\ s > 0 /\ start = s /\ s <= At(in) /\ text \in Texts /\ quote \in QuoteTypes
    BY <1>2, <1>3 DEF AtLiteral, Reading
<1>5. c \in QuoteTypes /\ c.sign = quote.sign /\ c.long = quote.long /\ (c.escape <=> in.ch = "\\")
    BY <1>2, <1>4 DEF QuoteTypes
<1>6. CASE in.ch = EOF
    <2>1. Plain(in)
        BY <1>2 DEF Lexing, ReaderInv, StringHeld
    <2>2. in \in Readers /\ in.upto \in Nat /\ in.upto > 0 /\ ~in.on /\ in.buf = <<>> /\ Char(in.upto) = EOF
        BY <2>1, <1>6 DEF Plain, Readers
    <2>3. in.upto > Len(text)
        BY <2>2, <1>4, EndBehind
    <2>4. r = in
        BY <2>2, <2>3, <1>1, <1>6 DEF Nextc, Read
    <2>5. PICK z : z = At(in)
        OBVIOUS
    <2>6. At(in)' = z /\ z \in Int /\ s <= z /\ in'.ch = EOF
        BY <2>1, <2>4, <2>5, <1>2, <1>4, <1>6, AtPlain
    <2> QED BY <2>6, <1>1, <1>2, <1>4, <1>5, StringKept DEF Literals
<1>7. CASE in.ch # EOF
    <2>1. PICK t, q, a : AtString(t, q, a)
        BY <1>2, <1>7, InString
    <2>2. PICK g : g = quote.sign
        OBVIOUS
    <2>3. /\ t = s /\ q \in Nat /\ q >= s /\ a \in Nat /\ a > q
          /\ Char(a) = in.ch /\ Char(q) = g /\ g \in Quotes /\ At(r) = a + 1
          /\ Char(a) = g => Char(a - 1) = "\\"
          /\ quote.long => a >= q + 3 /\ \A i \in q + 3 .. a - 1 : ~SignsAt(i, g)
          /\ ~quote.long => \A i \in q + 1 .. a - 1 : Char(i) \notin {LF, CR} /\ ~(Char(i) = g /\ Char(i - 1) # "\\")
        BY <2>1, <2>2, <1>1, <1>2, <1>4 DEF AtString, StringOver, QuoteTypes
    <2>4. At(in)' = a + 1
        BY <2>3, <1>2 DEF At
    <2>5. /\ a + 1 > q /\ a + 1 \in Nat /\ a + 1 \in Int /\ s <= a + 1 /\ (a + 1) - 1 = a
          /\ a >= q + 3 => a + 1 >= q + 3
          /\ \A i : i \in q + 3 .. a => i = a \/ i \in q + 3 .. a - 1
          /\ \A i : i \in q + 1 .. a => i = a \/ i \in q + 1 .. a - 1
        BY <2>3, <1>4
    <2>6. ~SignsAt(a, g)
        BY <2>3 DEF SignsAt
    <2>7. quote.long => \A i \in q + 3 .. a : ~SignsAt(i, g)
        BY <2>3, <2>5, <2>6
    <2>8. ~quote.long => \A i \in q + 1 .. a : Char(i) \notin {LF, CR} /\ ~(Char(i) = g /\ Char(i - 1) # "\\")
        BY <2>3, <2>5, <1>2
    <2>9. StringOver(s, q, a + 1, head, c)
        BY <2>1, <2>2, <2>3, <2>5, <2>7, <2>8, <1>4, <1>5 DEF StringOver, AtString
    <2>10. ValueAt(str', s, a + 1)
        <3>1. ValueAt(str, s, a) /\ a >= s
            BY <2>1, <2>3, <1>4 DEF AtString
        <3>2. Char(a) \in Held
            BY <2>3, <1>4, CharIs DEF Held
        <3> QED BY <3>1, <3>2, <2>3, <1>2, <1>4, <1>7, ValueGrows
    <2> QED BY <2>4, <2>5, <2>9, <2>10, <1>1, <1>2, <1>4, <1>5, StringKept DEF Literals
<1> QED BY <1>6, <1>7

-----------------------------------------------------------------------------
(* All steps *)
(* Before the first token *)
NoTokens ==
    /\ mode = "between" /\ current_indent = -1 /\ inside_couples = 0 /\ out = <<>>
    /\ Unread(in)

(* No tokens. *)
LEMMA NoneHanded ==
    /\ <<>> \in Seq(Range(<<>>)) /\ Len(<<>>) = 0 /\ Cardinality({}) = 0
    /\ \A k \in 1 .. 0 : FALSE
BY FS_EmptySet

(* At the beginning *)
LEMMA LexBegins ==
    ASSUME NoTokens
    PROVE  Handed /\ TokenInv /\ TokensAreLexemes
<1>1. mode = "between" /\ current_indent = -1 /\ inside_couples = 0 /\ out = <<>> /\ At(in) = 0 /\ in.upto = 0
    <2>1. in \in Readers /\ in.upto = 0 /\ ~in.on /\ in.buf = <<>>
        BY DEF NoTokens, Unread
    <2>2. At(in) = 0 - 0
        <3>1. PICK b : b = in.buf
            OBVIOUS
        <3>2. Len(b) = 0
            BY <2>1, <3>1, NoneHanded
        <3> QED BY <2>1, <3>1, <3>2 DEF At
    <2> QED BY <2>1, <2>2 DEF NoTokens
<1>2. Edge = 1 /\ BetweenLines /\ mode \notin Literals
    BY <1>1 DEF Edge, BetweenLines, Literals
<1>3. After(0) = 1 /\ OpenBrackets(0) = 0
    <2>1. \A tok : {i \in 1 .. 0 : out[i].tok = tok} = {}
        OBVIOUS
    <2>2. \A tok : Count(tok, 0) = 0
        BY <2>1, NoneHanded DEF Count
    <2> QED BY <2>2 DEF After, OpenBrackets
<1>4. LastWord(0) /\ Gap(1, 0)
    <2>1. Len(out) = 0 /\ \A k \in 0 + 1 .. 0 : FALSE
        BY <1>1
    <2> QED BY <2>1 DEF LastWord, Gap
<1>5. Placed(0)
    <2>1. Len(out) = 0 /\ \A k \in 1 .. 0 : FALSE
        BY <1>1
    <2>2. 1 \in 1 .. 1 /\ 1 - 1 = 0
        OBVIOUS
    <2> QED BY <1>1, <1>2, <1>3, <1>4, <2>1, <2>2 DEF Placed
<1>6. 0 \in 0 .. Len(out)
    BY <1>1
<1>7. Handed
    BY <1>1, NoneHanded DEF Handed
<1>8. TokenInv
    BY <1>1, <1>2, <1>5, <1>6 DEF TokenInv, Reading, Literals
<1>9. TokensAreLexemes
    BY <1>1 DEF TokensAreLexemes
<1> QED BY <1>7, <1>8, <1>9

(* No step takes a token back. *)
LEMMA OutStays ==
    ASSUME Scan
    PROVE  out' = out \/ \E e : out' = Append(out, e)
<1>1. CASE BeginCall \/ IndentComment \/ CommentChar \/ BlankLine \/ IndentBlank \/ LineBegins \/ SameLevel \/ Comment \/ Blank
    BY <1>1 DEF BeginCall, IndentComment, CommentChar, BlankLine, IndentBlank, LineBegins, SameLevel, Comment, Blank, Go
<1>2. CASE Indent \/ Dedent \/ Newline \/ Bracket \/ Single \/ EndOfFile \/ BadCharacter \/ NotEqual
    BY <1>2 DEF Indent, Dedent, Newline, Bracket, Single, EndOfFile, BadCharacter, NotEqual, Return, Issue, Refuse
<1>3. CASE Doubled \/ WithEqual
    BY <1>3 DEF Doubled, WithEqual, Return, Issue
<1>4. CASE Zero \/ Number \/ Digit \/ Point \/ NumberEnds \/ NameBegins \/ NameChar
    BY <1>4 DEF Zero, Number, Digit, Point, NumberEnds, NameBegins, NameChar, Go, Return, Issue, Refuse
<1>5. CASE HeadBegins \/ HeadLetter \/ HeadFails \/ StringBegins \/ StringSign \/ StringNewline \/ StringChar
    BY <1>5 DEF HeadBegins, HeadLetter, HeadFails, StringBegins, StringSign, StringNewline, StringChar, EndString, Refuse, Go, Return, Issue
<1> QED BY <1>1, <1>2, <1>3, <1>4, <1>5 DEF Scan

(* The tokens stay a sequence. *)
LEMMA HandedStays ==
    ASSUME Handed, Scan
    PROVE  Handed'
<1>1. CASE out' = out
    BY <1>1 DEF Handed
<1>2. CASE \E e : out' = Append(out, e)
    BY <1>2, OutGrows
<1> QED BY <1>1, <1>2, OutStays

(* Scanning leaves the text alone. *)
LEMMA TextStays ==
    ASSUME Scan
    PROVE  text' = text
<1>1. CASE BeginCall \/ IndentComment \/ CommentChar \/ BlankLine \/ IndentBlank \/ LineBegins \/ SameLevel \/ Indent \/ Dedent
           \/ Newline \/ Bracket \/ EndOfFile
    BY <1>1 DEF BeginCall, IndentComment, CommentChar, BlankLine, IndentBlank, LineBegins, SameLevel, Indent, Dedent,
       Newline, Bracket, EndOfFile, source
<1>2. CASE Comment \/ Blank \/ Single \/ BadCharacter \/ NotEqual \/ Doubled \/ WithEqual \/ Zero \/ Number \/ Digit \/ Point
           \/ NumberEnds \/ NameBegins \/ NameChar
    BY <1>2 DEF Comment, Blank, Single, BadCharacter, NotEqual, Doubled, WithEqual, Zero, Number, Digit, Point, NumberEnds,
       NameBegins, NameChar, Inline, source
<1>3. CASE HeadBegins \/ HeadLetter \/ HeadFails \/ StringBegins \/ StringSign \/ StringNewline \/ StringChar
    BY <1>3 DEF HeadBegins, HeadLetter, HeadFails, StringBegins, StringSign, StringNewline, StringChar, Inline, source
<1> QED BY <1>1, <1>2, <1>3 DEF Scan

(* Each step of the scanner keeps everything. *)
LEMMA ScanKept ==
    ASSUME Lexing, ~EscapedBackslash, Scan
    PROVE  Kept
BY BeginKept, BlanksKept, BlankLineKept, LevelsKept, NewlineKept, SignsKept, DoubledKept, WithEqualKept, NotEqualKept, BadKept,
   ZeroKept, NumberKept, DigitKept, PointKept, NumberEndsKept, NameBeginsKept, NameCharKept, HeadBeginsKept, HeadLetterKept,
   HeadFailsKept, StringBeginsKept, StringSignKept, StringNewlineKept, StringCharKept DEF Scan

(* A stutter *)
LEMMA PlacedStays ==
    ASSUME UNCHANGED lexvars, NEW b
    PROVE  Placed(b) => Placed(b)'
<1>1. text' = text /\ in' = in /\ mode' = mode /\ out' = out /\ start' = start /\ current_indent' = current_indent
      /\ inside_couples' = inside_couples
    BY DEF lexvars
<1>2. Edge' = Edge /\ (BetweenLines' <=> BetweenLines)
    BY <1>1 DEF Edge, BetweenLines, At
<1>3. \A k : IsLayout(k)' <=> IsLayout(k)
    BY <1>1 DEF IsLayout
<1>4. \A i : InComment(i)' <=> InComment(i)
    <2>1. \A i : InToken(i)' <=> InToken(i)
        BY <1>1, <1>3 DEF InToken
    <2> QED BY <2>1, <1>1 DEF InComment
<1>5. \A i, j : (Gap(i, j)' <=> Gap(i, j)) /\ (HasLineEnd(i, j)' <=> HasLineEnd(i, j))
    BY <1>1, <1>4 DEF Gap, HasLineEnd
<1>6. \A tok, k : Count(tok, k)' = Count(tok, k)
    BY <1>1 DEF Count
<1>7. /\ After(b)' = After(b) /\ OpenBrackets(b)' = OpenBrackets(b)
      /\ (NewlineSince(b)' <=> NewlineSince(b)) /\ (LastWord(b)' <=> LastWord(b))
    BY <1>1, <1>3, <1>6 DEF After, OpenBrackets, NewlineSince, LastWord
<1>8. CommentOpen(b)' <=> CommentOpen(b)
    BY <1>1, <1>2, <1>7 DEF CommentOpen
<1>9. Lined(b)' <=> Lined(b)
    BY <1>1, <1>2, <1>5, <1>7 DEF Lined
<1> QED BY <1>1, <1>2, <1>3, <1>5, <1>7, <1>8, <1>9 DEF Placed

(* Nothing changes of what is read. *)
LEMMA ReadingStays ==
    ASSUME UNCHANGED lexvars, Reading
    PROVE  Reading'
<1>1. text' = text /\ in' = in /\ mode' = mode /\ start' = start /\ str' = str /\ head' = head /\ quote' = quote
    BY DEF lexvars, literal
<1>2. /\ At(in)' = At(in) /\ \A i : Char(i)' = Char(i)
      /\ \A i, j : Slice(i, j)' = Slice(i, j)
    BY <1>1 DEF At, Char, Slice
<1>3. DigitsRead => DigitsRead'
    BY <1>1, <1>2 DEF DigitsRead
<1>4. FractionRead => FractionRead'
    BY <1>1, <1>2 DEF FractionRead
<1>5. BasedRead => BasedRead'
    BY <1>1, <1>2 DEF BasedRead
<1>6. NameRead => NameRead'
    <2>1. NoLiteral(start)' <=> NoLiteral(start)
        BY <1>1, <1>2 DEF NoLiteral
    <2> QED BY <2>1, <1>1, <1>2 DEF NameRead
<1>7. HeadRead => HeadRead'
    BY <1>1, <1>2 DEF HeadRead
<1>8. StringRead => StringRead'
    <2>1. \A i, x : SignsAt(i, x)' <=> SignsAt(i, x)
        BY <1>2 DEF SignsAt
    <2> QED BY <2>1, <1>1, <1>2 DEF StringRead
<1>9. ValueRead => ValueRead'
    BY <1>1, <1>2 DEF ValueRead, ValueAt
<1> QED BY <1>1, <1>2, <1>3, <1>4, <1>5, <1>6, <1>7, <1>8, <1>9 DEF Reading

(* Nothing changes of the last token. *)
LEMMA LastStays ==
    ASSUME UNCHANGED lexvars, LastIsRight
    PROVE  LastIsRight'
<1>1. text' = text /\ out' = out
    BY DEF lexvars
<1>2. \A i, j : Slice(i, j)' = Slice(i, j)
    BY <1>1 DEF Char, Slice
<1>3. \A k : IsLayout(k)' <=> IsLayout(k)
    BY <1>1 DEF IsLayout
<1>4. \A i : InComment(i)' <=> InComment(i)
    <2>1. \A i : InToken(i)' <=> InToken(i)
        BY <1>1, <1>3 DEF InToken
    <2> QED BY <2>1, <1>1 DEF InComment
<1>5. \A i, j : (Gap(i, j)' <=> Gap(i, j)) /\ (HasLineEnd(i, j)' <=> HasLineEnd(i, j))
    BY <1>1, <1>4 DEF Gap, HasLineEnd
<1>6. \A k : OpenBrackets(k)' = OpenBrackets(k)
    BY <1>1 DEF OpenBrackets, Count
<1>7. ASSUME NEW n PROVE Before(n)' = Before(n)
    BY <1>1 DEF Before, IsLayout
<1> QED BY <1>1, <1>2, <1>5, <1>6, <1>7 DEF LastIsRight

(* What the tokens are, and what the lexer is at *)
TokensInv == Handed /\ (~EscapedBackslash => TokenInv /\ TokensAreLexemes)

(* A stutter keeps the invariant of the tokens. *)
LEMMA TokensStay ==
    ASSUME UNCHANGED lexvars, TokensInv
    PROVE  TokensInv'
<1>1. text' = text /\ in' = in /\ mode' = mode /\ start' = start /\ out' = out
    BY DEF lexvars
<1>2. Handed' /\ (EscapedBackslash' <=> EscapedBackslash)
    BY <1>1 DEF TokensInv, Handed, EscapedBackslash
<1>3. TokenInv => TokenInv'
    BY <1>1, PlacedStays, ReadingStays DEF TokenInv
<1>4. TokensAreLexemes => TokensAreLexemes'
    <2>1. At(in)' = At(in) /\ \A i, j : Slice(i, j)' = Slice(i, j)
        BY <1>1 DEF At, Char, Slice
    <2>2. IsLayout(Len(out))' <=> IsLayout(Len(out))
        BY <1>1 DEF IsLayout
    <2> QED BY <2>1, <2>2, <1>1, <1>2, LastStays DEF TokensAreLexemes
<1> QED BY <1>2, <1>3, <1>4 DEF TokensInv

(* Scanning keeps it. *)
LEMMA TokensKept ==
    ASSUME ReaderInv, LevelInv, TokensInv, Scan
    PROVE  TokensInv'
<1>1. Handed' /\ (EscapedBackslash' <=> EscapedBackslash)
    BY HandedStays, TextStays DEF TokensInv, EscapedBackslash
<1>2. ~EscapedBackslash => TokenInv' /\ TokensAreLexemes'
    BY ScanKept DEF Lexing, TokensInv, Kept
<1> QED BY <1>1, <1>2 DEF TokensInv

(* The next text begins without tokens. *)
LEMMA ResetBegins ==
    ASSUME ReaderInv, Reset
    PROVE  NoTokens'
<1>1. /\ mode = "ended" /\ current_indent' = -1 /\ mode' = "between" /\ inside_couples' = 0 /\ out' = <<>>
      /\ in' = [RecordHalt(in) EXCEPT !.upto = 0]
    BY DEF Reset
<1>2. in \in Readers
    BY <1>1 DEF ReaderInv, Plain
<1>3. in' = [[in EXCEPT !.on = FALSE, !.buf = <<>>] EXCEPT !.upto = 0]
    BY <1>1 DEF RecordHalt
<1>4. PICK b : b = <<>>
    OBVIOUS
<1>5. b \in Seq(Symbols)
    BY <1>4
<1>6. PICK d : d = [in EXCEPT !.on = FALSE, !.buf = b]
    OBVIOUS
<1>7. d \in Readers /\ ~d.on /\ d.buf = b
    BY <1>2, <1>5, <1>6 DEF Readers
<1>8. PICK e : e = [d EXCEPT !.upto = 0]
    OBVIOUS
<1>9. e \in Readers /\ ~e.on /\ e.buf = b /\ e.upto = 0
    BY <1>7, <1>8 DEF Readers
<1>10. in' = e
    BY <1>3, <1>4, <1>6, <1>8
<1>11. Unread(in)'
    BY <1>4, <1>9, <1>10 DEF Unread
<1> QED BY <1>1, <1>11 DEF NoTokens

(* For texts of any length that escape no backslash, and any number of them: each token that is not of    *)
(* the layout is a lexeme, and the longest at its place; what is between it and the one before is blanks, *)
(* line ends and comments, with a NEWLINE exactly where a line ends outside of brackets; and a text is    *)
(* refused only where what is read is no lexeme and none goes on, or where it is a literal with a \x that *)
(* has no two digits and no r before it, whatever the lexer went back over (lexer.c:467, 330).            *)
THEOREM TokensRight == LexSpec => []TokensAreLexemes
<1>1. NoTokens => TokensInv
    BY LexBegins DEF TokensInv
<1>2. LexInit => NoTokens
    <2> SUFFICES ASSUME LexInit PROVE NoTokens
        OBVIOUS
    <2>1. PICK ch \in Garbage : Fresh(ch)
        BY DEF LexInit
    <2>2. in = [upto |-> 0, ch |-> ch, on |-> FALSE, buf |-> <<>>]
        BY <2>1 DEF Fresh
    <2>3. Unread(in)
        BY <2>2 DEF Unread, Readers, Symbols
    <2> QED BY <2>1, <2>3 DEF Fresh, NoTokens
<1>3. ReaderInv /\ LevelInv /\ TokensInv /\ [LexNext]_lexvars => TokensInv' \/ NoTokens'
    <2> SUFFICES ASSUME ReaderInv, LevelInv, TokensInv, [LexNext]_lexvars
                 PROVE  TokensInv' \/ NoTokens'
        OBVIOUS
    <2>1. CASE Scan
        BY <2>1, TokensKept
    <2>2. CASE Reset
        BY <2>2, ResetBegins
    <2>3. CASE UNCHANGED lexvars
        BY <2>3, TokensStay
    <2> QED BY <2>1, <2>2, <2>3 DEF LexNext
<1>4. TokensInv => TokensAreLexemes
    BY DEF TokensInv, TokensAreLexemes
<1> QED BY <1>1, <1>2, <1>3, <1>4, ReaderHolds, LevelHolds, PTL DEF LexSpec

=============================================================================
