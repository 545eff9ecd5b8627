---------------------------- MODULE MCContainers ----------------------------
(***************************************************************************)
(* Small instances of the hash table, of a list, of numbers and of text.   *)
(* The four have no state in common: a behaviour runs one of them, and the *)
(* others stay parked.                                                     *)
(***************************************************************************)
EXTENDS PyLiteHash, PyLiteList, PyLiteNumber, PyLiteString, TLC

CONSTANTS v1, v2      \* values of a dict

VARIABLE part       \* the machine that runs

mcvars == <<hvars, lvars, nvars, svars, part>>

(* Keys 1 and 2 collide at the end of the smallest table and part in the   *)
(* next one; 3 lies where one of them goes on.                             *)
MCHash == [k \in Key |-> CASE k = 1 -> 3 [] k = 2 -> 7 [] k = 3 -> 0]
MCBatch == {2 :> v2, [k \in Key |-> v1]}

(* Ints beyond a C int and beyond a word, halves, and the bools *)
MCOperands ==
    {IntNum(i) : i \in (-4 .. 4) \cup {-17, -9, -8, 7, 8, 15, 17}} \cup {FloatNum(t) : t \in {-6, -3, -1, 0, 1, 2, 3, 8, 40}} \cup {BoolNum(TRUE), BoolNum(FALSE)}

(* Two and three characters of each kind that repr tells apart; long ones  *)
(* that make its buffer grow                                               *)
UpTo(S, n) == UNION {[1 .. i -> S] : i \in 0 .. n}
MCTexts == UpTo({0, 7, 32, 39, 92, 110, 120, 49, 127, 200}, 3) \cup UpTo({10, 1, 65}, 6)
MCSubs == UpTo({1, 65}, 2)
MCIndices == {-4, -1, 0, 1, 2, 3, 7}

MCPieces ==
    {Char(c) : c \in {65, 37, 92, 110, 118, 120, 49, 200}}
    \cup {Field(<<>>, width, 0, t) : width \in {0, 12}, t \in {TypeD, TypeS, TypeR}}
    \cup {Field(f, 3, 0, t) : f \in {<<45>>, <<48>>, <<48, 45>>}, t \in {TypeD, TypeS}}
    \cup {Field(<<>>, 0, n, TypeF) : n \in 0 .. 2} \cup {Field(<<>>, 0, 1, 71)}
    \cup {Field(<<48>>, 12, 0, TypeP)} \cup {Field(<<>>, 0, 0, t) : t \in {88, 99, 122}}
MCInt == [kind |-> "int", text |-> <<55>>]
MCNegative == [kind |-> "int", text |-> <<45, 55>>]
MCString == [kind |-> "str", text |-> <<65, 39, 1>>]
MCFloat == [kind |-> "float", text |-> <<49, 46, 53>>]
MCWhole == [kind |-> "float", text |-> <<49>>]
MCFormats == UpTo(MCPieces, 2) \cup [1 .. 4 -> {Char(92), Char(118), Char(120), Char(49), Field(<<>>, 0, 0, TypeD)}]
MCArgses == {<<>>, <<MCInt, MCString>>, <<MCString, MCNegative, MCInt>>, <<MCFloat>>, <<MCWhole>>}
MCAddresses == {<<48, 120, 55>>, <<48, 120, 49, 55>>}

MCSteps == {-2, -1, 1, 2}

ListParked ==
    /\ mem = [i \in {} |-> Junk] /\ maxsize = 0 /\ len = 0 /\ ref = <<>>
    /\ tame = FALSE /\ ok = TRUE
NumberParked == acc = BoolNum(FALSE) /\ oper = BoolNum(FALSE) /\ meant = 0 /\ exact = FALSE
StringParked ==
    /\ task = "none" /\ src = <<>> /\ at = 1 /\ out = <<>> /\ cap = 0
    /\ pieces = <<>> /\ args = <<>> /\ used = 0 /\ status = "done"

Init ==
    /\ HashInit
    /\ \/ part = "hash" /\ ListParked /\ NumberParked /\ StringParked
       \/ part = "list" /\ ListInit /\ NumberParked /\ StringParked
       \/ part = "number" /\ ListParked /\ NumberInit /\ StringParked
       \/ part = "string" /\ ListParked /\ NumberParked /\ StringInit

(* An iteration that has ended changes nothing: the table goes on as in a  *)
(* behaviour without it.                                                   *)
Iterated == it.on /\ (it.null \/ it.lost)
Next ==
    \/ part = "hash" /\ ~Iterated /\ HashNext /\ UNCHANGED <<lvars, nvars, svars, part>>
    \/ part = "list" /\ ListNext /\ UNCHANGED <<hvars, nvars, svars, part>>
    \/ part = "number" /\ NumberNext /\ UNCHANGED <<hvars, lvars, svars, part>>
    \/ part = "string" /\ StringNext /\ UNCHANGED <<hvars, lvars, nvars, part>>

(* A call that has begun goes on: nothing in a rehash or a put waits. *)
Spec == Init /\ [][Next]_mcvars /\ WF_mcvars(part = "hash" /\ HashStep /\ UNCHANGED <<lvars, nvars, svars, part>>)
=============================================================================
