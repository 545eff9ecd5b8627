------------------------------- MODULE MCLookup --------------------------------
(***************************************************************************)
(* Scripts with a function, a function within it, a class with a method    *)
(* and an imported file that has a function, all of them about a name x.   *)
(*                                                                         *)
(* Two classes, one of which may derive from the other or from list, and   *)
(* one instance.   The builtin types have methods m and n; a script stores *)
(* functions, properties and plain values under the same names.            *)
(*                                                                         *)
(* The two have no state in common: a behaviour runs one of them, and the  *)
(* other stays parked.                                                     *)
(***************************************************************************)
EXTENDS PyLiteNames, PyLiteObjects

VARIABLE part       \* the machine that runs

mcvars == <<namevars, objvars, part>>

MCUnits == {"main", "f", "g", "k", "m"}
MCKind == [u \in MCUnits |-> CASE u \in {"main", "m"} -> "module" [] u = "k" -> "class" [] OTHER -> "def"]
MCParams == [u \in MCUnits |-> IF u = "f" THEN {"p"} ELSE {}]

(* Bodies in which nothing has made a name before it is called, asked or   *)
(* deleted only fail, and what follows the last use shows nothing.         *)
Upto(ops, n) == UNION {[1 .. i -> ops] : i \in 1 .. n}
Uses(op) == op[1] \in {"load", "call", "get", "member", "ret", "class"}
Sensible(s) ==
    Uses(Last(s)) /\ \A i \in DOMAIN s : s[i][1] \in {"call", "get", "member", "del", "ret"} =>
        \E j \in 1 .. i - 1 : s[j][1] \in {"set", "def", "class", "import"} /\ s[j][2] = s[i][2]

MainOps == {<<"set", "x">>, <<"del", "x">>, <<"def", "f">>, <<"call", "f">>, <<"get", "f">>,
            <<"class", "k">>, <<"member", "k", "g">>, <<"import", "m">>, <<"member", "m", "f">>}
FOps == {<<"set", "x">>, <<"load", "x">>, <<"def", "g">>, <<"call", "g">>, <<"ret", "g">>}

MCBodies == [u \in MCUnits |->
    CASE u = "main" -> {s \in Upto(MainOps, 4) : Sensible(s)}
                       \cup {<<<<"load", "b">>, <<"call", "b">>, <<"get", "b">>, <<"import", "math">>, <<"class", "k">>,
                              <<"call", "k">>, <<"def", "f">>, <<"get", "f">>, <<"import", "z">>>>}
      [] u = "f" -> {s \in Upto(FOps, 3) : Sensible(s)} \cup {<<<<"def", "g">>, <<"call", "f">>, <<"call", "g">>>>,
                                                           <<<<"import", "x">>, <<"def", "g">>, <<"call", "g">>, <<"del", "x">>, <<"load", "x">>>>}
      [] u = "g" -> {<<<<"load", "x">>>>, <<<<"load", "p">>>>, <<<<"load", "x">>, <<"set", "x">>, <<"load", "x">>>>}
      [] u = "k" -> {<<<<"def", "g">>>>, <<<<"set", "x">>, <<"def", "g">>>>, <<<<"load", "x">>, <<"set", "x">>>>}
      [] u = "m" -> {<<<<"set", "x">>, <<"def", "f">>>>, <<<<"def", "f">>, <<"set", "x">>>>, <<<<"def", "f">>>>}]
MCBuiltin == <<
    [n \in {"p"} |-> <<"function", "object.p">>],
    [n \in {"n", "p"} |-> IF n = "n" THEN <<"function", "type.n">> ELSE <<"property", "type.p">>],
    [n \in {"m"} |-> <<"function", "list.m">>]>>

MCValues == {<<"function", "f">>, <<"property", "q">>, <<"plain", "v">>}

NamesParked ==
    /\ body = Nothing /\ frames = <<>> /\ scopes = <<>> /\ funcs = <<>>
    /\ seen = [code |-> Unbound, text |-> Unbound, causes |-> {}] /\ over = TRUE

Init == \/ part = "names" /\ NamesInit /\ ObjectsInit
        \/ part = "objects" /\ NamesParked /\ ObjectsInit
Next == \/ part = "names" /\ NamesNext /\ UNCHANGED <<objvars, part>>
        \/ part = "objects" /\ ObjectsNext /\ UNCHANGED <<namevars, part>>
Spec == Init /\ [][Next]_mcvars
================================================================================
