----------------------------- MODULE PyLiteNames ------------------------------
(***************************************************************************)
(* Where a name is looked up.  The parser notes which names a body loads   *)
(* before it stores to them (func_scope_check, parser.c:1841), def copies  *)
(* what these names mean at that moment into the closure of the function   *)
(* (make_closure, function.c:7), and a load asks the locals, the closure,  *)
(* the locals of the first frame and the builtins (vm.c:438).  Functions,  *)
(* class bodies and imported modules all run as frames of one stack.       *)
(*                                                                         *)
(* Next to it, what the text means: a name belongs to the innermost        *)
(* function around it that stores to it, or else to the module.            *)
(*                                                                         *)
(* A body is a sequence of <<"set", n>>, <<"load", n>>, <<"del", n>>,      *)
(* <<"def", u>>, <<"class", u>>, <<"import", u>>, <<"call", n>>,           *)
(* <<"get", n>> (n = n()), <<"member", n, m>> (n.m()) and <<"ret", n>>.    *)
(* Which body a unit has shows when it is first reached.  No statement     *)
(* jumps, so no instruction runs twice in a frame.                         *)
(***************************************************************************)
EXTENDS PyLiteDict, Naturals, SequencesExt

CONSTANTS
    Builtins,       \* the names that every module finds
    Units,          \* functions, classes and modules; they are names as well
    Kind,           \* of a unit: "def", "class", "module"
    Bodies,         \* the bodies that a unit may have
    Params,         \* the parameters of a unit
    Main,           \* the unit of the script
    Registered,     \* modules that are at hand without a file
    MaxFrames       \* nested calls, class bodies and imports

(* What the parser puts into the body of a unit: def, class and import     *)
(* reach a unit of their kind, and only a function returns.                *)
Formed(u, op) ==
    /\ op[1] \in {"set", "load", "del", "def", "class", "import", "call", "get", "member", "ret"}
    /\ op[1] \in {"def", "class"} => op[2] \in Units /\ Kind[op[2]] = op[1]
    /\ op[1] = "import" /\ op[2] \in Units => Kind[op[2]] = "module"
    /\ op[1] = "ret" => Kind[u] = "def"

ASSUME NamesAssumption ==
    /\ Main \in Units /\ Kind[Main] = "module"
    /\ Registered \cap Units = {}
    /\ Kind \in [Units -> {"def", "class", "module"}]
    /\ \A u \in Units : \A code \in Bodies[u] :
          code \in Seq(Range(code)) /\ \A op \in Range(code) : Formed(u, op)
    /\ MaxFrames \in Nat

VARIABLES
    body,       \* of each unit that has been reached
    frames,     \* the running [scope, fn, pc]; fn 0 is no function
    scopes,     \* of every frame that there has been: [unit, locals, env]
    funcs,      \* function objects: [unit, closure, env, running, changed]
    seen,       \* the last load: what the code found, what the text means, why they may differ
    over        \* the script ended or failed

namevars == <<body, frames, scopes, funcs, seen, over>>

(* env: the scopes around a scope that its text can name, the innermost    *)
(* first, the module last.  Two fields of a function are not in the code:  *)
(* running, the frames when it was made, and changed, the <<scope, name>>  *)
(* pairs that were stored to or deleted since then.                        *)

Unbound == <<"unbound">>
Top == Last(frames)
Here == scopes[Top.scope]
Code == body[Here.unit]
AtEnd == Top.pc > Len(Code)
Op == Code[Top.pc]

----------------------------------------------------------------------------
(* func_scope_check goes over the instructions in the order of the text;   *)
(* IMPORT_NAME is not among those that it takes for a store.               *)

Stores(op) == IF op[1] \in {"set", "def", "class", "get"} THEN {op[2]} ELSE {}
Loads(op) == IF op[1] \in {"load", "call", "get", "member", "ret"} THEN {op[2]} ELSE {}

StoredBefore(u, code, i) == Params[u] \cup UNION {Stores(code[j]) : j \in 1 .. i - 1}
Upvalues(u, code) == UNION {Loads(code[i]) \ StoredBefore(u, code, i) : i \in DOMAIN code}

(* make_closure asks the running frames, whatever function they run *)
LocalsAt(i) == scopes[frames[i].scope].locals
Holders(n) == {i \in DOMAIN frames : n \in DOMAIN LocalsAt(i)}
(* Mutant: from the first frame up *)
FirstHolder(n) == CHOOSE i \in Holders(n) : \A j \in Holders(n) : i <= j
Holder(n) == CHOOSE i \in Holders(n) : \A j \in Holders(n) : j <= i
MakeClosure(u, code) == [n \in {m \in Upvalues(u, code) : Holders(m) # {}} |-> LocalsAt(Holder(n))[n]]

(* pylt_obj_mod_getattr *)
BuiltinOf(n) == IF n \in Builtins THEN <<"builtin", n>> ELSE Unbound

(* LOAD_VAL *)
Closure == IF Top.fn = 0 THEN Nothing ELSE funcs[Top.fn].closure
Finds(n) ==
    IF n \in DOMAIN Here.locals THEN Here.locals[n]
    ELSE IF n \in DOMAIN Closure THEN Closure[n]
    ELSE IF n \in DOMAIN LocalsAt(1) THEN LocalsAt(1)[n]
    ELSE BuiltinOf(n)

----------------------------------------------------------------------------
(* What the text means *)

Named(op) == IF op[1] \in {"del", "import"} THEN {op[2]} ELSE Stores(op)
OwnNames(u) == Params[u] \cup UNION {Named(body[u][i]) : i \in DOMAIN body[u]}
IsModule(s) == Kind[scopes[s].unit] = "module"
IsBound(s, n) == n \in DOMAIN scopes[s].locals

Around(s) == <<s>> \o scopes[s].env
Owner(n) ==
    LET around == Around(Top.scope)
        owners == {i \in DOMAIN around : IsModule(around[i]) \/ n \in OwnNames(scopes[around[i]].unit)}
    IN  around[Min(owners)]

Means(n) ==
    LET s == Owner(n)
    IN  IF IsBound(s, n) THEN scopes[s].locals[n]
        ELSE IF IsModule(s) THEN BuiltinOf(n)
        ELSE Unbound

(* Why the code may find something else.                                   *)
(* unbound: the owner has no value yet, or not any more, and the code      *)
(* looks further, up to the globals of the script.                         *)
(* changed: the closure holds an older value, or none.                     *)
(* gone: the owner was not running when the function was made.             *)
(* caught: another running frame had the name, a caller or a class body.   *)
Causes(n) ==
    LET s == Owner(n)
        fn == funcs[Top.fn]
        above == {i \in DOMAIN fn.running : \A j \in DOMAIN fn.running : fn.running[j].scope = s => j < i}
        isFree == Top.fn # 0 /\ s # Top.scope
    IN  {c \in {"unbound", "changed", "gone", "caught"} :
          \/ c = "unbound" /\ ~IsBound(s, n) /\ s # 1
          \/ c = "changed" /\ isFree /\ <<s, n>> \in fn.changed /\ (s # 1 \/ n \in DOMAIN Closure)
          \/ c = "gone" /\ isFree /\ \A i \in DOMAIN fn.running : fn.running[i].scope # s
          \/ c = "caught" /\ isFree /\ \E i \in above : n \in fn.running[i].bound}

Load(n) == seen' = [code |-> Finds(n), text |-> Means(n), causes |-> Causes(n)]

----------------------------------------------------------------------------
(* Steps.  An error ends the script: no handler is set up here. *)

Changed(s, n) == [k \in DOMAIN funcs |-> [funcs[k] EXCEPT !.changed = @ \cup {<<s, n>>}]]

(* SET_VAL in the frame at i *)
SetVal(i, n, v) ==
    /\ scopes' = [scopes EXCEPT ![frames[i].scope].locals = With(@, n, v)]
    /\ funcs' = Changed(frames[i].scope, n)

Step == frames' = [frames EXCEPT ![Len(frames)].pc = @ + 1]
Is(kind) == ~over /\ ~AtEnd /\ Op[1] = kind
Stop == over' = TRUE /\ UNCHANGED <<body, frames, scopes, funcs>>

(* push_func, push_code *)
Push(u, fn, env, locals) ==
    /\ Len(frames) < MaxFrames
    /\ frames' = Append(frames, [scope |-> Len(scopes) + 1, fn |-> fn, pc |-> 1])
    /\ scopes' = Append(scopes, [unit |-> u, locals |-> locals, env |-> env])

(* Which body a unit has shows when a statement reaches it *)
Shown(u) == IF u \in DOMAIN body THEN {body[u]} ELSE Bodies[u]

NamesInit ==
    /\ \E b \in Bodies[Main] : body = [u \in {Main} |-> b]
    /\ frames = <<[scope |-> 1, fn |-> 0, pc |-> 1]>>
    /\ scopes = <<[unit |-> Main, locals |-> Nothing, env |-> <<>>]>>
    /\ funcs = <<>>
    /\ seen = [code |-> Unbound, text |-> Unbound, causes |-> {}]
    /\ over = FALSE

(* n = something new *)
Set ==
    /\ Is("set")
    /\ SetVal(Len(frames), Op[2], <<"value", Top.scope, Top.pc>>)
    /\ Step
    /\ UNCHANGED <<body, seen, over>>

LoadName ==
    /\ Is("load")
    /\ Load(Op[2])
    /\ IF Finds(Op[2]) = Unbound THEN Stop ELSE Step /\ UNCHANGED <<body, scopes, funcs, over>>

DelName ==
    /\ Is("del")
    /\ IF Op[2] \notin DOMAIN Here.locals
       THEN Stop
       ELSE /\ scopes' = [scopes EXCEPT ![Top.scope].locals = Without(@, Op[2])]
            /\ funcs' = Changed(Top.scope, Op[2])
            /\ Step /\ UNCHANGED <<body, over>>
    /\ UNCHANGED seen

(* NEW_OBJ FUNCTION *)
EnvOfInner == IF Kind[Here.unit] = "class" THEN Here.env ELSE Around(Top.scope)
Running == [i \in DOMAIN frames |-> [scope |-> frames[i].scope, bound |-> DOMAIN LocalsAt(i)]]
NewFunc(u, code) ==
    [unit |-> u, closure |-> MakeClosure(u, code), env |-> EnvOfInner, running |-> Running, changed |-> {}]

Def ==
    /\ Is("def")
    /\ \E code \in Shown(Op[2]) :
          /\ body' = With(body, Op[2], code)
          /\ scopes' = [scopes EXCEPT ![Top.scope].locals = With(@, Op[2], <<"function", Len(funcs) + 1>>)]
          /\ funcs' = Append(Changed(Top.scope, Op[2]),
                            [NewFunc(Op[2], code) EXCEPT !.changed = {<<Top.scope, Op[2]>>}])
    /\ Step
    /\ UNCHANGED <<seen, over>>

(* The body of a class is a function that is called at once *)
Class ==
    /\ Is("class")
    /\ \E code \in Shown(Op[2]) :
          /\ body' = With(body, Op[2], code)
          /\ funcs' = Append(funcs, NewFunc(Op[2], code))
    /\ Push(Op[2], Len(funcs) + 1, EnvOfInner, Nothing)
    /\ UNCHANGED <<seen, over>>

(* A file is parsed and run each time; a registered module is at hand; a   *)
(* name without a file raises FileNotFoundError, and the script ends.      *)
Import ==
    /\ Is("import") /\ Op[2] \in Units
    /\ \E code \in Shown(Op[2]) : body' = With(body, Op[2], code)
    /\ Push(Op[2], 0, <<>>, Nothing)
    /\ UNCHANGED <<funcs, seen, over>>
ImportRegistered ==
    /\ Is("import") /\ Op[2] \in Registered
    /\ SetVal(Len(frames), Op[2], <<"registered", Op[2]>>)
    /\ Step
    /\ UNCHANGED <<body, seen, over>>
ImportMissing ==
    /\ Is("import") /\ Op[2] \notin Units \cup Registered
    /\ Stop
    /\ UNCHANGED seen

(* What a call finds to run: n(), or the member m of a module or a class *)
Callee ==
    LET found == Finds(Op[2])
        has == found[1] \in {"module", "class"} /\ Op[3] \in DOMAIN scopes[found[2]].locals
    IN  IF Op[1] # "member" THEN found
        ELSE IF has THEN scopes[found[2]].locals[Op[3]]
        ELSE Unbound

(* A builtin and a class without __new__ run no frame *)
CallNative ==
    /\ \E kind \in {"call", "get", "member"} : Is(kind)
    /\ Callee[1] \in {"builtin", "class"}
    /\ Load(Op[2])
    /\ Step
    /\ IF Op[1] = "get" THEN SetVal(Len(frames), Op[2], <<"made", Top.scope, Top.pc>>) ELSE UNCHANGED <<scopes, funcs>>
    /\ UNCHANGED <<body, over>>

Call ==
    /\ \E kind \in {"call", "get", "member"} : Is(kind)
    /\ Callee[1] \notin {"builtin", "class"}
    /\ Load(Op[2])
    /\ IF Callee[1] # "function"
       THEN Stop
       ELSE LET k == Callee[2]
                fn == funcs[k]
            IN  /\ Push(fn.unit, k, fn.env, [n \in Params[fn.unit] |-> <<"value", Len(scopes) + 1, 0>>])
                /\ UNCHANGED <<body, funcs, over>>

(* RET, and what the statement of the caller does with the value *)
Back(value) ==
    LET i == Len(frames) - 1
        stmt == body[scopes[frames[i].scope].unit][frames[i].pc]
    IN  /\ frames' = [Front(frames) EXCEPT ![i].pc = @ + 1]
        /\ IF stmt[1] \in {"call", "member"} THEN UNCHANGED <<scopes, funcs>> ELSE SetVal(i, stmt[2], value)
        /\ UNCHANGED <<body, over>>

Return ==
    /\ Is("ret")
    /\ Load(Op[2])
    /\ IF Finds(Op[2]) = Unbound THEN Stop ELSE Back(Finds(Op[2]))

End ==
    /\ ~over /\ AtEnd
    /\ IF Len(frames) = 1
       THEN Stop
       ELSE Back(IF Kind[Here.unit] = "def" THEN <<"none">> ELSE <<Kind[Here.unit], Top.scope>>)
    /\ UNCHANGED seen

NamesNext ==
    \/ Set \/ LoadName \/ DelName \/ Def \/ Class
    \/ Import \/ ImportRegistered \/ ImportMissing
    \/ CallNative \/ Call \/ Return \/ End

NamesSpec == NamesInit /\ [][NamesNext]_namevars

----------------------------------------------------------------------------
(* Every load finds what the text means, unless the name has no value      *)
(* where it belongs, its value changed after the function was made, its    *)
(* owner was not running then, or a frame in between had the name          *)
(* (func_scope_check, make_closure and LOAD_VAL together).                 *)
ReadsLexical == seen.code # seen.text => seen.causes # {}
==============================================================================
