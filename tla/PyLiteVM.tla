------------------------------ MODULE PyLiteVM ------------------------------
(***************************************************************************)
(* The bytecode loop of pylite (src/src/vm.c, pylt_vm_run) over the four   *)
(* pieces of state that it juggles: the operand stack shared by all        *)
(* frames, the frame vector, the exception handler vector and I->error.    *)
(* Values are abstract: an expression whose value the control flow cannot  *)
(* tell apart is the pseudo instruction LOADANY, which pushes an unknown   *)
(* truth value.  The observable behaviour is the sequence of events in     *)
(* trace: tested conditions, iterator steps and printed labels.            *)
(*                                                                         *)
(* The C loop has no notion of a bad step: an operand stack popped below   *)
(* its start, a frame read after it was popped or an instruction read past *)
(* the end of the code are undefined behaviour, and the outcome is         *)
(* whatever memory holds.  All these end in status "wild".                 *)
(***************************************************************************)
EXTENDS Integers, Sequences, FiniteSets

CONSTANTS
    Functions,      \* code objects: the module and the functions it defines
    Main,           \* the code object of the module
    Types,          \* exception classes
    Ancestors,      \* exception class |-> the class and all its bases
    TypeError, RuntimeError, AssertionError, NameError, ZeroDivisionError,
    Program,        \* the programs under test: id |-> [code, arity]
    MaxTrace,       \* bound: events recorded in a run
    MaxFrames       \* bound: frames alive in a run

Builtin == {TypeError, RuntimeError, AssertionError, NameError, ZeroDivisionError}

ASSUME ConstAssumption ==
    /\ Functions \subseteq Nat /\ Main \in Functions
    /\ Types \subseteq Nat /\ Builtin \subseteq Types
    /\ Ancestors \in [Types -> SUBSET Types]
    /\ \A t \in Types : t \in Ancestors[t]
    /\ MaxTrace \in Nat /\ MaxFrames \in Nat \ {0}

(* A value is a kind and what distinguishes it within the kind: the truth  *)
(* of an int, the code object of a function, the class of an exception.    *)
(* seq is any object of a type that pylt_obj_iter_new has a case for; null *)
(* is the C pointer, no object at all.                                     *)
Kinds == {"none", "int", "fn", "type", "exc", "seq", "iter", "print", "undefined", "null"}
Value == {v \in [k : Kinds, n : Nat] :
             /\ v.k = "fn" => v.n \in Functions \ {Main}
             /\ v.k \in {"type", "exc"} => v.n \in Types}
IntVal(n) == [k |-> "int", n |-> n]
None == [k |-> "none", n |-> 0]
Null == [k |-> "null", n |-> 0]
Exc(t) == [k |-> "exc", n |-> t]

(* An instruction: opcode, extra operand, and the constant that the        *)
(* operand designates in the frame's const_val.                            *)
Opcodes == {"LOAD", "LOADANY", "SET_VAL", "POP", "OPERATOR", "NEW_ITER",
            "FORITER", "CALL", "RET", "TEST", "JMP", "JMP_BACK", "ASSERT",
            "EXPT_SETUP", "EXPT_POPN", "RAISE", "NOP", "HALT"}
Instruction == [op : Opcodes, n : Nat, v : Value]

ASSUME ProgramAssumption ==
    \A p \in DOMAIN Program :
        /\ Program[p].code \in [Functions -> Seq(Instruction)]
        /\ Program[p].arity \in [Functions -> Nat]

VARIABLES
    id, prog,   \* the program being run: its name and its code, never changed
    status,     \* "run", "halt", "traceback", "wild"; "cut" at a bound
    ip,         \* ctx->ip: [fn, pc], the next instruction to fetch
    stack,      \* ctx->stack
    frames,     \* ctx->frames: [fn, saved (ip_saved), base, hbase]; the last two
                \* are ghosts, the heights of the operand stack and of the
                \* handler vector when the frame started
    cap,        \* capacity of the frame vector
    buf,        \* which allocation holds the frame vector
    handlers,   \* ctx->expt_stack: [typ, ip, frame], frame an address
    error,      \* I->error: no exception or the class of the pending one
    trace       \* observable events

vars == <<id, prog, status, ip, stack, frames, cap, buf, handlers, error, trace>>

NoError == -1
Address == [buf : Nat, idx : Nat]
Frame == [fn : Functions, saved : [fn : Functions, pc : Int], base : Int, hbase : Nat]
Handler == [typ : Types, ip : [fn : Functions, pc : Int], frame : Address]
Event == {"cond", "iter", "out"} \X Nat \X {0, 1}

TypeOK ==
    /\ id \in DOMAIN Program /\ prog = Program[id]
    /\ status \in {"run", "halt", "traceback", "wild", "cut"}
    /\ ip \in [fn : Functions, pc : Int]
    /\ stack \in Seq(Value)
    /\ frames \in Seq(Frame) /\ Len(frames) > 0
    /\ cap \in Nat /\ buf \in Nat
    /\ handlers \in Seq(Handler)
    /\ error \in Types \cup {NoError}
    /\ trace \in Seq(Event)

Code == prog.code
Ins == Code[ip.fn][ip.pc + 1]
Top == frames[Len(frames)]
CurFrame == [buf |-> buf, idx |-> Len(frames)]      \* pylt_vm_curframe
Height == Len(stack)
Peek(k) == stack[Height - k]                        \* kv_topn
Popped(n) == SubSeq(stack, 1, Height - n)           \* kv_popn
At(pc) == [fn |-> ip.fn, pc |-> pc]
NextIp == At(ip.pc + 1)

Init ==
    /\ id \in DOMAIN Program /\ prog = Program[id]
    /\ status = "run"
    /\ ip = [fn |-> Main, pc |-> 0]
    /\ stack = <<>>
    /\ frames = <<[fn |-> Main, saved |-> [fn |-> Main, pc |-> 0], base |-> 0, hbase |-> 0]>>
    /\ cap = 2 /\ buf = 0
    /\ handlers = <<>>
    /\ error = NoError
    /\ trace = <<>>
----------------------------------------------------------------------------
GrowsEarly ==           \* mutant: the vector doubles when the last slot is taken
    IF Len(frames) + 1 = cap
    THEN cap' = 2 * cap /\ buf' \in {buf, buf + 1}
    ELSE UNCHANGED <<cap, buf>>

(* kv_push on the frame vector: at capacity the vector doubles and realloc *)
(* may or may not move it.                                                 *)
GrowFrames ==
    IF Len(frames) = cap
    THEN cap' = 2 * cap /\ buf' \in {buf, buf + 1}
    ELSE UNCHANGED <<cap, buf>>

(* pl_error and pl_error_by_type build the exception object by running a   *)
(* nested [CALL, HALT] code in a frame of its own, gone again on return.   *)
SetError(t) == error' = t /\ GrowFrames /\ UNCHANGED frames

NoRaise == UNCHANGED <<frames, cap, buf, error>>
Emit(e, l, b) == trace' = Append(trace, <<e, l, b>>)
Quiet == UNCHANGED trace

Running == status = "run" /\ error = NoError

(* The step is defined: the instruction is inside the code of the frame on *)
(* top (the constants come from that frame), its operands are on the stack *)
(* and an object used as an iterator is one.                               *)
Needs(i) ==
    CASE i.op \in {"SET_VAL", "POP", "NEW_ITER", "FORITER", "TEST", "EXPT_SETUP"} -> 1
      [] i.op = "OPERATOR" -> 2
      [] i.op \in {"CALL", "ASSERT"} -> i.n + 1
      [] i.op = "RAISE" -> i.n
      [] i.op = "RET" -> i.n
      [] OTHER -> 0

Fetchable == ip.fn = Top.fn /\ ip.pc \in 0 .. Len(Code[ip.fn]) - 1

Defined ==
    /\ Fetchable
    /\ Height >= Needs(Ins)
    /\ Ins.op = "FORITER" => Peek(0).k = "iter"
    /\ Ins.op = "RET" => Len(frames) > 1
    /\ Ins.op = "EXPT_SETUP" => Peek(0).k = "type"
    /\ Ins.op = "EXPT_POPN" => Len(handlers) >= Ins.n

Undefined ==
    /\ Running /\ ~ Defined
    /\ status' = "wild"
    /\ UNCHANGED <<id, prog, ip, stack, frames, cap, buf, handlers, error, trace>>

Exec(op) ==
    /\ Running /\ Defined
    /\ Ins.op = op
    /\ UNCHANGED <<id, prog, status>>
----------------------------------------------------------------------------
(* LOADCONST and LOAD_VAL; the value "undefined" is a name that is nowhere *)
(* to be found.                                                            *)
Load ==
    /\ Exec("LOAD")
    /\ ip' = NextIp /\ Quiet /\ UNCHANGED handlers
    /\ IF Ins.v.k = "undefined"
       THEN SetError(NameError) /\ UNCHANGED stack
       ELSE stack' = Append(stack, Ins.v) /\ NoRaise

(* Any expression of unknown value, the condition of an if or a while.     *)
LoadAny ==
    /\ Exec("LOADANY")
    /\ Len(trace) < MaxTrace
    /\ \E b \in {0, 1} :
          /\ stack' = Append(stack, IntVal(b))
          /\ Emit("cond", Ins.n, b)
    /\ ip' = NextIp /\ NoRaise /\ UNCHANGED handlers

(* SET_VAL keeps the value on the stack: POP follows it.                   *)
SetVal ==
    /\ Exec("SET_VAL")
    /\ ip' = NextIp /\ NoRaise /\ Quiet /\ UNCHANGED <<stack, handlers>>

Pop ==
    /\ Exec("POP")
    /\ stack' = Popped(1)
    /\ ip' = NextIp /\ NoRaise /\ Quiet /\ UNCHANGED handlers

(* A binary operator takes both operands before it finds out that it does  *)
(* not support them.                                                       *)
Operator ==
    /\ Exec("OPERATOR")
    /\ ip' = NextIp /\ Quiet /\ UNCHANGED handlers
    /\ IF Peek(0).k = "int" /\ Peek(1).k = "int"
       THEN stack' = Append(Popped(2), IntVal(1)) /\ NoRaise
       ELSE stack' = Popped(2) /\ SetError(TypeError)

(* pylt_obj_iter_new: an iterator is its own iterator, and what is not     *)
(* iterable has none.  n names the loop that makes the iterator.           *)
IterOf(v, n) ==
    CASE v.k = "iter" -> v
      [] v.k = "seq" -> [k |-> "iter", n |-> n]
      [] OTHER -> Null

(* NEW_OBJ ITER pushes what it is given, unchecked: it is the FORITER that *)
(* always follows that runs into the null pointer.                         *)
NewIter ==
    /\ Exec("NEW_ITER")
    /\ stack' = Append(Popped(1), IterOf(Peek(0), Ins.n))
    /\ ip' = NextIp /\ NoRaise /\ Quiet /\ UNCHANGED handlers

ForIterPops ==          \* mutant: the exhausted iterator is popped at once
    /\ Exec("FORITER")
    /\ Len(trace) < MaxTrace
    /\ \/ /\ Emit("iter", Peek(0).n, 1)
          /\ stack' = Append(stack, IntVal(1))
          /\ ip' = NextIp
       \/ /\ Emit("iter", Peek(0).n, 0)
          /\ ip' = At(ip.pc + 1 + Ins.n)
          /\ stack' = Popped(1)
    /\ NoRaise /\ UNCHANGED handlers

(* FORITER steps whatever iterator is on top; exhaustion jumps.            *)
ForIter ==
    /\ Exec("FORITER")
    /\ Len(trace) < MaxTrace
    /\ \/ /\ Emit("iter", Peek(0).n, 1)
          /\ stack' = Append(stack, IntVal(1))
          /\ ip' = NextIp
       \/ /\ Emit("iter", Peek(0).n, 0)
          /\ ip' = At(ip.pc + 1 + Ins.n)
          /\ UNCHANGED stack
    /\ NoRaise /\ UNCHANGED handlers

Test ==
    /\ Exec("TEST")
    /\ stack' = Popped(1)
    /\ ip' = IF Peek(0) = IntVal(0) \/ Peek(0) = None THEN At(ip.pc + 1 + Ins.n) ELSE NextIp
    /\ NoRaise /\ Quiet /\ UNCHANGED handlers

JmpFromItself ==        \* mutant: the distance counts from the jump itself
    /\ Exec("JMP")
    /\ ip' = At(ip.pc + Ins.n)
    /\ NoRaise /\ Quiet /\ UNCHANGED <<stack, handlers>>

Jmp ==
    /\ Exec("JMP")
    /\ ip' = At(ip.pc + 1 + Ins.n)
    /\ NoRaise /\ Quiet /\ UNCHANGED <<stack, handlers>>

JmpBack ==
    /\ Exec("JMP_BACK")
    /\ ip' = At(ip.pc + 1 - Ins.n)
    /\ NoRaise /\ Quiet /\ UNCHANGED <<stack, handlers>>

Nop ==
    /\ Exec("NOP")
    /\ ip' = NextIp /\ NoRaise /\ Quiet /\ UNCHANGED <<stack, handlers>>

AssertTrue ==
    /\ Exec("ASSERT")
    /\ stack' = Popped(Ins.n + 1)
    /\ IF Peek(Ins.n) = IntVal(0) \/ Peek(Ins.n) = None
       THEN SetError(AssertionError) ELSE NoRaise
    /\ ip' = NextIp /\ Quiet /\ UNCHANGED handlers
----------------------------------------------------------------------------
Callee == Peek(Ins.n)
Callable == {"fn", "type", "print"}
ArityOK == Callee.k = "fn" => prog.arity[Callee.n] = Ins.n

(* func_call_check refuses the call: callee and arguments stay behind.     *)
CallRefused ==
    /\ Exec("CALL")
    /\ Callee.k \notin Callable \/ ~ ArityOK
    /\ SetError(TypeError)
    /\ ip' = NextIp /\ Quiet /\ UNCHANGED <<stack, handlers>>

CallKeepsCallee ==      \* mutant: the arguments are popped, the callee is not
    /\ Exec("CALL")
    /\ Callee.k = "fn" /\ ArityOK
    /\ Len(frames) < MaxFrames
    /\ GrowFrames
    /\ frames' = Append([frames EXCEPT ![Len(frames)].saved = NextIp],
                        [fn |-> Callee.n, saved |-> NextIp,
                         base |-> Height - (Ins.n + 1), hbase |-> Len(handlers)])
    /\ stack' = Popped(Ins.n)
    /\ ip' = [fn |-> Callee.n, pc |-> 0]
    /\ Quiet /\ UNCHANGED <<handlers, error>>

CallFunction ==
    /\ Exec("CALL")
    /\ Callee.k = "fn" /\ ArityOK
    /\ Len(frames) < MaxFrames
    /\ GrowFrames
    /\ frames' = Append([frames EXCEPT ![Len(frames)].saved = NextIp],
                        [fn |-> Callee.n, saved |-> NextIp,
                         base |-> Height - (Ins.n + 1), hbase |-> Len(handlers)])
    /\ stack' = Popped(Ins.n + 1)
    /\ ip' = [fn |-> Callee.n, pc |-> 0]
    /\ Quiet /\ UNCHANGED <<handlers, error>>

(* Calling an exception class makes an instance; print shows its argument. *)
CallType ==
    /\ Exec("CALL")
    /\ Callee.k = "type"
    /\ stack' = Append(Popped(Ins.n + 1), Exc(Callee.n))
    /\ ip' = NextIp /\ NoRaise /\ Quiet /\ UNCHANGED handlers

CallShow ==
    /\ Exec("CALL")
    /\ Callee.k = "print"
    /\ Len(trace) < MaxTrace
    /\ Emit("out", Callee.n, 1)
    /\ stack' = Append(Popped(Ins.n + 1), None)
    /\ ip' = NextIp /\ NoRaise /\ UNCHANGED handlers

(* RET leaves the value where it is: whatever else the callee left on the  *)
(* shared stack stays below it.                                            *)
Ret ==
    /\ Exec("RET")
    /\ stack' = IF Ins.n = 0 THEN Append(stack, None) ELSE stack
    /\ frames' = SubSeq(frames, 1, Len(frames) - 1)
    /\ ip' = frames[Len(frames) - 1].saved
    /\ Quiet /\ UNCHANGED <<cap, buf, handlers, error>>

Halt ==
    /\ Running /\ Defined /\ Ins.op = "HALT"
    /\ status' = "halt"
    /\ ip' = NextIp /\ NoRaise /\ Quiet /\ UNCHANGED <<id, prog, stack, handlers>>
----------------------------------------------------------------------------
ExptSetup ==
    /\ Exec("EXPT_SETUP")
    /\ stack' = Popped(1)
    /\ handlers' = Append(handlers, [typ |-> Peek(0).n, frame |-> CurFrame,
                                     ip |-> At(ip.pc + 1 + Ins.n)])
    /\ ip' = NextIp /\ NoRaise /\ Quiet

ExptPopOne ==           \* mutant: one handler is dropped, not n
    /\ Exec("EXPT_POPN")
    /\ handlers' = SubSeq(handlers, 1, Len(handlers) - 1)
    /\ ip' = NextIp /\ NoRaise /\ Quiet /\ UNCHANGED stack

ExptPopn ==
    /\ Exec("EXPT_POPN")
    /\ handlers' = SubSeq(handlers, 1, Len(handlers) - Ins.n)
    /\ ip' = NextIp /\ NoRaise /\ Quiet /\ UNCHANGED stack

Raise ==
    /\ Exec("RAISE")
    /\ stack' = Popped(Ins.n)
    /\ IF Ins.n = 0 THEN SetError(RuntimeError)
       ELSE CASE Peek(0).k = "type" -> SetError(Peek(0).n)
              [] Peek(0).k = "exc" -> error' = Peek(0).n /\ UNCHANGED <<frames, cap, buf>>
              [] OTHER -> SetError(RuntimeError)
    /\ ip' = NextIp /\ Quiet /\ UNCHANGED handlers

(* pylt_vm_except_check, which runs after the next instruction is fetched. *)
(* The handler entries are scanned from the newest; those of other frames  *)
(* met on the way are counted, and that many are dropped from the top.     *)
Pending == status = "run" /\ error # NoError
Catches(j) == handlers[j].typ \in Ancestors[error]
Matching == {j \in 1..Len(handlers) : Catches(j)}
Oldest == CHOOSE j \in Matching : \A i \in Matching : j <= i     \* mutant
Newest == CHOOSE j \in Matching : \A i \in Matching : i <= j
Foreign(j) == {i \in j..Len(handlers) : handlers[i].frame # CurFrame}

(* The C loop pops frames until the address of the last popped one is the  *)
(* handler's: none if it is the frame on top, and else the handler's frame *)
(* is popped too; a stale address, or the first frame popped, runs off the *)
(* start of the vector.                                                    *)
FramesAfter(j) ==
    LET k == handlers[j].frame.idx IN
    IF handlers[j].frame = CurFrame THEN frames ELSE SubSeq(frames, 1, k - 1)
RunsOff(j) ==
    LET h == handlers[j].frame IN
    h # CurFrame /\ ~ (h.buf = buf /\ h.idx \in 2 .. Len(frames))

CatchWithoutValue ==    \* mutant: the exception is not pushed
    /\ Pending /\ Matching # {}
    /\ ~ RunsOff(Newest)
    /\ handlers' = SubSeq(handlers, 1, Len(handlers) - Cardinality(Foreign(Newest)))
    /\ frames' = FramesAfter(Newest)
    /\ ip' = handlers[Newest].ip
    /\ error' = NoError
    /\ UNCHANGED <<id, prog, status, stack, cap, buf, trace>>

CatchError ==
    /\ Pending /\ Matching # {}
    /\ ~ RunsOff(Newest)
    /\ handlers' = SubSeq(handlers, 1, Len(handlers) - Cardinality(Foreign(Newest)))
    /\ frames' = FramesAfter(Newest)
    /\ ip' = handlers[Newest].ip
    /\ stack' = Append(stack, Exc(error))
    /\ error' = NoError
    /\ UNCHANGED <<id, prog, status, cap, buf, trace>>

CatchRunsOff ==
    /\ Pending /\ Matching # {}
    /\ RunsOff(Newest)
    /\ status' = "wild"
    /\ UNCHANGED <<id, prog, ip, stack, frames, cap, buf, handlers, error, trace>>

Traceback ==
    /\ Pending /\ Matching = {}
    /\ status' = "traceback"
    /\ UNCHANGED <<id, prog, ip, stack, frames, cap, buf, handlers, error, trace>>

(* Not a step of the program: the run is given up at a bound of the model. *)
Cut ==
    /\ Running /\ Defined
    /\ \/ /\ Len(trace) = MaxTrace
          /\ \/ Ins.op \in {"LOADANY", "FORITER"}
             \/ Ins.op = "CALL" /\ Callee.k = "print"
       \/ Ins.op = "CALL" /\ Callee.k = "fn" /\ ArityOK /\ Len(frames) >= MaxFrames
    /\ status' = "cut"
    /\ UNCHANGED <<id, prog, ip, stack, frames, cap, buf, handlers, error, trace>>

Stopped == status # "run" /\ UNCHANGED vars

Step ==
    \/ Load \/ LoadAny \/ SetVal \/ Pop \/ Operator \/ NewIter \/ ForIter
    \/ Test \/ Jmp \/ JmpBack \/ Nop \/ AssertTrue
    \/ CallRefused \/ CallFunction \/ CallType \/ CallShow \/ Ret \/ Halt
    \/ ExptSetup \/ ExptPopn \/ Raise
    \/ CatchError \/ CatchRunsOff \/ Traceback \/ Undefined \/ Cut

Next == Step \/ Stopped

Spec == Init /\ [][Next]_vars
FairSpec == Spec /\ WF_vars(Step)
----------------------------------------------------------------------------
(* The generated code never makes the loop pop what is not there, jump out *)
(* of its code, read a frame that is gone or step what is no iterator.     *)
NeverWild == status # "wild"

(* A call replaces callee and arguments by exactly one value: when a frame *)
(* is left, the operands that its caller had are all there, unchanged, and *)
(* one value is on top of them (BC_RET, and the args popped by BC_CALL).   *)
KeepsOperands ==
    Len(frames') < Len(frames) =>
        /\ Len(stack') = Top.base + 1
        /\ \A k \in 1..Top.base : stack'[k] = stack[k]
CallerKept == [][KeepsOperands]_vars

(* A module that runs to HALT leaves nothing behind: no operand, no frame  *)
(* but its own and no armed handler.                                       *)
CleanAtHalt ==
    status = "halt" => stack = <<>> /\ Len(frames) = 1 /\ handlers = <<>>

(* When an exception is caught, the frame on top is the one that armed the *)
(* handler and control is in its code: the frames above it, and nothing    *)
(* else, are given up ("switch the frame stack", vm.c:373).                *)
CatchKeepsFrame ==
    Pending /\ Matching # {} =>
        /\ status' = "run"
        /\ frames' = SubSeq(frames, 1, handlers[Newest].frame.idx)
        /\ ip'.fn = frames'[Len(frames')].fn
CaughtInItsFrame == [][CatchKeepsFrame]_vars

(* Every run stops: the loop cannot go round for ever without an event,    *)
(* that is without a condition tested, an iterator stepped or a print.     *)
Stops == <>(status # "run")
=============================================================================
