--------------------------------- MODULE Vm ---------------------------------
(***************************************************************************)
(* The bytecode interpreter of one thread: _ks_exec (src/src/vm.c), the    *)
(* calls kso_call_ext makes to it and the exception functions of           *)
(* src/src/kso.c.  A step executes one bytecode, or takes one frame's way  *)
(* out of an exception.                                                    *)
(*                                                                         *)
(* What leaves the interpreter (a C function, an operator, an attribute,   *)
(* an element, an import, the next object of an iterator) is an external   *)
(* event: its operands and its result, returned or thrown, are appended to *)
(* log, and the result is any of Results for that kind of event.  After    *)
(* MaxFree events every result is the calm one, which ends loops, and      *)
(* after MaxLog events nothing is appended.                                *)
(*                                                                         *)
(* A location in the bytecode is the index of a byte, from 1; a jump is    *)
(* relative to the location after it.                                      *)
(***************************************************************************)
EXTENDS Values

CONSTANTS Code,      \* program name -> sequence of [op, arg], empty if the
                     \* compiler does not survive the program
          Programs,  \* the programs that are run
          Globals,   \* name -> value: ksg_globals
          Results(_), \* of a program: kind of external event -> its possible results
          MaxFree,   \* external events whose result is free
          MaxLog     \* external events that are logged

ASSUME LogAssumption == MaxLog \in Nat /\ MaxFree \in 0 .. MaxLog

VARIABLES
    prog,       \* the program that runs
    frames,     \* th->frames that execute bytecode, innermost last
    stk,        \* th->stk
    handlers,   \* th->handlers, n_handlers of them
    exc,        \* th->exc, or Null
    assv,       \* th->assv
    envs,       \* the dictionaries of local variables
    funcs,      \* the function objects
    log,        \* the external events so far
    mode,       \* "exec", "thrown", "done", or "crash": undefined behaviour
    result      \* what the program returned, Null if it threw

heap == <<envs, funcs>>
vars == <<prog, frames, stk, handlers, exc, assv, heap, log, mode, result>>

(* A call of a function or of a code object.  made is pushed in place of   *)
(* the result when the call is the body of a type.                         *)
NewFrame(callee, code, scope, below, made) ==
    [func |-> callee, code |-> code, pc |-> 1, scope |-> scope,
     ssl |-> below, snh |-> Len(handlers), made |-> made]

Init ==
    /\ prog \in Programs
    /\ frames = << [func |-> <<"code", prog>>, code |-> prog, pc |-> 1,
                    scope |-> <<1>>, ssl |-> 0, snh |-> 0, made |-> Null] >>
    /\ stk = <<>>
    /\ handlers = <<>>
    /\ exc = Null
    /\ assv = -1
    /\ envs = << [n \in {} |-> Null] >>
    /\ funcs = <<>>
    /\ log = <<>>
    /\ mode = IF Code[prog] = <<>> THEN "crash" ELSE "exec"
    /\ result = Null

-----------------------------------------------------------------------------
(* The current frame, instruction and stack *)

Depth == Len(frames)
Frame == frames[Depth]
InCode == Frame.pc \in DOMAIN Code[Frame.code]
Instr == IF InCode THEN Code[Frame.code][Frame.pc] ELSE ArgByte
Op == Instr.op
Arg == Instr.arg

Top(n) == stk[Len(stk) - n]
Under(n) == SubSeq(stk, 1, Len(stk) - n)
LastN(n) == SubSeq(stk, Len(stk) - n + 1, Len(stk))

Trim(s, n) == SubSeq(s, 1, IF Len(s) > n THEN n ELSE Len(s))

(* How much of the stack an instruction reads, and how much of it it pops  *)
Reads(i) ==
    CASE i.op \in {"POPU", "DUP", "STORE", "ASSM", "GETATTR", "CALLV", "FUNC", "JMPT",
                   "JMPF", "RET", "THROW", "ASSERT", "FOR_START", "FOR_NEXTT",
                   "FOR_NEXTF", "TRY_CATCH", "UOP", "NOT"} -> 1
      [] i.op \in {"RCR", "SETATTR", "TYPE", "BOP", "PUSHI"} -> 2
      [] i.op = "SLICE" -> 3
      [] i.op = "DUPI" -> -i.arg
      [] i.op \in {"DUPN", "GETELEMS", "SETELEMS", "CALL"} -> i.arg
      [] i.op = "FUNC_DEFA" -> i.arg + 1
      [] i.op = "DISPLAY" -> i.arg[2]
      [] i.op = "PUSHN" -> i.arg[2] + 1
      [] OTHER -> 0

Operands == Reads(Instr)

At(ops) == mode = "exec" /\ Op \in ops /\ Len(stk) >= Operands

Advanced(by) == [frames EXCEPT ![Depth].pc = @ + Size(Op) + by]
Goes(by, s) == frames' = Advanced(by) /\ stk' = s /\ UNCHANGED <<mode, handlers>>
Proceeds(s) == Goes(0, s)

Raises(e, s) ==
    /\ mode' = "thrown" /\ exc' = e /\ stk' = s
    /\ UNCHANGED <<frames, handlers>>

Crashes ==
    /\ mode' = "crash"
    /\ UNCHANGED <<frames, stk, handlers, exc, log, heap, assv>>

Rest == UNCHANGED <<prog, result>>
Plain == UNCHANGED <<exc, log, heap, assv>> /\ Rest

(* The results the next external event but k may have *)
Outcomes(event, k) ==
    IF Len(log) + k < MaxFree THEN Results(prog)[event].free ELSE {Results(prog)[event].calm}

Logs(events) == log' = Trim(log \o events, MaxLog)

(* The stack becomes lost if the event throws; if it returns, below with   *)
(* kept on it, or with the event's result if kept is Null.  kso_getattr    *)
(* and kso_setattr may drop a pending exception.                           *)
External(event, args, lost, below, kept) ==
    /\ \E out \in Outcomes(event, 0) :
          /\ Logs(<< <<event, args, out>> >>)
          /\ IF out.thrown THEN Raises(out.val, lost)
             ELSE /\ Proceeds(Append(below, IF kept = Null THEN out.val ELSE kept))
                  /\ exc' \in IF event \in {"getattr", "setattr"} THEN {exc, Null} ELSE {exc}
    /\ UNCHANGED <<heap, assv>> /\ Rest

(* The usual case: n operands go, the result comes *)
Computes(event, args, n) == External(event, args, Under(n), Under(n), Null)

Pushes(v, below) == Proceeds(Append(below, v)) /\ Plain

Fails(type, below) == Raises(Exc(type), below) /\ UNCHANGED <<log, heap, assv>> /\ Rest

-----------------------------------------------------------------------------
(* Stack and variables *)

Push == At({"PUSH"}) /\ Pushes(Arg, stk)

Popu == At({"POPU"}) /\ Proceeds(Under(1)) /\ Plain

Dup ==
    /\ \/ At({"DUP"}) /\ Proceeds(Append(stk, Top(0)))
       \/ At({"DUPI"}) /\ Proceeds(Append(stk, Top(-Arg - 1)))
       \/ At({"DUPN"}) /\ Proceeds(stk \o LastN(Arg))
    /\ Plain

(* L R becomes R L R *)
Rcr == At({"RCR"}) /\ Proceeds(Under(2) \o <<Top(0), Top(1), Top(0)>>) /\ Plain

Load ==
    /\ At({"LOAD"})
    /\ LET found == Holders(envs, Frame.scope, Arg)
           inner == CHOOSE i \in found : \A j \in found : i <= j
       IN IF found # {} THEN Pushes(envs[Frame.scope[inner]][Arg], stk)
          ELSE IF Arg \in DOMAIN Globals THEN Pushes(Globals[Arg], stk)
          ELSE Fails("NameError", stk)

Store ==
    /\ At({"STORE"})
    /\ Proceeds(stk)
    /\ envs' = [envs EXCEPT ![Head(Frame.scope)] = Bind(@, Arg, Top(0))]
    /\ UNCHANGED <<exc, log, funcs, assv>> /\ Rest

Assv ==
    /\ At({"ASSV"})
    /\ Proceeds(stk)
    /\ assv' = Arg
    /\ UNCHANGED <<exc, log, heap>> /\ Rest

(* The values go on the stack last first. *)
Assm ==
    /\ At({"ASSM"})
    /\ IF ~Iterable(Top(0)) \/ UnpackFails(Elements(Top(0)), Arg, assv)
       THEN Fails("Error", stk)
       ELSE /\ Proceeds(stk \o Reverse(Unpacked(Elements(Top(0)), Arg, assv)))
            /\ assv' = -1
            /\ UNCHANGED <<exc, log, heap>> /\ Rest

-----------------------------------------------------------------------------
(* Attributes, elements and operators *)

Getattr == At({"GETATTR"}) /\ Computes("getattr", <<Top(0), Arg>>, 1)

(* The object goes, and what was assigned stays. *)
Setattr ==
    /\ At({"SETATTR"})
    /\ External("setattr", <<Top(0), Arg, Top(1)>>, stk, Under(2), Top(1))

Getelems == At({"GETELEMS"}) /\ Computes("getelems", LastN(Arg), Arg)

Setelems ==
    /\ At({"SETELEMS"})
    /\ External("setelems", LastN(Arg), Under(Arg), Under(Arg), Top(0))

(* The operators ks_bop_ and ks_uop_, comparisons and ks_contains *)
Operator ==
    \/ At({"BOP"}) /\ Computes("op", <<Arg>> \o LastN(2), 2)
    \/ At({"UOP"}) /\ Computes("op", <<Arg>> \o LastN(1), 1)

Not ==
    /\ At({"NOT"})
    /\ IF TruthThrows(Top(0)) THEN Fails("Error", Under(1))
       ELSE Pushes(Bool(~Truthy(Top(0))), Under(1))

-----------------------------------------------------------------------------
(* Constructors *)

Slice == At({"SLICE"}) /\ Pushes(<<"slice", LastN(3)>>, Under(3))

(* KSB_LIST, KSB_TUPLE, KSB_SET, KSB_DICT: Arg is <<kind, n>> *)
Construct ==
    /\ At({"DISPLAY"})
    /\ IF Refused(Arg[1], LastN(Arg[2])) THEN Fails("TypeError", Under(Arg[2]))
       ELSE Pushes(Display(Arg[1], LastN(Arg[2])), Under(Arg[2]))

(* What is added to must have been made by this kind of constructor.  The  *)
(* elements before one that a set refuses have been added to it.           *)
Extends(n, elems) ==
    IF Kind(Top(n)) # Arg[1] THEN Crashes /\ Rest
    ELSE IF Refused(Arg[1], elems)
    THEN Fails("TypeError", Append(Under(n + 1), Extended(Top(n), Accepted(elems))))
    ELSE Pushes(Extended(Top(n), elems), Under(n + 1))

(* KSB_LIST_PUSHN, KSB_TUPLE_PUSHN, KSB_SET_PUSHN: the last adds not n     *)
(* values but as many as the stack has left below them, unless one of the  *)
(* n is refused before it reads on, and KSB_DICT_PUSHN does not exist.     *)
Pushn ==
    /\ At({"PUSHN"})
    /\ LET n == Arg[2]
           left == Len(stk) - n
           over == Arg[1] = "set" /\ left > n /\ ~Refused("set", LastN(n))
       IN IF Arg[1] = "dict" \/ over THEN Crashes /\ Rest
          ELSE Extends(n, SubSeq(LastN(n), 1, IF Arg[1] = "set" /\ left < n THEN left ELSE n))

(* KSB_LIST_PUSHI, KSB_TUPLE_PUSHI, KSB_SET_PUSHI *)
Pushi ==
    /\ At({"PUSHI"})
    /\ IF Iterable(Top(0)) THEN Extends(1, Elements(Top(0))) ELSE Fails("Error", Under(1))

-----------------------------------------------------------------------------
(* Calls *)

Enters(callee, code, scope, below, made) ==
    /\ frames' = Append(Advanced(0), NewFrame(callee, code, scope, Len(below), made))
    /\ stk' = below
    /\ UNCHANGED <<exc, log, funcs, assv, mode, handlers>> /\ Rest

NewEnv == Len(envs) + 1

Invokes(callee, args, below) ==
    CASE Kind(callee) = "func" /\ Accepts(funcs[callee[2]], Len(args)) ->
            /\ Enters(callee, funcs[callee[2]].code, <<NewEnv>> \o funcs[callee[2]].scope,
                      below, Null)
            /\ envs' = Append(envs, Bound(funcs[callee[2]], args))
      [] Kind(callee) = "func" /\ ~Accepts(funcs[callee[2]], Len(args)) ->
            Fails("ArgError", below)
      [] Kind(callee) = "code" ->
            /\ Enters(callee, callee[2], <<NewEnv>>, below, Null)
            /\ envs' = Append(envs, [n \in {} |-> Null])
      [] Kind(callee) \in {"cfunc", "type"} ->
            External("call", <<callee>> \o args, below, below, Null)
      [] OTHER -> Fails("TypeError", below)

(* '...' is the function or the code of the innermost frame. *)
Callee(v) == IF Kind(v) = "dots" THEN Frame.func ELSE v

Call == At({"CALL"}) /\ Invokes(Callee(LastN(Arg)[1]), Tail(LastN(Arg)), Under(Arg))

Callv ==
    /\ At({"CALLV"})
    /\ IF Kind(Top(0)) # "list" \/ Top(0)[2] = <<>> THEN Crashes /\ Rest
       ELSE Invokes(Callee(Head(Top(0)[2])), Tail(Top(0)[2]), Under(1))

(* Arg is [pars, va]; the code is on the stack. *)
Func ==
    /\ At({"FUNC"})
    /\ funcs' = Append(funcs, [code |-> Top(0)[2], pars |-> Arg.pars, va |-> Arg.va,
                               defa |-> <<>>, scope |-> Frame.scope])
    /\ Proceeds(Append(Under(1), <<"func", Len(funcs')>>))
    /\ UNCHANGED <<exc, log, envs, assv>> /\ Rest

FuncDefa ==
    /\ At({"FUNC_DEFA"})
    /\ Kind(Top(Arg)) = "func"
    /\ funcs' = [funcs EXCEPT ![Top(Arg)[2]].defa = LastN(Arg)]
    /\ Proceeds(Under(Arg))
    /\ UNCHANGED <<exc, log, envs, assv>> /\ Rest

(* The body of a type is called with the type's attributes as its locals.  *)
Type ==
    /\ At({"TYPE"})
    /\ Kind(Top(0)) = "type"
    /\ Enters(Top(1), Top(1)[2], <<NewEnv>> \o Frame.scope, Under(2), <<"type", Arg>>)
    /\ envs' = Append(envs, [n \in {} |-> Null])

(* Arg names a module and maybe a submodule.  That the submodule was not   *)
(* found is not noticed: its exception is left pending.                    *)
Import ==
    /\ At({"IMPORT"})
    /\ \E mod \in Outcomes("import", 0), sub \in Outcomes("import", 1) :
          LET found == <<"import", <<Arg[1]>>, mod>>
              more == Len(Arg) > 1 /\ ~mod.thrown
          IN /\ Logs(<<found>> \o IF more THEN << <<"import", Arg, sub>> >> ELSE <<>>)
             /\ IF mod.thrown THEN Raises(mod.val, stk)
                ELSE /\ Proceeds(Append(stk, mod.val))
                     /\ exc' = IF more /\ sub.thrown THEN sub.val ELSE exc
    /\ UNCHANGED <<heap, assv>> /\ Rest

-----------------------------------------------------------------------------
(* Control flow *)

Jmp == At({"JMP"}) /\ Goes(Arg, stk) /\ Plain

JmpIf ==
    /\ At({"JMPT", "JMPF"})
    /\ IF TruthThrows(Top(0)) THEN Fails("Error", Under(1))
       ELSE Goes(IF Truthy(Top(0)) <=> Op = "JMPT" THEN Arg ELSE 0, Under(1)) /\ Plain

(* A frame goes: what it left on the stack goes with it, its handlers stay. *)
Return(v) ==
    /\ frames' = Front(frames)
    /\ stk' = IF Depth = 1 THEN <<>>
              ELSE Append(Trim(Under(1), Frame.ssl), IF Frame.made = Null THEN v ELSE Frame.made)
    /\ mode' = IF Depth = 1 THEN "done" ELSE "exec"
    /\ result' = IF Depth = 1 THEN v ELSE Null
    /\ UNCHANGED <<prog, handlers, exc, log, heap, assv>>

Ret_ == At({"RET"}) /\ Return(Top(0))

Throw_ ==
    /\ At({"THROW"})
    /\ IF Kind(Top(0)) = "exc" THEN Fails(Top(0)[2], Under(1)) ELSE Fails("Exception", Under(1))

Assert_ ==
    /\ At({"ASSERT"})
    /\ IF TruthThrows(Top(0)) THEN Fails("Error", Under(1))
       ELSE IF Truthy(Top(0)) THEN Proceeds(Under(1)) /\ Plain
       ELSE Fails("AssertError", Under(1))

(* kso_iter *)
ForStart ==
    /\ At({"FOR_START"})
    /\ IF Iterable(Top(0)) THEN Pushes(Iterator(Top(0)), Under(1)) ELSE Fails("Error", Under(1))

(* An iterator that is out throws OutOfIterException, which is caught here *)
(* together with whatever exception was pending.                           *)
RunsOut == Exc("OutOfIterException")

ForNext ==
    /\ At({"FOR_NEXTT", "FOR_NEXTF"})
    /\ IF ~Advances(Top(0)) THEN Fails("Error", stk)
       ELSE /\ \E out \in Outcomes("next", 0) :
                 /\ Logs(<< <<"next", <<Top(0)>>, out>> >>)
                 /\ IF out.thrown /\ out.val = RunsOut
                    THEN Goes(IF Op = "FOR_NEXTF" THEN Arg ELSE 0, Under(1)) /\ exc' = Null
                    ELSE IF out.thrown THEN Raises(out.val, stk)
                    ELSE /\ Goes(IF Op = "FOR_NEXTT" THEN Arg ELSE 0, Append(stk, out.val))
                         /\ UNCHANGED exc
            /\ UNCHANGED <<heap, assv>> /\ Rest

-----------------------------------------------------------------------------
(* Exceptions *)

(* Mutant: one value too few is kept when the handler is used. *)
TryStartShort ==
    /\ At({"TRY_START"})
    /\ handlers' = Append(handlers, [code |-> Frame.code, to |-> Frame.pc + Size(Op) + Arg,
                                     len |-> Len(stk) - 1])
    /\ frames' = Advanced(0)
    /\ UNCHANGED <<stk, mode>> /\ Plain

TryStart ==
    /\ At({"TRY_START"})
    /\ handlers' = Append(handlers, [code |-> Frame.code, to |-> Frame.pc + Size(Op) + Arg,
                                     len |-> Len(stk)])
    /\ frames' = Advanced(0)
    /\ UNCHANGED <<stk, mode>> /\ Plain

(* Mutant: the handler stays. *)
TryEndKeeps ==
    /\ At({"TRY_END"})
    /\ handlers # <<>>
    /\ frames' = Advanced(Arg)
    /\ UNCHANGED <<stk, mode, handlers>> /\ Plain

TryEnd ==
    /\ At({"TRY_END"})
    /\ handlers # <<>>
    /\ handlers' = Front(handlers)
    /\ frames' = Advanced(Arg)
    /\ UNCHANGED <<stk, mode>> /\ Plain

(* Mutant: the exception stays pending. *)
CatchesPending(by, below) == Goes(by, Append(below, exc)) /\ Plain

(* kso_catch pushes the exception, and then none is pending. *)
Catches(by, below) ==
    /\ Goes(by, Append(below, exc))
    /\ exc' = Null
    /\ UNCHANGED <<log, heap, assv>> /\ Rest

TryCatch ==
    /\ At({"TRY_CATCH"})
    /\ exc # Null
    /\ CASE Verdict(Top(0), exc) = "caught" -> Catches(0, Under(1))
         [] Verdict(Top(0), exc) = "passed" -> Goes(Arg, Under(1)) /\ Plain
         [] Verdict(Top(0), exc) = "malformed" -> Fails("TypeError", Under(1))

TryCatchAll == At({"TRY_CATCH_ALL"}) /\ exc # Null /\ Catches(Arg, stk)

FinallyEnd ==
    /\ At({"FINALLY_END"})
    /\ IF exc # Null THEN Raises(exc, stk) /\ UNCHANGED <<log, heap, assv>> /\ Rest
       ELSE Proceeds(stk) /\ Plain

(* Mutant: the handlers of the callers are used too. *)
HandleAny ==
    /\ mode = "thrown"
    /\ handlers # <<>>
    /\ handlers' = Front(handlers)
    /\ stk' = Trim(stk, Last(handlers).len)
    /\ frames' = [frames EXCEPT ![Depth].pc = Last(handlers).to]
    /\ mode' = IF Last(handlers).code = Frame.code THEN "exec" ELSE "crash"
    /\ Plain

(* The label thrown: to the last handler, if this frame may have set it,   *)
(* else out of the frame.  The handler's bytecode is run even when it is   *)
(* that of a frame which has returned.                                     *)
Handle ==
    /\ mode = "thrown"
    /\ Len(handlers) > Frame.snh
    /\ handlers' = Front(handlers)
    /\ stk' = Trim(stk, Last(handlers).len)
    /\ frames' = [frames EXCEPT ![Depth].pc = Last(handlers).to]
    /\ mode' = IF Last(handlers).code = Frame.code THEN "exec" ELSE "crash"
    /\ Plain

Unwind ==
    /\ mode = "thrown"
    /\ Len(handlers) <= Frame.snh
    /\ frames' = Front(frames)
    /\ stk' = Trim(stk, Frame.ssl)
    /\ mode' = IF Depth = 1 THEN "done" ELSE "thrown"
    /\ UNCHANGED handlers /\ Plain

(* An assertion of the interpreter fails, it reads below its stack, or it  *)
(* is at what is not an instruction.                                       *)
Impossible ==
    \/ Op = "ARG"
    \/ Len(stk) < Operands
    \/ Op \in {"TRY_CATCH", "TRY_CATCH_ALL"} /\ exc = Null
    \/ Op = "TRY_END" /\ handlers = <<>>
    \/ Op = "FUNC_DEFA" /\ Kind(Top(Arg)) # "func"
    \/ Op = "TYPE" /\ Kind(Top(0)) # "type"

Crash == mode = "exec" /\ Impossible /\ Crashes /\ Rest

Over == mode \in {"done", "crash"} /\ UNCHANGED vars

Step ==
    \/ Push \/ Popu \/ Dup \/ Rcr \/ Load \/ Store \/ Assv \/ Assm
    \/ Getattr \/ Setattr \/ Getelems \/ Setelems \/ Operator \/ Not
    \/ Slice \/ Construct \/ Pushn \/ Pushi
    \/ Call \/ Callv \/ Func \/ FuncDefa \/ Type \/ Import
    \/ Jmp \/ JmpIf \/ Ret_ \/ Throw_ \/ Assert_ \/ ForStart \/ ForNext
    \/ TryStart \/ TryEnd \/ TryCatch \/ TryCatchAll \/ FinallyEnd
    \/ Handle \/ Unwind \/ Crash

Next == Step \/ Over

Spec == Init /\ [][Next]_vars

FairSpec == Spec /\ WF_vars(Step)

-----------------------------------------------------------------------------

(* No assertion of the interpreter fails and it executes nothing but the   *)
(* bytecode it is at: whatever the compiler emits for a program and        *)
(* whatever the calls, operators and iterators come back with.             *)
NeverCrashes == mode # "crash"

(* Calls nest: the stack and the handlers a frame found when it was        *)
(* entered are below those of the frames it called, and none of them is    *)
(* ever popped by a callee or on the way out of an exception.              *)
FramesNest ==
    mode # "crash" =>
        \A i \in DOMAIN frames :
            LET above == IF i < Depth THEN frames[i + 1]
                         ELSE [ssl |-> Len(stk), snh |-> Len(handlers)]
            IN frames[i].ssl <= above.ssl /\ frames[i].snh <= above.snh

AtReturn == mode = "exec" /\ Op = "RET"

(* A frame returns with as many handlers as it was called with: no handler *)
(* outlives the frame whose bytecode it points to.                         *)
HandlersBalanced == AtReturn => Len(handlers) = Frame.snh

(* What returns a value leaves no exception pending: one that is thrown is *)
(* caught by a catch clause or ends the call.                              *)
ValueOrException == AtReturn => exc = Null

(* The program ends, with a value, an exception or a crash: no jump the    *)
(* compiler patched runs in circles once iterators are out and conditions  *)
(* are false.                                                              *)
Termination == <>(mode \in {"done", "crash"})
=============================================================================
