------------------------------ MODULE Semantics ------------------------------
(***************************************************************************)
(* What a program of kscript means, by recursion on its syntax tree: the   *)
(* specification the compiler and the interpreter together implement.  It  *)
(* knows nothing of bytecode, stacks or handlers.  Given the log of an     *)
(* execution it replays the program, taking the result of each external    *)
(* event from the log.                                                     *)
(*                                                                         *)
(* A world w is [at, envs, funcs, results]: the next entry of the log, the *)
(* scopes, the function objects, and the results of events.  Evaluation    *)
(* ends in an outcome [w, tag, val], where tag is "normal", "break",       *)
(* "cont", "ret", "throw", or "wrong" if the log has another event than    *)
(* the one the program asks for.                                           *)
(* A context c is [scope, self]: the scopes and what '...' denotes.        *)
(***************************************************************************)
EXTENDS Vm, Compiler

CONSTANT Trees      \* program name -> syntax tree

Outcome(w, tag, val) == [w |-> w, tag |-> tag, val |-> val]
Gives(w, val) == Outcome(w, "normal", val)
Throws(w, type) == Outcome(w, "throw", Exc(type))

Then(o, F(_, _)) == IF o.tag = "normal" THEN F(o.w, o.val) ELSE o

Decide(o, Yes(_), No(_)) ==
    Then(o, LAMBDA w, x : IF TruthThrows(x) THEN Throws(w, "Error")
                          ELSE IF Truthy(x) THEN Yes(w) ELSE No(w))

(* What is not logged any more has the calm result. *)
Event(w, event, args) ==
    LET logged == w.at <= Len(log)
        out == IF logged THEN log[w.at][3] ELSE w.results[event].calm
        after == [w EXCEPT !.at = IF logged THEN @ + 1 ELSE @]
    IN IF IF logged THEN log[w.at][1] # event \/ log[w.at][2] # args ELSE Len(log) < MaxLog
       THEN Outcome(w, "wrong", Null)
       ELSE Outcome(after, IF out.thrown THEN "throw" ELSE "normal", out.val)

RECURSIVE Eval(_, _, _), AssignTo(_, _, _, _), While(_, _, _, _), Iterate(_, _, _, _, _),
          Clause(_, _, _, _, _), Chain(_, _, _, _, _)

(* The values of some trees, left to right, those of a star spread out *)
EvalAll(w, vs, c) ==
    LET more(acc, v) ==
            Then(acc, LAMBDA w1, vals :
                IF IsStar(v)
                THEN Then(Eval(w1, v.sub[1], c), LAMBDA w2, x :
                         IF Iterable(x) THEN Gives(w2, vals \o Elements(x)) ELSE Throws(w2, "Error"))
                ELSE Then(Eval(w1, v, c), LAMBDA w2, x : Gives(w2, Append(vals, x))))
    IN FoldLeft(more, Gives(w, <<>>), vs)

EvalBinary(w, op, l, r) == Event(w, "op", <<op, l, r>>)

-----------------------------------------------------------------------------
(* Names and assignment *)

Named(w, name, c) ==
    LET found == Holders(w.envs, c.scope, name)
        inner == CHOOSE i \in found : \A j \in found : i <= j
    IN IF found # {} THEN Gives(w, w.envs[c.scope[inner]][name])
       ELSE IF name \in DOMAIN Globals THEN Gives(w, Globals[name])
       ELSE Throws(w, "NameError")

SetName(w, name, value, c) ==
    Gives([w EXCEPT !.envs[Head(c.scope)] = Bind(@, name, value)], value)

AssignTo(w, target, value, c) ==
    CASE target.k = "NAME" -> SetName(w, target.val, value, c)
      [] target.k = "ATTR" ->
            Then(Eval(w, target.sub[1], c), LAMBDA w1, obj :
                Then(Event(w1, "setattr", <<obj, target.val, value>>), LAMBDA w2, x :
                    Gives(w2, value)))
      [] target.k = "ELEM" ->
            Then(EvalAll(w, target.sub, c), LAMBDA w1, args :
                Then(Event(w1, "setelems", Append(args, value)), LAMBDA w2, x :
                    Gives(w2, value)))
      [] target.k = "STAR" -> AssignTo(w, target.sub[1], value, c)
      [] target.k = "TUPLE" ->
            IF ~Iterable(value)
               \/ UnpackFails(Elements(value), Len(target.sub), StarAt(target.sub))
            THEN Throws(w, "Error")
            ELSE LET parts == Unpacked(Elements(value), Len(target.sub), StarAt(target.sub))
                     one(acc, i) == Then(acc, LAMBDA w1, x :
                                        AssignTo(w1, target.sub[i], parts[i], c))
                 IN Then(FoldLeft(one, Gives(w, value), [i \in DOMAIN parts |-> i]),
                         LAMBDA w1, x : Gives(w1, value))

(* The indices of an element come before the value, an attribute's object  *)
(* after it.                                                               *)
EvalAssign(w, target, rhs, c) ==
    IF target.k = "ELEM"
    THEN Then(EvalAll(w, Append(target.sub, rhs), c), LAMBDA w1, args :
             Then(Event(w1, "setelems", args), LAMBDA w2, x : Gives(w2, Last(args))))
    ELSE Then(Eval(w, rhs, c), LAMBDA w1, x : AssignTo(w1, target, x, c))

(* An augmented assignment evaluates the indices of an element once. *)
EvalAug(w, v, c) ==
    LET target == v.sub[1]
        combined(w1, old) ==
            Then(Eval(w1, v.sub[2], c), LAMBDA w2, x : EvalBinary(w2, v.val, old, x))
    IN IF target.k = "ELEM"
       THEN Then(EvalAll(w, target.sub, c), LAMBDA w1, args :
                Then(Then(Event(w1, "getelems", args), combined), LAMBDA w2, new :
                    Then(Event(w2, "setelems", Append(args, new)), LAMBDA w3, x :
                        Gives(w3, new))))
       ELSE Then(Then(Eval(w, target, c), combined), LAMBDA w1, new :
                AssignTo(w1, target, new, c))

-----------------------------------------------------------------------------
(* Calls *)

Body(o) ==
    CASE o.tag = "normal" -> Gives(o.w, None)
      [] o.tag = "ret" -> Gives(o.w, o.val)
      [] OTHER -> o

Runs(w, callee, code, scope, env) ==
    Body(Eval([w EXCEPT !.envs = Append(@, env)], Trees[code],
              [scope |-> <<Len(w.envs) + 1>> \o scope, self |-> callee]))

NoVars == [n \in {} |-> Null]

Apply(w, callee, args) ==
    CASE Kind(callee) = "func" ->
            LET f == w.funcs[callee[2]] IN
            IF Accepts(f, Len(args)) THEN Runs(w, callee, f.code, f.scope, Bound(f, args))
            ELSE Throws(w, "ArgError")
      [] Kind(callee) = "code" -> Runs(w, callee, callee[2], <<>>, NoVars)
      [] Kind(callee) \in {"cfunc", "type"} -> Event(w, "call", <<callee>> \o args)
      [] OTHER -> Throws(w, "TypeError")

EvalCall(w, v, c) ==
    Then(EvalAll(w, v.sub, c), LAMBDA w1, args :
        Apply(w1, IF Kind(Head(args)) = "dots" THEN c.self ELSE Head(args), Tail(args)))

(* The function has its name when its defaults are evaluated. *)
EvalFunc(w, v, c) ==
    LET f == [code |-> v.val.body, pars |-> ParamNames(v.sub), va |-> StarAt(v.sub),
              defa |-> <<>>, scope |-> c.scope]
        made == [w EXCEPT !.funcs = Append(@, f)]
        id == Len(made.funcs)
        named == IF v.val.name = "" THEN Gives(made, Null)
                 ELSE SetName(made, v.val.name, <<"func", id>>, c)
    IN Then(EvalAll(named.w, Defaults(v.sub), c), LAMBDA w1, defa :
           Gives([w1 EXCEPT !.funcs[id].defa = defa], <<"func", id>>))

EvalType(w, v, c) ==
    Then(Eval(w, v.sub[1], c), LAMBDA w1, x :
        Then(Runs(w1, <<"code", v.val.body>>, v.val.body, c.scope, NoVars), LAMBDA w2, y :
            SetName(w2, v.val.name, <<"type", v.val.name>>, c)))

EvalImport(w, v, c) ==
    Then(Event(w, "import", <<v.val[1]>>), LAMBDA w1, mod :
        LET sub == IF Len(v.val) = 1 THEN Gives(w1, mod) ELSE Event(w1, "import", v.val)
        IN Then(sub, LAMBDA w2, x : SetName(w2, v.val[1], mod, c)))

-----------------------------------------------------------------------------
(* Operators that do not always evaluate all their operands *)

(* && gives its first operand if that is false, || if it is true. *)
EvalShort(w, v, c, truth) ==
    Then(Eval(w, v.sub[1], c), LAMBDA w1, x :
        IF TruthThrows(x) THEN Throws(w1, "Error")
        ELSE IF Truthy(x) = truth THEN Gives(w1, x) ELSE Eval(w1, v.sub[2], c))

EvalQuesques(w, v, c) ==
    LET first == Eval(w, v.sub[1], c)
    IN IF first.tag = "throw" THEN Eval(first.w, v.sub[2], c) ELSE first

(* a < b < c is a < b && b < c with b evaluated once.  l is the left       *)
(* operand of the i-th comparison.                                         *)
Chain(w, v, i, l, c) ==
    Then(Eval(w, v.sub[i + 1], c), LAMBDA w1, r :
        Decide(EvalBinary(w1, v.val[i], l, r),
               LAMBDA w2 : IF i = Len(v.val) THEN Gives(w2, Bool(TRUE))
                           ELSE Chain(w2, v, i + 1, r, c),
               LAMBDA w2 : Gives(w2, Bool(FALSE))))

EvalRichcmp(w, v, c) == Then(Eval(w, v.sub[1], c), LAMBDA w1, l : Chain(w1, v, 1, l, c))

-----------------------------------------------------------------------------
(* Statements *)

AfterBody(o, Again(_)) ==
    CASE o.tag \in {"normal", "cont"} -> Again(o.w)
      [] o.tag = "break" -> Gives(o.w, None)
      [] OTHER -> o

EvalElse(w, v, i, c) == IF HasChild(v, i) THEN Eval(w, v.sub[i], c) ELSE Gives(w, None)

(* The else clause runs only if the condition is false at first. *)
While(w, v, c, first) ==
    Decide(Eval(w, v.sub[1], c),
           LAMBDA w1 : AfterBody(Eval(w1, v.sub[2], c), LAMBDA w2 : While(w2, v, c, FALSE)),
           LAMBDA w1 : IF first THEN EvalElse(w1, v, 3, c) ELSE Gives(w1, None))

Iterate(w, v, c, it, first) ==
    LET next == Event(w, "next", <<it>>)
    IN IF next.tag = "throw" /\ next.val = RunsOut
       THEN IF first THEN EvalElse(next.w, v, 4, c) ELSE Gives(next.w, None)
       ELSE Then(next, LAMBDA w1, x :
                Then(AssignTo(w1, v.sub[1], x, c), LAMBDA w2, y :
                    AfterBody(Eval(w2, v.sub[3], c), LAMBDA w3 : Iterate(w3, v, c, it, FALSE))))

EvalFor(w, v, c) ==
    Then(Eval(w, v.sub[2], c), LAMBDA w1, x :
        IF Iterable(x) THEN Iterate(w1, v, c, Iterator(x), TRUE) ELSE Throws(w1, "Error"))

(* The i-th catch clause and those after it, for the exception e *)
Clause(w, v, i, e, c) ==
    IF 3 * i > Len(v.sub) THEN Outcome(w, "throw", e)
    ELSE Then(Eval(w, v.sub[3 * i - 1], c), LAMBDA w1, type :
             CASE Verdict(type, e) = "malformed" -> Throws(w1, "TypeError")
               [] Verdict(type, e) = "passed" -> Clause(w1, v, i + 1, e, c)
               [] Verdict(type, e) = "caught" ->
                     Then(IF v.sub[3 * i].k = "CONST" THEN Gives(w1, e)
                          ELSE AssignTo(w1, v.sub[3 * i], e, c),
                          LAMBDA w2, x : Eval(w2, v.sub[3 * i + 1], c)))

(* A finally clause runs however the rest was left. *)
EvalTry(w, v, c) ==
    LET body == Eval(w, v.sub[1], c)
        caught == IF body.tag = "throw" THEN Clause(body.w, v, 1, body.val, c) ELSE body
        last == Eval(caught.w, Last(v.sub), c)
    IN IF Len(v.sub) % 3 # 2 \/ caught.tag = "wrong" THEN caught
       ELSE IF last.tag = "normal" THEN Outcome(last.w, caught.tag, caught.val) ELSE last

-----------------------------------------------------------------------------

(* One, of the values of the children of v *)
Computed(w, v, c, One(_, _)) == Then(EvalAll(w, v.sub, c), One)

Eval(w, v, c) ==
    CASE v.k = "CONST" -> Gives(w, v.val)
      [] v.k = "NAME" -> Named(w, v.val, c)
      [] v.k = "ATTR" ->
            Computed(w, v, c, LAMBDA w1, s : Event(w1, "getattr", Append(s, v.val)))
      [] v.k = "ELEM" -> Computed(w, v, c, LAMBDA w1, s : Event(w1, "getelems", s))
      [] v.k \in {"BOP", "UOP"} ->
            Computed(w, v, c, LAMBDA w1, s : Event(w1, "op", <<v.val>> \o s))
      [] v.k = "NOT" ->
            Decide(Eval(w, v.sub[1], c), LAMBDA w1 : Gives(w1, Bool(FALSE)),
                                         LAMBDA w1 : Gives(w1, Bool(TRUE)))
      [] v.k = "SLICE" -> Computed(w, v, c, LAMBDA w1, s : Gives(w1, <<"slice", s>>))
      [] v.k = "CALL" -> EvalCall(w, v, c)
      [] v.k \in {"list", "tuple", "set", "dict"} ->
            Computed(w, v, c, LAMBDA w1, s :
                IF Refused(v.k, s) THEN Throws(w1, "TypeError") ELSE Gives(w1, Display(v.k, s)))
      [] v.k = "FUNC" -> EvalFunc(w, v, c)
      [] v.k = "TYPE" -> EvalType(w, v, c)
      [] v.k = "COND" ->
            Decide(Eval(w, v.sub[1], c), LAMBDA w1 : Eval(w1, v.sub[2], c),
                                         LAMBDA w1 : Eval(w1, v.sub[3], c))
      [] v.k = "OROR" -> EvalShort(w, v, c, TRUE)
      [] v.k = "ANDAND" -> EvalShort(w, v, c, FALSE)
      [] v.k = "QUESQUES" -> EvalQuesques(w, v, c)
      [] v.k = "RICHCMP" -> EvalRichcmp(w, v, c)
      [] v.k = "ASSIGN" -> EvalAssign(w, v.sub[1], v.sub[2], c)
      [] v.k = "AUG" -> EvalAug(w, v, c)
      [] v.k = "BREAK" -> Outcome(w, "break", Null)
      [] v.k = "CONT" -> Outcome(w, "cont", Null)
      [] v.k = "RET" -> Then(Eval(w, v.sub[1], c), LAMBDA w1, x : Outcome(w1, "ret", x))
      [] v.k = "THROW" ->
            Then(Eval(w, v.sub[1], c), LAMBDA w1, x :
                IF Kind(x) = "exc" THEN Outcome(w1, "throw", x) ELSE Throws(w1, "Exception"))
      [] v.k = "ASSERT" ->
            Decide(Eval(w, v.sub[1], c), LAMBDA w1 : Gives(w1, None),
                                         LAMBDA w1 : Throws(w1, "AssertError"))
      [] v.k = "IMPORT" -> EvalImport(w, v, c)
      [] v.k = "BLOCK" ->
            FoldLeft(LAMBDA acc, s : Then(acc, LAMBDA w1, x : Eval(w1, s, c)),
                     Gives(w, None), v.sub)
      [] v.k = "IF" ->
            Decide(Eval(w, v.sub[1], c), LAMBDA w1 : Eval(w1, v.sub[2], c),
                                         LAMBDA w1 : EvalElse(w1, v, 3, c))
      [] v.k = "WHILE" -> While(w, v, c, TRUE)
      [] v.k = "FOR" -> EvalFor(w, v, c)
      [] v.k = "TRY" -> EvalTry(w, v, c)

Meaning ==
    Body(Eval([at |-> 1, envs |-> <<NoVars>>, funcs |-> <<>>, results |-> Results(prog)],
              Trees[prog],
              [scope |-> <<1>>, self |-> <<"code", prog>>]))

(* The bytecode does what the program says: the calls, operators and       *)
(* accesses the interpreter made are those the program asks for, in that   *)
(* order and with those operands, and it ends as the program does, with    *)
(* the same value or the same exception.                                   *)
RunsAsWritten ==
    mode = "done" =>
        /\ Meaning.w.at = Len(log) + 1
        /\ IF result = Null THEN Meaning.tag = "throw" /\ exc = Meaning.val
           ELSE Meaning.tag = "normal" /\ exc = Null /\ result = Meaning.val
=============================================================================
