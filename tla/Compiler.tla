------------------------------- MODULE Compiler -------------------------------
(***************************************************************************)
(* The bytecode compiler, src/src/compiler.c: compile and assign, one      *)
(* operator for each kind of syntax tree.                                  *)
(*                                                                         *)
(* A tree is [k, sub, val]: its kind, children and value.  The state co of *)
(* a compilation is                                                        *)
(*                                                                         *)
(*   code    the instructions emitted so far, each [op, arg]               *)
(*   len     LEN, the number of values the compiler believes are on the    *)
(*           stack                                                         *)
(*   loops   the loops that break and cont may leave, innermost last: the  *)
(*           stack length they cut down to, and the jumps to patch         *)
(*   ok      no error and no failed assertion so far; when it ends, a      *)
(*           compilation emits nothing any more                            *)
(*   aborted whether an assertion failed                                   *)
(*                                                                         *)
(* The binary operators, and the unary ones but not, share one instruction *)
(* each; so do the constructors of lists, tuples, sets and dicts.          *)
(***************************************************************************)
EXTENDS Values, FiniteSets

Start == [code |-> <<>>, len |-> 0, loops |-> <<>>, ok |-> TRUE, aborted |-> FALSE]

(* KS_THROW_SYNTAX and return false, a failing assertion, and all else *)
SyntaxError(co) == [co EXCEPT !.ok = FALSE]
Aborted(co) == [co EXCEPT !.ok = FALSE, !.aborted = TRUE]
Unless(co, becomes) == IF co.ok THEN becomes ELSE co

(* EMIT, EMITI, EMITO and the change to LEN that follows *)
Emit(co, op, arg, gain) ==
    Unless(co, [co EXCEPT !.code = @ \o Instruction(op, arg), !.len = @ + gain])

(* A jump whose target is not known yet *)
EmitJump(co, op, gain) == Emit(co, op, -1, gain)

(* BC_N: where the next instruction will be, and where a jump is that was  *)
(* just emitted                                                            *)
Here(co) == Len(co.code) + 1
Latest(co) == Here(co) - Size("JMP")

PatchArg(co, loc, arg) == Unless(co, [co EXCEPT !.code[loc].arg = arg])

(* PATCH *)
Patch(co, loc, to) == PatchArg(co, loc, to - (loc + Size("JMP")))

Believe(co, len) == Unless(co, [co EXCEPT !.len = len])

(* CLEAR *)
Clear(co, len) ==
    Unless(co, IF len > co.len THEN Aborted(co)
               ELSE [co EXCEPT !.len = len,
                               !.code = @ \o [i \in 1 .. co.len - len |-> Head(Instruction("POPU", 0))]])

(* assert(LEN == len) *)
Expect(co, len) == IF co.ok /\ co.len # len THEN Aborted(co) ELSE co

IsStar(v) == v.k = "STAR"
HasChild(v, i) == Len(v.sub) >= i

RECURSIVE Compile(_, _), Assign(_, _, _, _)

CompileAll(co, vs) == FoldLeft(LAMBDA c, v : Compile(c, v), co, vs)

-----------------------------------------------------------------------------
(* assign: how is "plain", "emitted" (the value is on the stack already),  *)
(* or the operator of an augmented assignment                              *)

AssignName(co, lhs, rhs, how) ==
    LET value == CASE how = "emitted" -> co
                   [] how = "plain" -> Compile(co, rhs)
                   [] OTHER -> Emit(Compile(Emit(co, "LOAD", lhs.val, 1), rhs), "BOP", how, -1)
    IN Emit(value, "STORE", lhs.val, 0)

AssignAttr(co, lhs, rhs, how) ==
    LET value == CASE how = "emitted" -> co
                   [] how = "plain" -> Compile(co, rhs)
                   [] OTHER -> Emit(Compile(Compile(co, lhs), rhs), "BOP", how, -1)
    IN Emit(Compile(value, lhs.sub[1]), "SETATTR", lhs.val, -1)

AssignElem(co, lhs, rhs, how) ==
    LET n == Len(lhs.sub)
        args == CompileAll(co, lhs.sub)
    IN CASE how = "emitted" ->
              Emit(Emit(Emit(args, "DUPI", -n - 1, 0), "SETELEMS", 1 + n, 0), "POPU", 0, -n)
         [] how = "plain" ->
              Expect(Emit(Compile(args, rhs), "SETELEMS", 1 + n, -n), co.len + 1)
         [] OTHER ->
              LET old == Emit(Emit(args, "DUPN", n, n), "GETELEMS", n, 1 - n)
              IN Expect(Emit(Emit(Compile(old, rhs), "BOP", how, -1), "SETELEMS", 1 + n, -n),
                        co.len + 1)

Stars(vs) == {i \in DOMAIN vs : IsStar(vs[i])}
StarAt(vs) == IF Stars(vs) = {} THEN -1 ELSE (CHOOSE i \in Stars(vs) : TRUE) - 1

AssignTuple(co, lhs, rhs, how) ==
    LET value == IF how = "plain" THEN Compile(co, rhs) ELSE co
        unpack == Emit(Emit(value, "ASSV", StarAt(lhs.sub), 0), "ASSM", Len(lhs.sub), 0)
        one(c, v) == Emit(Assign(c, IF IsStar(v) THEN v.sub[1] ELSE v, rhs, "emitted"),
                          "POPU", 0, 0)
    IN IF how \notin {"plain", "emitted"} THEN SyntaxError(co)
       ELSE IF Cardinality(Stars(lhs.sub)) > 1 THEN Unless(value, SyntaxError(value))
       ELSE FoldLeft(one, unpack, lhs.sub)

Assign(co, lhs, rhs, how) ==
    CASE ~co.ok -> co
      [] lhs.k = "NAME" -> AssignName(co, lhs, rhs, how)
      [] lhs.k = "ATTR" -> AssignAttr(co, lhs, rhs, how)
      [] lhs.k = "ELEM" -> AssignElem(co, lhs, rhs, how)
      [] lhs.k = "TUPLE" -> AssignTuple(co, lhs, rhs, how)
      [] OTHER -> SyntaxError(co)

-----------------------------------------------------------------------------
(* Expressions *)

CompileStrict(co, v, op, arg) == Emit(CompileAll(co, v.sub), op, arg, 1 - Len(v.sub))

(* The children from the first star on.  i - j values wait on the stack to *)
(* be added by a PUSHN; j moves only when one is emitted, and for a set or *)
(* a dict i has gone one back when the last of them is due.                *)
AddWaiting(acc, i, kind) ==
    IF i > acc.j
    THEN [co |-> Emit(acc.co, "PUSHN", <<kind, i - acc.j>>, -(i - acc.j)), j |-> i + 1]
    ELSE acc

(* A star in a dict emits the instruction of a set. *)
Spread(co, vs, first, kind) ==
    LET into == <<IF kind = "dict" THEN "set" ELSE kind>>
        child(acc, i) ==
            IF IsStar(vs[i + 1])
            THEN LET added == AddWaiting(acc, i, kind) IN
                 [added EXCEPT !.co = Emit(Compile(@, vs[i + 1].sub[1]), "PUSHI", into, -1)]
            ELSE [acc EXCEPT !.co = Compile(@, vs[i + 1])]
        all == FoldLeft(child, [co |-> co, j |-> first + 1],
                        [i \in 1 .. Len(vs) - first |-> first + i - 1])
        last == IF kind \in {"set", "dict"} THEN Len(vs) - 1 ELSE Len(vs)
    IN AddWaiting(all, last, kind).co

(* The number of children before the first star *)
Leading(vs) ==
    IF Stars(vs) = {} THEN Len(vs) ELSE (CHOOSE i \in Stars(vs) : \A j \in Stars(vs) : i <= j) - 1

Built(co, vs, kind) ==
    LET n == Leading(vs) IN
    Emit(CompileAll(co, SubSeq(vs, 1, n)), "DISPLAY", <<kind, n>>, 1 - n)

CompileDisplay(co, v, kind) ==
    LET n == Leading(v.sub)
        built == Built(co, v.sub, kind)
    IN IF n = Len(v.sub) /\ kind \in {"list", "tuple"} THEN built
       ELSE Spread(built, v.sub, n, kind)

CompileCall(co, v) ==
    IF Stars(v.sub) = {} THEN CompileStrict(co, v, "CALL", Len(v.sub))
    ELSE Emit(Spread(Built(co, v.sub, "list"), v.sub, Leading(v.sub), "list"), "CALLV", 0, 0)

(* The parameters of a function: a name, a star of one, or an assignment   *)
(* of a default to one                                                     *)
ParamNames(ps) == [i \in DOMAIN ps |-> IF ps[i].k = "NAME" THEN ps[i].val ELSE ps[i].sub[1].val]

HasDefault(p) == p.k = "ASSIGN"
Defaults(ps) == LET given == SelectSeq(ps, HasDefault) IN [i \in DOMAIN given |-> given[i].sub[2]]

BadParams(ps) ==
    \/ \E i \in DOMAIN ps : ps[i].k \notin {"NAME", "STAR", "ASSIGN"}
    \/ Cardinality(Stars(ps)) > 1
    \/ \E i, j \in DOMAIN ps : i < j /\ HasDefault(ps[i]) /\ ps[j].k = "NAME"
    \/ Stars(ps) # {} /\ Defaults(ps) # <<>>

(* val is [name, body]; the children are the parameters.  The body is      *)
(* another program, compiled by a compilation of its own.                  *)
CompileFunc(co, v) ==
    LET info == [pars |-> ParamNames(v.sub), va |-> StarAt(v.sub)]
        made == Emit(Emit(co, "PUSH", <<"code", v.val.body>>, 1), "FUNC", info, 0)
        named == IF v.val.name = "" THEN made ELSE Emit(made, "STORE", v.val.name, 0)
        n == Len(Defaults(v.sub))
    IN IF BadParams(v.sub) THEN SyntaxError(co)
       ELSE IF n = 0 THEN named
       ELSE Emit(CompileAll(named, Defaults(v.sub)), "FUNC_DEFA", n, -n)

(* val is [name, body]; the child is the type it extends. *)
CompileType(co, v) ==
    LET body == Emit(co, "PUSH", <<"code", v.val.body>>, 1)
        made == Emit(Compile(body, v.sub[1]), "TYPE", v.val.name, -1)
    IN Emit(made, "STORE", v.val.name, 0)

CompileCond(co, v) ==
    LET test == EmitJump(Compile(co, v.sub[1]), "JMPF", -1)
        yes == EmitJump(Compile(test, v.sub[2]), "JMP", 0)
        no == Compile(Believe(Patch(yes, Latest(test), Here(yes)), yes.len - 1), v.sub[3])
    IN Patch(no, Latest(yes), Here(no))

(* || and &&: the second child is reached unless jump is taken.  An error  *)
(* in the second child is dropped: what was emitted of it stays, and the   *)
(* program starts with the exception pending.                              *)
CompileShort(co, v, jump) ==
    LET test == EmitJump(Emit(Compile(co, v.sub[1]), "DUP", 0, 1), jump, -1)
        other == Compile(Emit(test, "POPU", 0, -1), v.sub[2])
        dropped == IF test.ok /\ ~other.aborted THEN [other EXCEPT !.ok = TRUE] ELSE other
    IN Patch(dropped, Latest(test), Here(dropped))

CompileQuesques(co, v) ==
    LET try == EmitJump(co, "TRY_START", 0)
        end == EmitJump(Compile(try, v.sub[1]), "TRY_END", 0)
        caught == Believe(Emit(Emit(end, "TRY_CATCH_ALL", 0, 0), "POPU", 0, 0), co.len)
        other == Believe(Compile(caught, v.sub[2]), co.len + 1)
    IN Patch(Patch(other, Latest(try), Here(end)), Latest(end), Here(other))

(* Chained comparisons, val the operators *)
CompileRichcmp(co, v) ==
    LET compare(acc, i) ==
            LET both == Emit(Compile(acc.co, v.sub[i + 1]), "RCR", 0, 1)
                test == EmitJump(Emit(both, "BOP", v.val[i], -1), "JMPF", -1)
            IN [co |-> test, jumps |-> Append(acc.jumps, Latest(test))]
        all == FoldLeft(compare, [co |-> Compile(co, v.sub[1]), jumps |-> <<>>],
                        [i \in 1 .. Len(v.val) |-> i])
        yes == EmitJump(Emit(Emit(all.co, "POPU", 0, 0), "PUSH", Bool(TRUE), 0), "JMP", 0)
        no == FoldLeft(LAMBDA c, loc : Patch(c, loc, Here(c)), yes, all.jumps)
        done == Emit(Emit(no, "POPU", 0, 0), "PUSH", Bool(FALSE), 0)
    IN Patch(done, Latest(yes), Here(done))

-----------------------------------------------------------------------------
(* Statements *)

(* ret, throw and assert take one value and leave none *)
CompileTaking(co, v) ==
    Emit(Expect(Compile(co, v.sub[1]), co.len + 1), v.k, 0, -1)

CompileBlock(co, v) == FoldLeft(LAMBDA c, s : Clear(Compile(c, s), co.len), co, v.sub)

(* break and cont: cut the stack down to the loop's length, and jump *)
CompileLeave(co, cont) ==
    LET n == Len(co.loops)
        jump == EmitJump(Clear(co, co.loops[n].stklen), "JMP", 0)
    IN IF n = 0 THEN SyntaxError(co)
       ELSE Unless(jump, [jump EXCEPT !.len = co.len,
                             !.loops[n].jumps = Append(@, [loc |-> Latest(jump), cont |-> cont])])

OpenLoop(co, stklen) ==
    Unless(co, [co EXCEPT !.loops = Append(@, [stklen |-> stklen, jumps |-> <<>>])])
CloseLoop(co) == Unless(co, [co EXCEPT !.loops = Front(@)])

(* The target PATCH is given here is "a->is_cont ? cond_l : BC_N", and the  *)
(* macro does not put it in parentheses: what a break is given is the      *)
(* distance, and what a cont is given is the location itself, from 0.      *)
PatchLeaves(co, jumps, contTo) ==
    Unless(co, FoldLeft(LAMBDA c, j : IF j.cont THEN PatchArg(c, j.loc, contTo - 1)
                                      ELSE Patch(c, j.loc, Here(c)),
                        co, jumps))

(* The else clause that is child i, reached by the jump at loc *)
CompileElse(co, v, i, loc, len) ==
    IF ~HasChild(v, i) THEN Patch(co, loc, Here(co))
    ELSE LET over == EmitJump(co, "JMP", 0)
             other == Clear(Compile(Patch(over, loc, Here(over)), v.sub[i]), len)
         IN Patch(other, Latest(over), Here(other))

CompileIf(co, v) ==
    LET test == EmitJump(Compile(co, v.sub[1]), "JMPF", -1)
        body == Clear(Compile(test, v.sub[2]), co.len)
    IN CompileElse(body, v, 3, Latest(test), co.len)

(* Mutant: the jump back is taken when the condition is false. *)
CompileWhileInverted(co, v) ==
    LET test == EmitJump(Compile(co, v.sub[1]), "JMPF", -1)
        body == Clear(Compile(OpenLoop(test, co.len), v.sub[2]), co.len)
        again == EmitJump(Compile(body, v.sub[1]), "JMPF", -1)
        loop == CloseLoop(Patch(again, Latest(again), Here(test)))
        end == CompileElse(loop, v, 3, Latest(test), co.len)
    IN Believe(PatchLeaves(end, Last(again.loops).jumps, Here(co)), co.len)

CompileWhile(co, v) ==
    LET test == EmitJump(Compile(co, v.sub[1]), "JMPF", -1)
        body == Clear(Compile(OpenLoop(test, co.len), v.sub[2]), co.len)
        again == EmitJump(Compile(body, v.sub[1]), "JMPT", -1)
        loop == CloseLoop(Patch(again, Latest(again), Here(test)))
        end == CompileElse(loop, v, 3, Latest(test), co.len)
    IN Believe(PatchLeaves(end, Last(again.loops).jumps, Here(co)), co.len)

(* Children: target, iterable, body, else *)
CompileFor(co, v) ==
    LET iter == Emit(Expect(Compile(co, v.sub[2]), co.len + 1), "FOR_START", 0, 0)
        first == EmitJump(iter, "FOR_NEXTF", 1)
        bound == Clear(Assign(first, v.sub[1], v.sub[2], "emitted"), co.len + 1)
        body == Clear(Compile(OpenLoop(bound, co.len), v.sub[3]), co.len + 1)
        next == EmitJump(body, "FOR_NEXTT", 0)
        loop == CloseLoop(Patch(next, Latest(next), Here(first)))
        end == CompileElse(loop, v, 4, Latest(first), co.len + 1)
    IN Believe(PatchLeaves(end, Last(next.loops).jumps, Here(bound)), co.len)

(* Children: body, then three for each catch (type, target, body; the      *)
(* target a constant if there is none), then maybe the finally clause      *)
CompileCatch(acc, v, i, len) ==
    LET test == EmitJump(Compile(acc.co, v.sub[3 * i - 1]), "TRY_CATCH", -1)
        target == v.sub[3 * i]
        bound == IF target.k = "CONST" THEN test ELSE Assign(test, target, v.sub[3 * i - 1], "emitted")
        body == EmitJump(Compile(Clear(bound, len), v.sub[3 * i + 1]), "JMP", 0)
    IN [co |-> IF acc.test = 0 THEN body ELSE Patch(body, acc.test, Here(acc.co)),
        test |-> Latest(test), ends |-> Append(acc.ends, Latest(body))]

CompileTry(co, v) ==
    LET try == EmitJump(co, "TRY_START", 0)
        end == EmitJump(Compile(try, v.sub[1]), "TRY_END", 0)
        n == (Len(v.sub) - 1) \div 3
        all == FoldLeft(LAMBDA acc, i : CompileCatch(acc, v, i, co.len),
                        [co |-> Patch(end, Latest(try), Here(end)), test |-> 0,
                         ends |-> <<Latest(end)>>],
                        [i \in 1 .. n |-> i])
        joined == FoldLeft(LAMBDA c, loc : Patch(c, loc, Here(c)), all.co,
                           IF all.test = 0 THEN all.ends ELSE Append(all.ends, all.test))
        last == IF Len(v.sub) % 3 = 2 THEN Compile(joined, Last(v.sub)) ELSE joined
    IN Believe(Emit(last, "FINALLY_END", 0, 0), co.len)

-----------------------------------------------------------------------------

Compile(co, v) ==
    CASE ~co.ok -> co
      [] v.k = "CONST" -> Emit(co, "PUSH", v.val, 1)
      [] v.k = "NAME" -> Emit(co, "LOAD", v.val, 1)
      [] v.k = "ATTR" -> CompileStrict(co, v, "GETATTR", v.val)
      [] v.k = "ELEM" -> CompileStrict(co, v, "GETELEMS", Len(v.sub))
      [] v.k \in {"BOP", "UOP"} -> CompileStrict(co, v, v.k, v.val)
      [] v.k = "NOT" -> CompileStrict(co, v, "NOT", 0)
      [] v.k = "SLICE" -> CompileStrict(co, v, "SLICE", 0)
      [] v.k = "CALL" -> CompileCall(co, v)
      [] v.k \in {"list", "tuple", "set", "dict"} -> CompileDisplay(co, v, v.k)
      [] v.k = "FUNC" -> CompileFunc(co, v)
      [] v.k = "TYPE" -> CompileType(co, v)
      [] v.k = "COND" -> CompileCond(co, v)
      [] v.k = "OROR" -> CompileShort(co, v, "JMPT")
      [] v.k = "ANDAND" -> CompileShort(co, v, "JMPF")
      [] v.k = "QUESQUES" -> CompileQuesques(co, v)
      [] v.k = "RICHCMP" -> CompileRichcmp(co, v)
      [] v.k = "ASSIGN" -> Assign(co, v.sub[1], v.sub[2], "plain")
      [] v.k = "AUG" -> Assign(co, v.sub[1], v.sub[2], v.val)
      [] v.k \in {"BREAK", "CONT"} -> CompileLeave(co, v.k = "CONT")
      [] v.k \in {"RET", "THROW", "ASSERT"} -> CompileTaking(co, v)
      [] v.k = "IMPORT" ->
            Emit(Emit(Emit(co, "IMPORT", v.val, 1), "STORE", v.val[1], 0), "POPU", 0, -1)
      [] v.k = "BLOCK" -> CompileBlock(co, v)
      [] v.k = "IF" -> CompileIf(co, v)
      [] v.k = "WHILE" -> CompileWhile(co, v)
      [] v.k = "FOR" -> CompileFor(co, v)
      [] v.k = "TRY" -> CompileTry(co, v)

(* ks_compile: a program that falls off its end returns none.             *)
CompileProgram(v) ==
    LET all == Compile(Start, v)
    IN IF all.ok THEN Emit(Emit(all, "PUSH", None, 1), "RET", 0, -1).code ELSE <<>>
=============================================================================
