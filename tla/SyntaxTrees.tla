----------------------------- MODULE SyntaxTrees -----------------------------
(***************************************************************************)
(* Syntax trees of kscript programs: how they are written down, the        *)
(* programs the compiler and the interpreter are run on, and which of them *)
(* have a shape that is compiled wrongly.  A program's name is its index   *)
(* in AllTrees.                                                            *)
(***************************************************************************)
EXTENDS Compiler

Node(k, sub, val) == [k |-> k, sub |-> sub, val |-> val]

Const(v) == Node("CONST", <<>>, v)
Name(x) == Node("NAME", <<>>, x)
CallOf(args) == Node("CALL", args, Null)
Calls(f) == CallOf(<<Name(f)>>)
Star(v) == Node("STAR", <<v>>, Null)
Attr(v, a) == Node("ATTR", <<v>>, a)
Elem(v, i) == Node("ELEM", <<v, i>>, Null)
List(s) == Node("list", s, Null)
Tuple(s) == Node("tuple", s, Null)
Targets(s) == Node("TUPLE", s, Null)
Function(name, pars, body) == Node("FUNC", pars, [name |-> name, body |-> body])

Assigns(target, v) == Node("ASSIGN", <<target, v>>, Null)
Block(s) == Node("BLOCK", s, Null)
(* A statement that leaves a mark in the log *)
Mark(m) == Node("UOP", <<Const(None)>>, m)
Returns(v) == Node("RET", <<v>>, Null)
Thrown(v) == Node("THROW", <<v>>, Null)
If(c, yes) == Node("IF", <<c, Block(yes)>>, Null)
IfElse(c, yes, no) == Node("IF", <<c, Block(yes), Block(no)>>, Null)
Loop(c, body) == Node("WHILE", <<c, Block(body)>>, Null)
LoopElse(c, body, other) == Node("WHILE", <<c, Block(body), Block(other)>>, Null)
For(xs, body) == Node("FOR", <<Name("x"), Name(xs), Block(body)>>, Null)
ForElse(xs, body, other) == Node("FOR", <<Name("x"), Name(xs), Block(body), Block(other)>>, Null)
Catch(body) == <<Name("E"), Name("e"), Block(body)>>
Try(body, catches, finally) == Node("TRY", <<Block(body)>> \o catches \o finally, Null)
Finally(body) == <<Block(body)>>
Break == Node("BREAK", <<>>, Null)
Cont == Node("CONT", <<>>, Null)

(* F(x): TLC evaluates what a variable is bound to once, and the argument  *)
(* of an operator again and again.                                         *)
With(x, F(_)) == CHOOSE r \in {F(v) : v \in {x}} : TRUE

Each(s, F(_)) == With(s, LAMBDA v : [i \in DOMAIN v |-> F(v[i])] \o <<>>)

-----------------------------------------------------------------------------
(* The shapes that are compiled wrongly, of each of which a run shows one  *)

RECURSIVE Has(_, _), Exits(_), Sound(_)

Has(v, kinds) == v.k \in kinds \/ \E i \in DOMAIN v.sub : Has(v.sub[i], kinds)

(* The ways out of v, other than an exception: a loop is where a break or  *)
(* cont of its body ends.                                                  *)
LoopBody(v) == CASE v.k = "WHILE" -> 2 [] v.k = "FOR" -> 3 [] OTHER -> 0

Exits(v) ==
    (IF v.k \in {"RET", "BREAK", "CONT"} THEN {v.k} ELSE {})
    \cup UNION {Exits(v.sub[i]) \ (IF i = LoopBody(v) THEN {"BREAK", "CONT"} ELSE {}) :
               i \in DOMAIN v.sub}

HasFinally(v) == Len(v.sub) % 3 = 2
CatchBodies(v) == {v.sub[3 * i + 1] : i \in 1 .. (Len(v.sub) - 1) \div 3}

(* No ret, break or cont leaves the body of a try; a catch or finally      *)
(* clause that a finally clause depends on cannot throw or hide an         *)
(* exception.                                                              *)
SoundTry(v) ==
    /\ Exits(v.sub[1]) = {}
    /\ HasFinally(v) =>
        /\ Exits(Last(v.sub)) = {}
        /\ ~Has(Last(v.sub), {"FOR", "TRY"})
        /\ \A b \in CatchBodies(v) : Exits(b) = {} /\ ~Has(b, {"CALL", "THROW", "FOR"})

(* No try is in the body of a for, and its else clause does not leave an   *)
(* outer loop.                                                             *)
SoundFor(v) ==
    /\ ~Has(v.sub[3], {"TRY"})
    /\ Len(v.sub) = 4 => Exits(v.sub[4]) \cap {"BREAK", "CONT"} = {}

Sound(v) ==
    /\ \A i \in DOMAIN v.sub : Sound(v.sub[i])
    /\ v.k # "CONT"
    /\ CASE v.k = "TRY" -> SoundTry(v)
         [] v.k = "FOR" -> SoundFor(v)
         [] OTHER -> TRUE

-----------------------------------------------------------------------------
(* Control flow: every statement in every place of every other *)

Leaves(inLoop) ==
    <<Calls("f"), Returns(Const(<<"atom", "r">>)), Thrown(Const(Exc("E")))>>
    \o IF inLoop THEN <<Break, Cont>> ELSE <<>>

(* The statements in, each where it is in no other loop, and each in a     *)
(* loop.  xs is what loops go through: another at each level.              *)
Around(in, xs) ==
    Each(in, LAMBDA x : If(Calls("f"), <<x, Mark("m")>>))
    \o Each(in, LAMBDA x : IfElse(Calls("f"), <<Mark("m")>>, <<x>>))
    \o Each(in, LAMBDA x : LoopElse(Calls("f"), <<Mark("m")>>, <<x>>))
    \o Each(in, LAMBDA x : ForElse(xs, <<Mark("m")>>, <<x, Mark("n")>>))
    \o Each(in, LAMBDA x : Try(<<x, Mark("m")>>, Catch(<<Mark("n")>>), <<>>))
    \o Each(in, LAMBDA x : Try(<<Calls("f")>>, Catch(<<x, Mark("m")>>), <<>>))
    \o Each(in, LAMBDA x : Try(<<x, Mark("m")>>, Catch(<<Mark("c")>>), Finally(<<Mark("n")>>)))
    \o Each(in, LAMBDA x : Try(<<Calls("f")>>, Catch(<<x>>), Finally(<<Mark("n")>>)))
    \o Each(in, LAMBDA x : Try(<<Calls("f")>>, <<>>, Finally(<<x, Mark("n")>>)))

Inside(in, xs) ==
    Each(in, LAMBDA x : Loop(Calls("f"), <<x, Mark("m")>>))
    \o Each(in, LAMBDA x : LoopElse(Calls("f"), <<x, Mark("m")>>, <<Mark("n")>>))
    \o Each(in, LAMBDA x : Loop(Const(Bool(TRUE)), <<x, Break>>))
    \o Each(in, LAMBDA x : For(xs, <<x, Mark("m")>>))
    \o Each(in, LAMBDA x : ForElse(xs, <<x>>, <<Mark("n")>>))

Nested(inLoop) == Around(Leaves(inLoop), "xs") \o Inside(Leaves(TRUE), "xs")

Shallow ==
    Each(Leaves(FALSE) \o Nested(FALSE), LAMBDA x : Block(<<x, Mark("end")>>))

Deep ==
    Each(Around(Nested(FALSE), "ys") \o Inside(Nested(TRUE), "ys"),
         LAMBDA x : Block(<<x, Mark("end")>>))

-----------------------------------------------------------------------------
(* Functions and types.  The trees of Shallow are the bodies too, and those *)
(* of Bodies, which come after them.                                       *)

BodyAt(i) == Len(Shallow) + i

Bodies ==
    << Block(<<Returns(Name("a"))>>),
       Block(<<If(Calls("f"), <<Returns(CallOf(<<Const(<<"dots">>), Const(None)>>))>>),
               Returns(Name("a"))>>),
       Block(<<Assigns(Name("b"), Name("a")),
               Function("inner", <<>>, BodyAt(4)),
               Assigns(Name("a"), Calls("f")),
               Returns(Calls("inner"))>>),
       Block(<<Returns(Tuple(<<Name("a"), Name("b")>>))>>),
       Block(<<For("xs", <<Returns(Name("x"))>>)>>),
       Block(<<Returns(List(<<Name("a"), Star(Name("pair"))>>))>>),
       Block(<<Returns(Const(<<"atom", "r">>))>>),
       Block(<<Try(<<Returns(Const(None))>>, Catch(<<Mark("m")>>), <<>>)>>) >>

(* Those without a shape that is compiled wrongly *)
SoundBodies ==
    With(Shallow \o Bodies, LAMBDA v :
        SelectSeq([i \in DOMAIN v |-> i], LAMBDA i : Sound(v[i])))

Program(s) == Block(s \o <<Mark("end")>>)

Callers(i) ==
    LET called == CallOf(<<Name("F"), Calls("g")>>)
    IN Each(<< Assigns(Name("n"), called),
               Returns(List(<<Calls("g"), called, Calls("g")>>)),
               Try(<<called>>, Catch(<<Mark("m")>>), <<>>),
               Returns(Node("QUESQUES", <<called, Calls("g")>>, Null)),
               For("xs", <<called, Mark("m")>>),
               Loop(Calls("g"), <<called, Mark("m")>>) >>,
            LAMBDA x : Program(<<Function("F", <<Name("a")>>, i), x>>))

Types ==
    Each(SoundBodies, LAMBDA i :
         Program(<<Try(<<Node("TYPE", <<Name("E")>>, [name |-> "T", body |-> i])>>,
                       Catch(<<Mark("m")>>), <<>>),
                   Returns(Name("T"))>>))

Signatures ==
    LET a == Name("a")
        b == Name("b")
    IN << <<<<>>, 7>>,
          <<<<a, b>>, 4>>,
          <<<<a, Assigns(b, Calls("f"))>>, 4>>,
          <<<<Assigns(a, Const(<<"atom", "p">>)), Assigns(b, Calls("f"))>>, 4>>,
          <<<<Star(a), b>>, 4>>,
          <<<<a, Star(b)>>, 4>> >>

Arguments ==
    LET k(i) == Const(<<"atom", i>>)
    IN << <<>>, <<k("1")>>, <<k("1"), k("2")>>, <<k("1"), k("2"), k("3")>>,
          <<Star(Name("pair"))>>, <<k("1"), Star(Name("pair"))>>,
          <<Star(Name("pair")), k("1")>>, <<Star(Calls("f"))>> >>

WithArguments(args) ==
    Each(Signatures, LAMBDA s :
         Program(<<Function("F", s[1], BodyAt(s[2])),
                   Returns(CallOf(<<Name("F")>> \o args))>>))

-----------------------------------------------------------------------------
(* Expressions: every one in every place of every other *)

Composed(in) ==
    LET g == Calls("g")
        h == Calls("h")
        n(k, sub, val) == Node(k, sub, val)
        in2(k, val) == Each(in, LAMBDA x : n(k, <<x, g>>, val))
                       \o Each(in, LAMBDA x : n(k, <<g, x>>, val))
        in3(k, val) == Each(in, LAMBDA x : n(k, <<x, g, h>>, val))
                       \o Each(in, LAMBDA x : n(k, <<g, x, h>>, val))
                       \o Each(in, LAMBDA x : n(k, <<g, h, x>>, val))
        in1(k, val) == Each(in, LAMBDA x : n(k, <<x>>, val))
        starred(k) == Each(in, LAMBDA x : n(k, <<Star(x)>>, Null))
                      \o Each(in, LAMBDA x : n(k, <<g, Star(x), h>>, Null))
    IN in1("UOP", "-") \o in1("NOT", Null) \o in1("ATTR", "a")
       \o in2("BOP", "+") \o in2("ELEM", Null) \o in2("CALL", Null)
       \o in2("OROR", Null) \o in2("ANDAND", Null) \o in2("QUESQUES", Null)
       \o in2("list", Null) \o in2("tuple", Null) \o in2("set", Null) \o in2("dict", Null)
       \o in3("SLICE", Null) \o in3("COND", Null) \o in3("RICHCMP", <<"<", "<">>)
       \o starred("list") \o starred("tuple")
       \o Each(in, LAMBDA x : CallOf(<<Name("f"), Star(x), g>>))

Assignments(in) ==
    LET g == Calls("g")
        ab == <<Name("a"), Name("b")>>
        set(t) == Each(in, LAMBDA x : Assigns(t, x))
        aug(t) == Each(in, LAMBDA x : Node("AUG", <<t, x>>, "+"))
    IN set(Name("m")) \o set(Attr(g, "a")) \o set(Elem(g, g))
       \o Each(in, LAMBDA x : Assigns(Attr(x, "a"), g))
       \o Each(in, LAMBDA x : Assigns(Elem(x, g), Calls("h")))
       \o set(Targets(ab)) \o set(Targets(<<Name("a"), Star(Name("b"))>>))
       \o set(Targets(<<Star(Name("a")), Name("b"), Elem(g, Name("b"))>>))
       \o set(Targets(<<Attr(g, "a"), Targets(ab)>>))
       \o aug(Name("pair")) \o aug(Name("m")) \o aug(Attr(g, "a")) \o aug(Elem(g, g))

Simple == <<Calls("f"), Const(<<"odd", "o">>), Name("pair")>>

(* The value is stored, and returned by another statement. *)
Stored(x) == Block(<<Assigns(Name("n"), x), Returns(Name("n"))>>)

Used(in) ==
    Each(in, Stored)
    \o Each(in, LAMBDA x : Program(<<Node("ASSERT", <<x>>, Null)>>))
    \o Each(in, LAMBDA x : Program(<<Thrown(x)>>))

(* Strings, dicts, none, what is empty and what is nested, where it is     *)
(* unpacked, iterated, hashed, decided on or names what is caught          *)
Objects == <<Const(None)>> \o Each(<<"xs", "ys", "es", "s", "d", "t", "pair">>, Name)

Data ==
    Each(Objects, LAMBDA x :
         Block(<<Assigns(Targets(<<Name("a"), Star(Name("b"))>>), x),
                 Returns(List(<<Name("a"), Name("b")>>))>>))
    \o Each(Objects, LAMBDA x : Block(<<Node("FOR", <<Name("m"), x, Block(<<Mark("m")>>)>>, Null)>>))
    \o Each(Each(Objects, LAMBDA x : Tuple(<<Star(x), Calls("f")>>))
            \o Each(Objects, LAMBDA x : Node("set", <<Calls("f"), x>>, Null))
            \o Each(Objects, LAMBDA x : Node("dict", <<x, Calls("f")>>, Null))
            \o Each(Objects, LAMBDA x : Node("OROR", <<x, Calls("f")>>, Null)), Stored)
    \o Each(<<"types", "malformed", "ys">>, LAMBDA n :
            Block(<<Try(<<Calls("f")>>, <<Name(n), Name("e"), Block(<<Mark("m")>>)>>, <<>>),
                    Mark("end")>>))

Expressions ==
    Used(Simple) \o Used(Composed(Simple)) \o Used(Assignments(Simple))
    \o Each(Composed(Composed(<<Calls("f")>>)), Stored)
    \o Each(Assignments(Composed(<<Calls("f")>>)), Stored)
    \o Data
    \o << Program(<<Node("IMPORT", <<>>, <<"m">>), Returns(Name("m"))>>) >>

-----------------------------------------------------------------------------
(* One program for each shape that is compiled or executed wrongly *)

Defects ==
    << \* a function returns from a try, and an exception follows
       Block(<<Function("F", <<>>, BodyAt(8)), Calls("F"), Thrown(Const(Exc("E")))>>),
       \* cont
       Block(<<Mark("m"), Loop(Calls("f"), <<Cont>>), Mark("end")>>),
       \* a for in a finally clause
       Block(<<Try(<<Thrown(Const(Exc("E")))>>, <<>>, Finally(<<For("xs", <<Mark("m")>>)>>)), Mark("end")>>),
       \* an exception caught in a for
       Block(<<For("xs", <<Try(<<Thrown(Const(Exc("E")))>>, Catch(<<Mark("m")>>), <<>>)>>), Mark("end")>>),
       \* [*pair, *pair, f()]
       Stored(List(<<Star(Name("pair")), Star(Name("pair")), Calls("f")>>)),
       \* {*pair, f()}
       Stored(Node("set", <<Star(Name("pair")), Calls("f")>>, Null)),
       \* an else clause of a for leaves the loop around it
       Block(<<Loop(Calls("f"), <<ForElse("xs", <<Mark("m")>>, <<Break>>)>>), Mark("end")>>),
       \* import m.n, which has no n
       Block(<<Node("IMPORT", <<>>, <<"m", "n">>), Mark("end")>>) >>

-----------------------------------------------------------------------------

CallTrees ==
    FlattenSeq(Each(SoundBodies, Callers)) \o FlattenSeq(Each(Arguments, WithArguments)) \o Types

(* Where each part begins in AllTrees, less one *)
FromDeep == Len(Shallow) + Len(Bodies)
FromCalls == FromDeep + Len(Deep)
FromExpressions == FromCalls + Len(CallTrees)
FromDefects == FromExpressions + Len(Expressions)

AllTrees ==
    Shallow \o Bodies \o Deep \o CallTrees \o Expressions \o Defects
=============================================================================
