--------------------------------- MODULE MCVm ---------------------------------
(* Programs for the compiler and the interpreter, and what they call. *)
EXTENDS Semantics, SyntaxTrees

AllCode == Each(AllTrees, CompileProgram)

(* TLC evaluates a definition once, but what a CONSTANT is replaced by     *)
(* each time it meets the constant.                                        *)
MCTrees == LET trees == AllTrees IN trees
MCCode == LET code == AllCode IN code

SoundOnes == With(AllTrees, LAMBDA v : {p \in DOMAIN v : Sound(v[p])})

(* cont jumps anywhere, and may not end. *)
NoCont == With(AllTrees, LAMBDA v :
    {p \in 1 .. Len(Shallow) \cup FromDeep + 1 .. FromCalls \cup FromDefects + 1 .. Len(AllTrees) :
        ~Has(v[p], {"CONT"})})
OneExpression == FromExpressions + 1 .. FromDefects
SoundPrograms == SoundOnes \cap (1 .. Len(Shallow) \cup FromDeep + 1 .. FromDefects)

Atom(x) == <<"atom", x>>
Pair == <<"list", <<Atom("1"), Atom("2")>>>>

MCGlobals ==
    [f |-> <<"cfunc", "f">>, g |-> <<"cfunc", "g">>, h |-> <<"cfunc", "h">>,
     E |-> <<"type", "E">>, xs |-> <<"list", <<>>>>, ys |-> <<"tuple", <<>>>>, pair |-> Pair,
     es |-> <<"str", <<>>>>, s |-> <<"str", <<"1", "2">>>>,
     d |-> <<"dict", <<Atom("1"), Pair, Atom("2"), Pair, Atom("1"), None>>>>,
     t |-> <<"tuple", <<Atom("1"), <<"tuple", <<Pair>>>>>>>>,
     types |-> <<"tuple", << <<"tuple", << <<"tuple", <<>>>>, <<"type", "E">> >>>>, Atom("1") >>>>,
     malformed |-> <<"tuple", << <<"tuple", <<Atom("1")>>>>, <<"type", "E">> >>>>]

Fixed(v) == [free |-> {Ret(v)}, calm |-> Ret(v)]
Free(vs, v) == [free |-> vs, calm |-> Ret(v)]

RunOut == Throw("OutOfIterException")

Quiet ==
    [getattr |-> Fixed(Atom("a")), setattr |-> Fixed(None),
     getelems |-> Fixed(Atom("e")), setelems |-> Fixed(None),
     import |-> Fixed(Atom("m")), op |-> Fixed(Atom("o")),
     next |-> [free |-> {Ret(Atom("x")), RunOut, Throw("E")}, calm |-> RunOut],
     call |-> Free({Ret(Bool(TRUE)), Ret(Bool(FALSE)), Throw("E"), Throw("F")}, Bool(FALSE))]

Noisy ==
    [e \in DOMAIN Quiet |->
        CASE e = "op" -> Free({Ret(Atom("o")), Ret(Bool(FALSE))}, Atom("o"))
          [] e = "call" -> Free({Ret(Bool(FALSE)), Ret(Pair), Throw("E")}, Pair)
          [] e = "next" -> Quiet.next
          [] OTHER -> Free(Quiet[e].free \cup {Throw("E")}, Quiet[e].calm.val)]

(* In the programs of one expression everything may throw. *)
MCResults(p) == IF p \in OneExpression THEN Noisy ELSE Quiet
=============================================================================
