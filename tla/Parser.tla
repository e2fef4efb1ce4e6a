-------------------------------- MODULE Parser --------------------------------
(***************************************************************************)
(* The recursive descent parser, src/src/parser.c: one operator for each   *)
(* rule, which takes a position in the tokens and the parser's flags and   *)
(* gives the tree and the position behind it, or says how it failed.       *)
(*                                                                         *)
(* A token is what it is spelled; "nl" is a newline, "EOF" the end.  The   *)
(* sources are those that can be typed, token by token, until one is       *)
(* rejected; every tree that is made is written down again (Writer).       *)
(***************************************************************************)
EXTENDS Grammar

CONSTANTS Alphabets,    \* tokens that are typed together, and how many
          Samples       \* programs that are written down and parsed, each <<tree>>

ASSUME AlphabetsAssumption == \A a \in Alphabets : a.length \in Nat

VARIABLES
    toks,       \* what is parsed, with its EOF
    result,     \* of ks_parse_prog
    alphabet,   \* what is typed, if anything is
    written     \* <<>>, or the tree that toks is written from

vars == <<toks, result, alphabet, written>>

TOK(p) == toks[p]
Kind(t) == IF t \in Word THEN "NAME" ELSE t

Made(tree, p) == [ok |-> TRUE, tree |-> tree, at |-> p]

(* Why there is no tree: an exception was thrown, nothing was said, or the *)
(* process died.                                                           *)
Fails(why, p) == [ok |-> FALSE, why |-> why, at |-> p]
Unexpected(p) == Fails("thrown", p)

(* K of a result, once it is there. *)
Then(r, K(_)) == CHOOSE x \in {IF v.ok THEN K(v) ELSE v : v \in {r}} : TRUE

RECURSIVE SKIP_N(_)
SKIP_N(p) == IF TOK(p) = "nl" THEN SKIP_N(p + 1) ELSE p

(* A statement ends here. *)
R_N(r) ==
    CASE TOK(r.at) \in {"nl", ";"} -> [r EXCEPT !.at = @ + 1]
      [] TOK(r.at) \in {"EOF", "}", "]", ")"} -> r
      [] OTHER -> Unexpected(r.at)

RECURSIVE E(_, _, _), B(_, _), STMT(_, _)

EXPR(p, f) == E(0, p, f)

-----------------------------------------------------------------------------
(* Binary and prefix operators *)

Join(op, l, r) == Made(Node(op, <<l.tree, r.tree>>, Null), r.at)

E0(p, f) ==
    Then(E(1, p, f), LAMBDA l :
        IF TOK(l.at) \in Assigning
        THEN Then(E(0, SKIP_N(l.at + 1), f), LAMBDA r : Join(TOK(l.at), l, r))
        ELSE l)

E1(p, f) ==
    Then(E(2, p, f), LAMBDA x :
        IF TOK(x.at) # "if" THEN x
        ELSE Then(E(2, SKIP_N(x.at + 1), f), LAMBDA c :
                 IF TOK(c.at) # "else"
                 THEN Made(Node("COND", <<c.tree, x.tree, None>>, Null), c.at)
                 ELSE Then(E(1, SKIP_N(c.at + 1), f), LAMBDA y :
                          Made(Node("COND", <<c.tree, x.tree, y.tree>>, Null), y.at))))

(* RULE_BOP_LA *)
RECURSIVE Further(_, _, _)
Further(n, l, f) ==
    IF TOK(l.at) \notin Operators[n] THEN l
    ELSE Then(E(n + 1, SKIP_N(l.at + 1), f), LAMBDA r : Further(n, Join(TOK(l.at), l, r), f))

LeftAssociative(n, p, f) == Then(E(n + 1, p, f), LAMBDA l : Further(n, l, f))

(* The operands and operators of comparisons so far are the children and   *)
(* the value of the tree.                                                  *)
RECURSIVE Compared(_, _)
Compared(r, f) ==
    IF TOK(r.at) \in Operators[5] \ (IF "noin" \in f THEN {"in"} ELSE {})
    THEN Then(E(6, SKIP_N(r.at + 1), f), LAMBDA x :
             Compared(Made([r.tree EXCEPT !.sub = Append(@, x.tree),
                                          !.val = Append(@, TOK(r.at))], x.at), f))
    ELSE r

E5(p, f) ==
    Then(E(6, p, f), LAMBDA x :
    Then(Compared(Made(Node("RICHCMP", <<x.tree>>, <<>>), x.at), f), LAMBDA r :
        CASE Len(r.tree.sub) = 1 -> x
          [] Len(r.tree.sub) = 2 -> Made(Node(r.tree.val[1], r.tree.sub, Null), r.at)
          [] OTHER -> r))

RECURSIVE Cast(_, _)
Cast(x, f) ==
    IF TOK(x.at) = "as" /\ "noas" \notin f
    THEN Then(E(7, SKIP_N(x.at + 1), f), LAMBDA to :
             Cast(Made(Node("CALL", <<to.tree, x.tree>>, Null), to.at), f))
    ELSE x

E6(p, f) == Then(E(7, p, f), LAMBDA x : Cast(x, f))

(* Mutant: to the left, like the other operators. *)
E13Left(p, f) == LeftAssociative(13, p, f)

E13(p, f) ==
    Then(E(14, p, f), LAMBDA l :
        IF TOK(l.at) = "**"
        THEN Then(E(13, SKIP_N(l.at + 1), f), LAMBDA r : Join("**", l, r))
        ELSE l)

E14(p, f) ==
    IF TOK(p) \in Prefixing
    THEN Then(E(14, SKIP_N(p + 1), f), LAMBDA r : Made(Node(TOK(p), <<r.tree>>, Null), r.at))
    ELSE E(15, p, f)

-----------------------------------------------------------------------------
(* What is separated by commas, until the token that closes it.  How it is *)
(* read is "plain", "index" (an element or slice), "par" (a parameter), or *)
(* "brace", and "set" or "dict" once that is known.                        *)

Ends == {")", "}", "]", ","}

SliceEnds(x, y, p, f) ==
    IF TOK(p) \in Ends THEN Made(Node("SLICE", <<x, y, None>>, Null), p)
    ELSE Then(EXPR(p, f), LAMBDA z : Made(Node("SLICE", <<x, y, z.tree>>, Null), z.at))

(* Behind the first colon of a slice that begins with x. *)
Slice(x, p, f) ==
    CASE TOK(p) \in Ends -> Made(Node("SLICE", <<x, None, None>>, Null), p)
      [] TOK(p) = ":" -> SliceEnds(x, None, p + 1, f)
      [] OTHER ->
            Then(EXPR(p, f), LAMBDA y :
                IF TOK(y.at) = ":" THEN SliceEnds(x, y.tree, y.at + 1, f)
                ELSE Made(Node("SLICE", <<x, y.tree, None>>, Null), y.at))

Index(p, f) ==
    IF TOK(p) = ":" THEN Slice(None, p + 1, f)
    ELSE Then(EXPR(p, f), LAMBDA x : IF TOK(x.at) = ":" THEN Slice(x.tree, x.at + 1, f) ELSE x)

Parameter(p, f) ==
    Then(EXPR(p, f), LAMBDA x :
        IF x.tree.k = "NAME" \/ (x.tree.k = "=" /\ x.tree.sub[1].k = "NAME") THEN x
        ELSE Unexpected(p))

Starred(t, star) == IF star THEN Node("STAR", <<t>>, Null) ELSE t

(* An element of a set, or a key and a value; the first one decides. *)
InBraces(how, star, p, f) ==
    Then(EXPR(p, f), LAMBDA x :
        LET kind == IF how # "brace" THEN how ELSE IF TOK(x.at) = ":" THEN "dict" ELSE "set"
            key == Starred(x.tree, star)
        IN CASE (kind = "dict") # (TOK(x.at) = ":") -> Unexpected(x.at)
             [] kind = "set" /\ TOK(x.at) # ":" -> Made([nodes |-> <<key>>, how |-> kind], x.at)
             [] kind = "dict" /\ TOK(x.at) = ":" ->
                   Then(EXPR(x.at + 1, f), LAMBDA y :
                       Made([nodes |-> <<key, y.tree>>, how |-> kind], y.at)))

Item(how, p, f) ==
    LET star == TOK(p) = "*"
        q == IF star THEN p + 1 ELSE p
        One(r) == Then(r, LAMBDA x : Made([nodes |-> <<Starred(x.tree, star)>>, how |-> how], x.at))
    IN CASE how = "plain" -> One(EXPR(q, f))
         [] how = "index" -> One(Index(q, f))
         [] how = "par" -> One(Parameter(q, f))
         [] OTHER -> InBraces(how, star, q, f)

RECURSIVE Items(_, _, _, _)
(* From what is read so far; comma: there was one, or a star. *)
Items(sofar, p, close, f) ==
    IF TOK(p) = close THEN Made(sofar, p)
    ELSE Then(Item(sofar.how, p, f), LAMBDA x :
             LET q == SKIP_N(x.at)
                 Now(comma) == [how |-> x.tree.how, nodes |-> sofar.nodes \o x.tree.nodes,
                                comma |-> comma \/ sofar.comma \/ TOK(p) = "*"]
             IN IF TOK(q) = "," THEN Items(Now(TRUE), SKIP_N(q + 1), close, f)
                ELSE Made(Now(FALSE), q))

Nothing(how) == [how |-> how, nodes |-> <<>>, comma |-> FALSE]

Enclosed(how, p, close, f) ==
    Then(Items(Nothing(how), p, close, f), LAMBDA x :
        IF TOK(x.at) = close THEN Made(x.tree, x.at + 1) ELSE Unexpected(x.at))

-----------------------------------------------------------------------------
(* What an expression begins with *)

(* A lone comma says that there is nothing. *)
Empty(kind, p, close) ==
    IF TOK(SKIP_N(p)) = close THEN Made(Node(kind, <<>>, Null), SKIP_N(p) + 1)
    ELSE Unexpected(SKIP_N(p))

(* Mutant: a comma behind the only element is not seen. *)
GroupOfOne(p, f) ==
    LET q == SKIP_N(p + 1)
    IN IF TOK(q) = "," THEN Empty("TUPLE", q + 1, ")")
       ELSE Then(Enclosed("plain", q, ")", f), LAMBDA x :
                IF Len(x.tree.nodes) = 1 THEN Made(x.tree.nodes[1], x.at)
                ELSE Made(Node("TUPLE", x.tree.nodes, Null), x.at))

Group(p, f) ==
    LET q == SKIP_N(p + 1)
    IN IF TOK(q) = "," THEN Empty("TUPLE", q + 1, ")")
       ELSE Then(Enclosed("plain", q, ")", f), LAMBDA x :
                IF Len(x.tree.nodes) = 1 /\ ~x.tree.comma THEN Made(x.tree.nodes[1], x.at)
                ELSE Made(Node("TUPLE", x.tree.nodes, Null), x.at))

Brackets(p, f) ==
    Then(Enclosed("plain", SKIP_N(p + 1), "]", f), LAMBDA x :
        Made(Node("LIST", x.tree.nodes, Null), x.at))

Braces(p, f) ==
    LET q == SKIP_N(p + 1)
    IN IF TOK(q) = "," THEN Empty("DICT", q + 1, "}")
       ELSE Then(Enclosed("brace", q, "}", f), LAMBDA x :
                Made(Node(IF x.tree.how = "set" THEN "SET" ELSE "DICT", x.tree.nodes, Null), x.at))

(* The word is a name unless one of these follows. *)
Begins(word, p, next) == TOK(p) = word /\ Kind(TOK(p + 1)) \in next

NameAt(p) == IF Kind(TOK(p)) = "NAME" THEN TOK(p) ELSE Null
BehindName(p) == IF Kind(TOK(p)) = "NAME" THEN p + 1 ELSE p

(* Nothing is thrown where the parameters should end (parser.c:1288). *)
Parameters(p, f) ==
    IF TOK(p) # "(" THEN Made(<<>>, p)
    ELSE Then(Items(Nothing("par"), p + 1, ")", f), LAMBDA x :
             IF TOK(x.at) = ")" THEN Made(x.tree.nodes, x.at + 1) ELSE Fails("silent", x.at))

Func(p, f) ==
    Then(Parameters(BehindName(p + 1), f), LAMBDA pars :
    Then(B(pars.at, f), LAMBDA body :
        Made(Node("FUNC", <<Node("TUPLE", pars.tree, Null), body.tree>>, NameAt(p + 1)), body.at)))

Type(p, f) ==
    LET q == BehindName(p + 1)
        base == IF TOK(q) = "extends" THEN EXPR(q + 1, f) ELSE Made(Node("NAME", <<>>, "object"), q)
    IN Then(base, LAMBDA x :
       Then(B(x.at, f), LAMBDA body :
           Made(Node("TYPE", <<x.tree, body.tree>>, NameAt(p + 1)), body.at)))

Enum(p, f) ==
    Then(B(BehindName(p + 1), f), LAMBDA body :
        Made(Node("ENUM", <<body.tree>>, NameAt(p + 1)), body.at))

ATOM(p) ==
    CASE TOK(p) \in Literal \cup Keyconst -> Made(Node("CONST", <<>>, TOK(p)), p + 1)
      [] TOK(p) \in Word \ Keyconst -> Made(Node("NAME", <<>>, TOK(p)), p + 1)
      [] OTHER -> Unexpected(p)

Primary(p, f) ==
    CASE TOK(p) = "(" -> Group(p, f)
      [] TOK(p) = "[" -> Brackets(p, f)
      [] TOK(p) = "{" -> Braces(p, f)
      [] Begins("func", p, {"{", "(", "NAME"}) -> Func(p, f)
      [] Begins("type", p, {"{", "NAME"}) -> Type(p, f)
      [] Begins("enum", p, {"{", "NAME"}) -> Enum(p, f)
      [] OTHER -> ATOM(p)

-----------------------------------------------------------------------------
(* What follows it *)

(* A parameter that is not a name is taken for one with a default, and its *)
(* first child read, which is not there (parser.c:1436).                   *)
Lambda(x, f) ==
    IF TOK(x.at) # "->" \/ x.tree.k \notin {"NAME", "TUPLE"} THEN x
    ELSE LET pars == IF x.tree.k = "NAME" THEN Node("TUPLE", <<x.tree>>, Null) ELSE x.tree
             Faults(s) == s.k # "NAME" /\ s.sub = <<>>
         IN Then(EXPR(x.at + 1, f), LAMBDA body :
                IF \E i \in DOMAIN pars.sub : Faults(pars.sub[i]) THEN Fails("died", body.at)
                ELSE Made(Node("FUNC", <<pars, Node("RET", <<body.tree>>, Null)>>, Null), body.at))

RECURSIVE Postfix(_, _)
(* The case for -- repeats that for ++ (parser.c:1686).                    *)
Postfix(x, f) ==
    LET Of(kind, r) ==
            Then(r, LAMBDA y : Postfix(Made(Node(kind, <<x.tree>> \o y.tree.nodes, Null), y.at), f))
    IN CASE TOK(x.at) = "." ->
               IF Kind(TOK(x.at + 1)) = "NAME"
               THEN Postfix(Made(Node("ATTR", <<x.tree>>, TOK(x.at + 1)), x.at + 2), f)
               ELSE Unexpected(x.at + 1)
         [] TOK(x.at) = "(" -> Of("CALL", Enclosed("plain", SKIP_N(x.at + 1), ")", f))
         [] TOK(x.at) = "[" -> Of("ELEM", Enclosed("index", SKIP_N(x.at + 1), "]", f))
         [] TOK(x.at) = "++" -> Postfix(Made(Node("post++", <<x.tree>>, Null), x.at + 1), f)
         [] OTHER -> x

E15(p, f) ==
    Then(Primary(p, f), LAMBDA x : Then(Lambda(x, f), LAMBDA y : Postfix(y, f)))

E(n, p, f) ==
    CASE n = 0 -> E0(p, f)
      [] n = 1 -> E1(p, f)
      [] n = 5 -> E5(p, f)
      [] n = 6 -> E6(p, f)
      [] n = 13 -> E13(p, f)
      [] n = 14 -> E14(p, f)
      [] n = 15 -> E15(p, f)
      [] OTHER -> LeftAssociative(n, p, f)

-----------------------------------------------------------------------------
(* Statements *)

RECURSIVE Statements(_, _, _)
(* As many as there are before the token that ends them. *)
Statements(nodes, p, f) ==
    IF TOK(p) \in {"EOF", "}"} THEN Made(nodes, p)
    ELSE Then(STMT(p, f), LAMBDA s : Statements(Append(nodes, s.tree), SKIP_N(s.at), f))

B(p, f) ==
    IF TOK(p) # "{" THEN Unexpected(p)
    ELSE Then(Statements(<<>>, SKIP_N(p + 1), f), LAMBDA s :
             IF TOK(s.at) = "}" THEN Made(Node("BLOCK", s.tree, Null), s.at + 1)
             ELSE Unexpected(s.at))

(* Mutant: nothing is thrown where a body should begin. *)
BORCQuiet(p, f) ==
    CASE TOK(p) = "{" -> B(p, f)
      [] TOK(p) = "," -> STMT(p + 1, f)
      [] OTHER -> Fails("silent", p)

BORC(p, f) ==
    CASE TOK(p) = "{" -> B(p, f)
      [] TOK(p) = "," -> STMT(p + 1, f)
      [] OTHER -> Unexpected(p)

BORS(p, f) == IF TOK(p) = "{" THEN B(p, f) ELSE STMT(p, f)

(* A condition and what it governs. *)
Governs(kind, p, f) ==
    Then(EXPR(p, f), LAMBDA c :
    Then(BORC(c.at, f), LAMBDA body : Made(Node(kind, <<c.tree, body.tree>>, Null), body.at)))

RECURSIVE Clauses(_, _)
(* Mutant: each elif clause is added to the first statement. *)
RECURSIVE ClausesFlat(_, _)
ClausesFlat(r, f) ==
    LET With(s) == Made([r.tree EXCEPT !.sub = Append(@, s.tree)], s.at)
    IN CASE TOK(r.at) = "elif" ->
               Then(Governs("IF", r.at + 1, f), LAMBDA s : ClausesFlat(With(s), f))
         [] TOK(r.at) = "else" -> Then(BORS(r.at + 1, f), With)
         [] OTHER -> r

(* The elif and else clauses of an if, while or for: each is the last      *)
(* child of the one before.                                                *)
Clauses(r, f) ==
    LET With(s) == Made([r.tree EXCEPT !.sub = Append(@, s.tree)], s.at)
    IN CASE TOK(r.at) = "elif" ->
               Then(Governs("IF", r.at + 1, f), LAMBDA s : Then(Clauses(s, f), With))
         [] TOK(r.at) = "else" -> Then(BORS(r.at + 1, f), With)
         [] OTHER -> r

Valued(kind, p, f) ==
    IF TOK(p) \in {";", "EOF", "nl"} THEN R_N(Made(Node(kind, <<None>>, Null), p))
    ELSE Then(EXPR(p, f), LAMBDA x : R_N(Made(Node(kind, <<x.tree>>, Null), x.at)))

RECURSIVE Path(_, _)
(* No end of the statement is asked for. *)
Path(names, p) ==
    CASE Kind(TOK(p)) # "NAME" -> Unexpected(p)
      [] Kind(TOK(p)) = "NAME" /\ TOK(p + 1) = "." -> Path(Append(names, TOK(p)), p + 2)
      [] OTHER -> Made(Node("IMPORT", <<>>, Append(names, TOK(p))), p + 1)

For(p, f) ==
    Then(EXPR(p, {"noin"}), LAMBDA to :
        IF TOK(to.at) # "in" THEN Unexpected(to.at)
        ELSE Then(Governs("FOR", to.at + 1, f), LAMBDA s :
                 Clauses(Made([s.tree EXCEPT !.sub = <<to.tree>> \o @], s.at), f)))

Anything == Node("NAME", <<>>, "Exception")
Nowhere == Node("NAME", <<>>, "")

(* The exceptions that a catch clause catches, and where to. *)
Caught(p, f) ==
    CASE TOK(p) = "as" ->
            Then(EXPR(p + 1, f), LAMBDA to : Made(<<Anything, to.tree>>, to.at))
      [] TOK(p) = "{" -> Made(<<Anything, Nowhere>>, p)
      [] OTHER ->
            Then(EXPR(p, f \cup {"noas"}), LAMBDA x :
                IF TOK(x.at) # "as" THEN Made(<<x.tree, None>>, x.at)
                ELSE Then(EXPR(x.at + 1, f), LAMBDA to : Made(<<x.tree, to.tree>>, to.at)))

RECURSIVE Catches(_, _)
Catches(nodes, r) ==
    IF TOK(r.at) = "catch"
    THEN Then(Caught(r.at + 1, r.tree), LAMBDA c :
         Then(BORC(c.at, r.tree), LAMBDA body :
             Catches(nodes \o c.tree \o <<body.tree>>, Made(r.tree, body.at))))
    ELSE IF TOK(r.at) = "finally"
    THEN Then(BORS(r.at + 1, r.tree), LAMBDA body : Made(Append(nodes, body.tree), body.at))
    ELSE Made(nodes, r.at)

Try(p, f) ==
    Then(BORS(p, f), LAMBDA body :
    Then(Catches(<<body.tree>>, Made(f, body.at)), LAMBDA s : Made(Node("TRY", s.tree, Null), s.at)))

STMT(p, f) ==
    CASE TOK(p) = "break" -> R_N(Made(Node("BREAK", <<>>, Null), p + 1))
      [] TOK(p) = "cont" -> R_N(Made(Node("CONT", <<>>, Null), p + 1))
      [] TOK(p) = "ret" -> Valued("RET", p + 1, f)
      [] TOK(p) = "throw" -> Valued("THROW", p + 1, f)
      [] TOK(p) = "assert" ->
            Then(EXPR(p + 1, f), LAMBDA x : R_N(Made(Node("ASSERT", <<x.tree>>, Null), x.at)))
      [] TOK(p) = "import" -> Path(<<>>, p + 1)
      [] TOK(p) = "if" -> Then(Governs("IF", p + 1, f), LAMBDA s : Clauses(s, f))
      [] TOK(p) = "while" -> Then(Governs("WHILE", p + 1, f), LAMBDA s : Clauses(s, f))
      [] TOK(p) = "for" -> For(p + 1, f)
      [] TOK(p) = "try" -> Try(p + 1, f)
      [] TOK(p) = ";" -> Made(Node("BLOCK", <<>>, Null), p + 1)
      [] OTHER -> Then(EXPR(p, f), R_N)

RECURSIVE Program(_, _)
Program(nodes, p) ==
    IF TOK(p) = "EOF" THEN Made(nodes, p)
    ELSE Then(STMT(p, {}), LAMBDA s : Program(Append(nodes, s.tree), SKIP_N(s.at)))

PROG == Then(Program(<<>>, SKIP_N(1)), LAMBDA s : Made(Node("BLOCK", s.tree, Null), s.at))

-----------------------------------------------------------------------------
Ended(s) == Append(s, "EOF")
Silence == [tokens |-> {}, length |-> 0]

Init ==
    /\ \/ /\ alphabet \in Alphabets /\ written = <<>>
          /\ toks = Ended(<<>>)
       \/ /\ alphabet = Silence /\ written \in Samples
          /\ toks = Ended(WriteProgram(written[1]))
    /\ result = PROG

(* What is rejected before its end is rejected whatever follows. *)
TypeToken ==
    /\ Len(toks) <= alphabet.length
    /\ result.ok \/ result.at = Len(toks)
    /\ \E t \in alphabet.tokens : toks' = Ended(Append(Front(toks), t))
    /\ result' = PROG'
    /\ UNCHANGED <<alphabet, written>>

Respell ==
    /\ result.ok /\ written = <<>>
    /\ written' = <<result.tree>>
    /\ toks' = Ended(WriteProgram(result.tree))
    /\ result' = PROG'
    /\ alphabet' = Silence

Next == TypeToken \/ Respell

Spec == Init /\ [][Next]_vars

-----------------------------------------------------------------------------
(* How many children a tree may have. *)
Children(t) ==
    CASE t.k \in {"NAME", "CONST", "BREAK", "CONT", "IMPORT"} -> {0}
      [] t.k \in {"ATTR", "STAR", "RET", "THROW", "ASSERT", "ENUM", "post++"} -> {1}
      [] t.k \in Prefixing /\ t.k \notin {"+", "-"} -> {1}
      [] t.k \in {"+", "-"} -> {1, 2}
      [] t.k \in {"FUNC", "TYPE"} -> {2}
      [] t.k \in {"IF", "WHILE"} -> {2, 3}
      [] t.k \in {"COND", "SLICE"} -> {3}
      [] t.k = "FOR" -> {3, 4}
      [] t.k = "TRY" -> {n \in DOMAIN t.sub : n % 3 # 0}
      [] t.k \in {"TUPLE", "LIST", "BLOCK"} -> {Len(t.sub)}
      [] t.k = "DICT" -> {n \in {Len(t.sub)} : n % 2 = 0}
      [] t.k \in {"SET", "CALL", "ELEM"} -> DOMAIN t.sub
      [] t.k = "RICHCMP" -> {n \in {Len(t.val) + 1} : n > 2}
      [] OTHER -> {2}

RECURSIVE WellFormed(_)
WellFormed(t) == Len(t.sub) \in Children(t) /\ \A i \in DOMAIN t.sub : WellFormed(t.sub[i])

(* A tree has the children that the compiler takes it apart into, and all  *)
(* tokens are used.                                                        *)
TypeOK ==
    /\ Len(toks) > 0 /\ Last(toks) = "EOF"
    /\ result.at \in 1 .. Len(toks)
    /\ result.ok => WellFormed(result.tree) /\ result.at = Len(toks)
    /\ ~result.ok => result.why \in {"thrown", "silent", "died"}
    /\ Len(written) \in {0, 1}

RECURSIVE Has(_, _)
Has(t, kinds) == t.k \in kinds \/ \E i \in DOMAIN t.sub : Has(t.sub[i], kinds)

RECURSIVE StarredKey(_)
StarredKey(t) ==
    \/ t.k = "DICT" /\ \E i \in DOMAIN t.sub : t.sub[i].k = "STAR"
    \/ \E i \in DOMAIN t.sub : StarredKey(t.sub[i])

(* A failure throws an exception, but for parameters of a function that    *)
(* are not closed, and parameters of a lambda that have no name (parser.c: *)
(* 1288, 1436).                                                            *)
FailsLoudly ==
    \/ result.ok \/ result.why = "thrown"
    \/ result.why = "silent" /\ \E i \in 2 .. result.at :
          toks[i] = "(" /\ "func" \in {toks[i - 1], toks[IF i > 2 THEN i - 2 ELSE 1]}
    \/ result.why = "died" /\ \E i \in 2 .. result.at : toks[i] = "->" /\ toks[i - 1] = ")"

(* Tokens that make no statements or constructors. *)
Expressive ==
    /\ written = <<>>
    /\ alphabet.tokens \cap ({"nl", ";", "ret", "try", "while", "for", "import"} \cup Constructors) = {}

(* What the parser takes beyond the grammar, and what it leaves out.       *)
LoneComma(s) == \E i \in 2 .. Len(s) : s[i] = "," /\ s[i - 1] \in {"(", "[", "{"}
Beyond(t) == Has(t, {"SLICE", "FUNC", "TYPE", "ENUM"}) \/ StarredKey(t)

(* An expression is accepted exactly if the grammar derives it, which it   *)
(* does in one way, and its tree is that of the derivation: the precedence *)
(* and associativity of every operator, and what closes what, are those of *)
(* the comment, but for a -- behind an operand, which is never taken, lone *)
(* commas, slices, lambdas and starred keys.                               *)
AsGrammar ==
    LET s == Front(toks)
        derived == {t \in Trees(s) : ~Has(t, {"post--", "//=", "@="})}
    IN (Expressive /\ s # <<>> /\ s[1] # "if" /\ ~LoneComma(s)) =>
           \/ derived = {} /\ (result.ok => Beyond(result.tree))
           \/ result.ok /\ result.tree.sub = SetToSeq(derived)

(* A tree that is written down and parsed is the same tree. *)
RoundTrip == \A i \in DOMAIN written : result.ok /\ result.tree = written[i]

=============================================================================
