------------------------------- MODULE MCParser -------------------------------
(* Tokens that are typed together, and programs to write down. *)
EXTENDS Parser

Upto(length, tokens) == [tokens |-> tokens, length |-> length]

MCAlphabets ==
    { \* operators of each kind of rule
      Upto(5, {"a", "+", "-", "**", "<", "in", "as", "if", "else", "=", "(", ")"}),
      Upto(5, {"a", "??", "&&", "|", "*", "==", "<", "--", "!", "(", ")"}),
      \* brackets
      Upto(5, {"a", "(", ")", "[", "]", "{", "}", ",", ":", "*", "."}),
      Upto(6, {"a", "(", ")", "->", ",", "=", "1", "++"}),
      \* statements
      Upto(6, {"a", "if", "elif", "else", ",", ";", "{", "}"}),
      Upto(6, {"a", "try", "catch", "as", "finally", "{", "}"}),
      Upto(5, {"a", "for", "in", "while", "(", ")", ",", ";"}),
      Upto(5, {"a", "ret", "break", "import", ".", "nl", ";"}),
      Upto(5, {"a", "func", "type", "enum", "extends", "(", ")", "{", "}"}) }

-----------------------------------------------------------------------------
A == Node("NAME", <<>>, "a")
C == Node("NAME", <<>>, "c")
One == Node("CONST", <<>>, "1")
Of(k, sub) == Node(k, sub, Null)
Block(s) == Of("BLOCK", s)

(* Every expression with one of in in every place. *)
Composed(in) ==
    LET at1(k) == Each(in, LAMBDA x : Of(k, <<x>>))
        at2(k) == Each(in, LAMBDA x : Of(k, <<x, A>>)) \o Each(in, LAMBDA x : Of(k, <<A, x>>))
        at3(k) == Each(in, LAMBDA x : Of(k, <<x, A, C>>)) \o Each(in, LAMBDA x : Of(k, <<A, x, C>>))
                  \o Each(in, LAMBDA x : Of(k, <<A, C, x>>))
        with(F(_)) == Each(in, F)
    IN at2("=") \o at2("+=") \o at3("COND") \o at2("??") \o at2("||") \o at2("&&")
       \o at2("<") \o at2("in") \o at2("|") \o at2("^") \o at2("&") \o at2("<<")
       \o at2("-") \o at2("+") \o at2("*") \o at2("//") \o at2("**")
       \o at1("-") \o at1("!") \o at1("++") \o at1("post++")
       \o at1("TUPLE") \o at2("TUPLE") \o at1("LIST") \o at2("SET") \o at2("DICT")
       \o at2("CALL") \o at2("ELEM")
       \o with(LAMBDA x : Node("ATTR", <<x>>, "b"))
       \o with(LAMBDA x : Node("RICHCMP", <<x, A, C>>, <<"<", "==">>))
       \o with(LAMBDA x : Node("RICHCMP", <<A, x, C>>, <<"<", "in">>))
       \o with(LAMBDA x : Node("RICHCMP", <<A, C, x>>, <<"<", "<">>))
       \o with(LAMBDA x : Of("CALL", <<A, Of("STAR", <<x>>)>>))
       \o with(LAMBDA x : Of("ELEM", <<A, Of("SLICE", <<x, None, A>>)>>))
       \o with(LAMBDA x : Of("ELEM", <<A, Of("SLICE", <<None, x, None>>)>>))
       \o with(LAMBDA x : Of("FUNC", <<Of("TUPLE", <<A>>), Of("RET", <<x>>)>>))
       \o with(LAMBDA x : Of("FUNC", <<Of("TUPLE", <<A, Of("=", <<C, x>>)>>), Block(<<x>>)>>))
       \o with(LAMBDA x : Node("TYPE", <<x, Block(<<>>)>>, "b"))

(* Every statement with one of in in every place of a statement. *)
Around(in) ==
    LET with(F(_)) == Each(in, F)
    IN with(LAMBDA x : Of("IF", <<A, Block(<<x>>)>>))
       \o with(LAMBDA x : Of("IF", <<A, Block(<<x>>), Of("IF", <<C, Block(<<x, x>>), Block(<<>>)>>)>>))
       \o with(LAMBDA x : Of("WHILE", <<A, Block(<<x>>), Of("IF", <<C, Block(<<>>), x>>)>>))
       \o with(LAMBDA x : Of("WHILE", <<A, x>>))
       \o with(LAMBDA x : Of("FOR", <<A, C, x>>))
       \o with(LAMBDA x : Of("FOR", <<A, C, Block(<<x>>), x>>))
       \o with(LAMBDA x : Of("TRY", <<Block(<<x>>), A, C, Block(<<x>>), C, None, Block(<<x>>), x>>))
       \o with(LAMBDA x : Of("TRY", <<Block(<<>>), Anything, Nowhere, Block(<<x>>)>>))
       \o with(LAMBDA x : Of("TRY", <<Block(<<x>>), x>>))
       \o with(LAMBDA x : Of("FUNC", <<Of("TUPLE", <<A, Of("STAR", <<C>>)>>), Block(<<x>>)>>))
       \o with(LAMBDA x : Node("TYPE", <<A, Block(<<x>>)>>, "b"))
       \o with(LAMBDA x : Node("ENUM", <<Block(<<x>>)>>, "b"))

(* Every statement with an expression in the place of an expression.  What *)
(* is behind for has no in, and that behind catch no as (parser.c:203).*)
With(in) ==
    LET with(F(_)) == Each(in, F)
    IN with(LAMBDA x : x) \o with(LAMBDA x : Of("RET", <<x>>))
       \o with(LAMBDA x : Of("ASSERT", <<x>>))
       \o with(LAMBDA x : Of("IF", <<x, A, x>>))
       \o with(LAMBDA x : Of("WHILE", <<x, Block(<<x>>)>>))
       \o with(LAMBDA x : Of("FOR", <<A, x, Block(<<>>)>>))
       \o Each(SelectSeq(in, LAMBDA x : ~Has(x, {"in"}) /\ (x.k = "RICHCMP" => "in" \notin ToSet(x.val))),
               LAMBDA x : Of("FOR", <<x, A, Block(<<>>)>>))
       \o with(LAMBDA x : Of("TRY", <<x, x, x, Block(<<>>)>>))

Plain == <<A, Of("SET", <<A>>), Of("RET", <<None>>), Of("BREAK", <<>>), Of("THROW", <<A>>),
           Node("IMPORT", <<>>, <<"a", "b">>)>>

MCSamples ==
    ToSet(Each(Composed(Composed(<<A>>)) \o With(Composed(<<A>>)) \o Around(Plain) \o Around(Around(Plain)),
               LAMBDA x : <<Block(<<x, A>>)>>))
=============================================================================
