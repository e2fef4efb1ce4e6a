-------------------------------- MODULE Writer --------------------------------
(***************************************************************************)
(* Tokens, the syntax trees that the parser makes of them, and how a tree  *)
(* is written down, with parentheses where the precedence of the operators *)
(* calls for them.                                                         *)
(*                                                                         *)
(* A tree is [k, sub, val], its kind, children and value; the kind of an   *)
(* operator is its token.                                                  *)
(***************************************************************************)
EXTENDS Integers, Sequences, SequencesExt

Node(k, sub, val) == [k |-> k, sub |-> sub, val |-> val]
Null == ""

Constructors == {"func", "type", "enum"}
Keyconst == {"none", "true"}
Word == {"a", "b", "c", "e", "object", "Exception", "extends"} \cup Constructors \cup Keyconst
Literal == {"1", "'s'", "..."}

None == Node("CONST", <<>>, "none")

Assigning == {"=", "&=", "^=", "|=", "<<=", ">>=", "+=", "-=", "*=", "/=", "%=", "**="}
Prefixing == {"++", "--", "+", "-", "~", "!", "?"}

(* By precedence, from loose to tight; 1 is the conditional, 6 `as', 14    *)
(* the prefixes and 15 what binds tightest.                                *)
Operators ==
    [n \in 2 .. 13 |->
        CASE n = 2 -> {"??"} [] n = 3 -> {"||"} [] n = 4 -> {"&&"}
          [] n = 5 -> {"<", "<=", ">", ">=", "==", "!=", "in"}
          [] n = 6 -> {"as"}
          [] n = 7 -> {"|"} [] n = 8 -> {"^"} [] n = 9 -> {"&"}
          [] n = 10 -> {"<<", ">>"} [] n = 11 -> {"+", "-"}
          [] n = 12 -> {"*", "@", "/", "//", "%"} [] n = 13 -> {"**"}]

IsLambda(t) == t.k = "FUNC" /\ t.sub[2].k = "RET"

Level(t) ==
    CASE t.k \in Assigning \/ IsLambda(t) -> 0
      [] t.k = "COND" -> 1
      [] t.k = "RICHCMP" -> 5
      [] t.k \in Prefixing /\ Len(t.sub) = 1 -> 14
      [] Len(t.sub) = 2 /\ \E n \in 2 .. 13 : t.k \in Operators[n] ->
            CHOOSE n \in 2 .. 13 : t.k \in Operators[n]
      [] OTHER -> 15

RECURSIVE Write(_, _), WriteStatement(_)

(* F of each.  (TLC evaluates what a variable is bound to once, and the    *)
(* argument of an operator again and again.)                               *)
Each(s, F(_)) == CHOOSE r \in {[i \in DOMAIN v |-> F(v[i])] : v \in {s}} : TRUE

(* Each item is followed by a comma. *)
WriteAll(s) == FlattenSeq(Each(s, LAMBDA t : Write(t, 0) \o <<",">>))

WritePart(t) == IF t = None THEN <<>> ELSE Write(t, 0)

WritePairs(s) ==
    FlattenSeq([i \in 1 .. Len(s) \div 2 |->
        Write(s[2 * i - 1], 0) \o <<":">> \o Write(s[2 * i], 0) \o <<",">>])

Braced(block) == <<"{">> \o FlattenSeq(Each(block.sub, WriteStatement)) \o <<"}">>

WriteConstructor(t) ==
    LET named == IF t.val = Null THEN <<>> ELSE <<t.val>>
        object == Node("NAME", <<>>, "object")
    IN CASE t.k = "FUNC" ->
               <<"func">> \o named \o <<"(">> \o WriteAll(t.sub[1].sub) \o <<")">> \o Braced(t.sub[2])
         [] t.k = "TYPE" ->
               <<"type">> \o named
               \o (IF t.sub[1] = object THEN <<>> ELSE <<"extends">> \o Write(t.sub[1], 0))
               \o Braced(t.sub[2])
         [] t.k = "ENUM" -> <<"enum">> \o named \o Braced(t.sub[1])

(* An expression, with nothing around it. *)
Spell(t) ==
    LET Binary(n, l, r) == Write(t.sub[1], l) \o <<t.k>> \o Write(t.sub[2], r)
    IN CASE t.k \in {"NAME", "CONST"} -> <<t.val>>
         [] IsLambda(t) ->
               <<"(">> \o WriteAll(t.sub[1].sub) \o <<")", "->">> \o Write(t.sub[2].sub[1], 0)
         [] t.k \in {"FUNC", "TYPE", "ENUM"} -> WriteConstructor(t)
         [] t.k \in Assigning -> Binary(0, 1, 0)
         [] t.k = "COND" ->
               Write(t.sub[2], 2) \o <<"if">> \o Write(t.sub[1], 2)
               \o (IF t.sub[3] = None THEN <<>> ELSE <<"else">> \o Write(t.sub[3], 1))
         [] t.k = "RICHCMP" ->
               Write(t.sub[1], 6)
               \o FlattenSeq([i \in DOMAIN t.val |-> <<t.val[i]>> \o Write(t.sub[i + 1], 6)])
         [] t.k \in Prefixing /\ Len(t.sub) = 1 -> <<t.k>> \o Write(t.sub[1], 14)
         [] t.k = "TUPLE" -> <<"(">> \o WriteAll(t.sub) \o <<")">>
         [] t.k = "LIST" -> <<"[">> \o WriteAll(t.sub) \o <<"]">>
         [] t.k = "SET" -> <<"{">> \o WriteAll(t.sub) \o <<"}">>
         [] t.k = "DICT" -> <<"{">> \o WritePairs(t.sub) \o <<"}">>
         [] t.k = "STAR" -> <<"*">> \o Write(t.sub[1], 0)
         [] t.k = "SLICE" ->
               WritePart(t.sub[1]) \o <<":">> \o WritePart(t.sub[2]) \o <<":">> \o WritePart(t.sub[3])
         [] t.k = "ATTR" -> Write(t.sub[1], 15) \o <<".", t.val>>
         [] t.k = "CALL" -> Write(t.sub[1], 15) \o <<"(">> \o WriteAll(Tail(t.sub)) \o <<")">>
         [] t.k = "ELEM" -> Write(t.sub[1], 15) \o <<"[">> \o WriteAll(Tail(t.sub)) \o <<"]">>
         [] t.k \in {"post++", "post--"} ->
               Write(t.sub[1], 15) \o <<IF t.k = "post++" THEN "++" ELSE "--">>
         [] t.k = "**" -> Binary(13, 14, 13)
         [] Level(t) = 5 -> Binary(5, 6, 6)
         [] OTHER -> Binary(Level(t), Level(t), Level(t) + 1)

(* An expression where the grammar has one of level n. *)
Write(t, n) ==
    IF Level(t) < n \/ (t.k = "NAME" /\ t.val \in Constructors)
    THEN <<"(">> \o Spell(t) \o <<")">> ELSE Spell(t)

-----------------------------------------------------------------------------
(* A block, or a comma and a statement; a block, or a statement *)
WriteBORC(t) == IF t.k = "BLOCK" THEN Braced(t) ELSE <<",">> \o WriteStatement(t)

WriteBORS(t) ==
    IF t.k = "BLOCK" THEN Braced(t)
    ELSE LET s == WriteStatement(t)
         IN IF s[1] = "{" THEN <<"(">> \o Front(s) \o <<")", ";">> ELSE s

RECURSIVE WriteClauses(_)
WriteClauses(s) ==
    CASE s = <<>> -> <<>>
      [] s # <<>> /\ s[1].k = "IF" ->
            <<"elif">> \o Write(s[1].sub[1], 0) \o WriteBORC(s[1].sub[2])
            \o WriteClauses(SubSeq(s[1].sub, 3, Len(s[1].sub)))
      [] OTHER -> <<"else">> \o WriteBORS(s[1])

(* Braces behind catch begin its block. *)
WriteCaught(t) == IF Write(t, 0)[1] = "{" THEN <<"(">> \o Write(t, 0) \o <<")">> ELSE Write(t, 0)

WriteCatch(type, to, body) ==
    <<"catch">>
    \o (IF to.k = "NAME" /\ to.val = "" THEN <<>>
        ELSE WriteCaught(type) \o (IF to = None THEN <<>> ELSE <<"as">> \o Write(to, 0)))
    \o WriteBORC(body)

WriteTry(t) ==
    LET n == (Len(t.sub) - 1) \div 3
    IN <<"try">> \o WriteBORS(t.sub[1])
       \o FlattenSeq([i \in 1 .. n |->
             WriteCatch(t.sub[3 * i - 1], t.sub[3 * i], t.sub[3 * i + 1])])
       \o (IF Len(t.sub) % 3 = 2 THEN <<"finally">> \o WriteBORS(Last(t.sub)) ELSE <<>>)

WriteStatement(t) ==
    CASE t.k \in {"BREAK", "CONT"} -> <<IF t.k = "BREAK" THEN "break" ELSE "cont", ";">>
      [] t.k \in {"RET", "THROW"} ->
            <<IF t.k = "RET" THEN "ret" ELSE "throw">> \o WritePart(t.sub[1]) \o <<";">>
      [] t.k = "ASSERT" -> <<"assert">> \o Write(t.sub[1], 0) \o <<";">>
      [] t.k = "IMPORT" ->
            <<"import", t.val[1]>> \o FlattenSeq(Each(Tail(t.val), LAMBDA x : <<".", x>>))
      [] t.k \in {"IF", "WHILE"} ->
            <<IF t.k = "IF" THEN "if" ELSE "while">> \o Write(t.sub[1], 0) \o WriteBORC(t.sub[2])
            \o WriteClauses(SubSeq(t.sub, 3, Len(t.sub)))
      [] t.k = "FOR" ->
            <<"for">> \o Write(t.sub[1], 0) \o <<"in">> \o Write(t.sub[2], 0) \o WriteBORC(t.sub[3])
            \o WriteClauses(SubSeq(t.sub, 4, Len(t.sub)))
      [] t.k = "TRY" -> WriteTry(t)
      [] t.k = "BLOCK" -> <<";">>
      [] OTHER -> Write(t, 0) \o <<";">>

WriteProgram(t) == FlattenSeq(Each(t.sub, WriteStatement))
=============================================================================
