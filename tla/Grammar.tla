-------------------------------- MODULE Grammar --------------------------------
(***************************************************************************)
(* The expressions of kscript: the grammar that the comment at the head of *)
(* parser.c gives, as the trees that can be derived for a part of some     *)
(* tokens.  It says nothing of how to look for them.                       *)
(***************************************************************************)
EXTENDS Writer

(* The trees of level n of the tokens i to j - 1 of s. *)
RECURSIVE Derived(_, _, _, _)

Pairs(op, ls, rs) == {Node(op, <<l, r>>, Null) : l \in ls, r \in rs}

(* Where one of some tokens is, with something on both sides of it. *)
Inner(s, tokens, i, j) == {m \in i + 1 .. j - 2 : s[m] \in tokens}

RECURSIVE Chains(_, _, _)
(* Operands and operators of comparisons. *)
Chains(s, i, j) ==
    {[sub |-> <<x>>, val |-> <<>>] : x \in Derived(s, 6, i, j)}
    \cup UNION {{[sub |-> Append(c.sub, x), val |-> Append(c.val, s[m])] :
                    c \in Chains(s, i, m), x \in Derived(s, 6, m + 1, j)} :
                m \in Inner(s, Operators[5], i, j)}

Comparison(c) ==
    CASE Len(c.sub) = 1 -> c.sub[1]
      [] Len(c.sub) = 2 -> Node(c.val[1], c.sub, Null)
      [] OTHER -> Node("RICHCMP", c.sub, c.val)

Conditionals(s, i, j) ==
    UNION {LET then == Derived(s, 2, i, m)
               without == Derived(s, 2, m + 1, j)
           IN {Node("COND", <<c, x, None>>, Null) : c \in without, x \in then}
              \cup UNION {{Node("COND", <<c, x, y>>, Null) :
                              c \in Derived(s, 2, m + 1, e), x \in then, y \in Derived(s, 1, e + 1, j)} :
                          e \in Inner(s, {"else"}, m + 1, j)} :
           m \in Inner(s, {"if"}, i, j)}

(* An element, with a star or not; a key and a value *)
Element(s, i, j) ==
    Derived(s, 0, i, j)
    \cup (IF i < j /\ s[i] = "*" THEN {Node("STAR", <<x>>, Null) : x \in Derived(s, 0, i + 1, j)} ELSE {})

KeyValue(s, i, j) ==
    UNION {{<<x, y>> : x \in Derived(s, 0, i, m), y \in Derived(s, 0, m + 1, j)} :
           m \in Inner(s, {":"}, i, j)}

RECURSIVE Lists(_, _, _, _)
(* At least one of them, with commas between them and perhaps at the end. *)
Lists(s, kv, i, j) ==
    LET one(a, b) == IF kv THEN KeyValue(s, a, b) ELSE {<<x>> : x \in Element(s, a, b)}
        commas == {m \in i + 1 .. j - 1 : s[m] = ","}
    IN one(i, j)
       \cup UNION {{x \o rest : x \in one(i, m),
                               rest \in IF m = j - 1 THEN {<<>>} ELSE Lists(s, kv, m + 1, j)} :
                   m \in commas}

All(s, kv, i, j) == IF i = j THEN {<<>>} ELSE Lists(s, kv, i, j)

(* One expression in parentheses is no tuple unless there is a comma or a star. *)
Parenthesised(s, i, j) ==
    Derived(s, 0, i, j)
    \cup {Node("TUPLE", x, Null) : x \in
             {y \in All(s, FALSE, i, j) : Len(y) # 1 \/ y[1].k = "STAR" \/ s[j - 1] = ","}}

Bracketed(s, i, j) ==
    CASE s[i] = "(" /\ s[j - 1] = ")" -> Parenthesised(s, i + 1, j - 1)
      [] s[i] = "[" /\ s[j - 1] = "]" -> {Node("LIST", x, Null) : x \in All(s, FALSE, i + 1, j - 1)}
      [] s[i] = "{" /\ s[j - 1] = "}" ->
            {Node("DICT", x, Null) : x \in All(s, TRUE, i + 1, j - 1)}
            \cup {Node("SET", x, Null) : x \in All(s, FALSE, i + 1, j - 1) \ {<<>>}}
      [] OTHER -> {}

(* A call or index of what comes before the token at m. *)
Applied(s, kind, i, m, j) ==
    {Node(kind, <<x>> \o args, Null) : x \in Derived(s, 15, i, m), args \in All(s, FALSE, m + 1, j - 1)}

Postfixed(s, i, j) ==
    CASE s[j - 1] = ")" -> UNION {Applied(s, "CALL", i, m, j) : m \in {n \in i + 1 .. j - 2 : s[n] = "("}}
      [] s[j - 1] = "]" -> UNION {Applied(s, "ELEM", i, m, j) : m \in {n \in i + 1 .. j - 2 : s[n] = "["}}
      [] s[j - 1] \in {"++", "--"} ->
            {Node(IF s[j - 1] = "++" THEN "post++" ELSE "post--", <<x>>, Null) :
                x \in Derived(s, 15, i, j - 1)}
      [] s[j - 1] \in Word /\ j - i > 2 /\ s[j - 2] = "." ->
            {Node("ATTR", <<x>>, s[j - 1]) : x \in Derived(s, 15, i, j - 2)}
      [] OTHER -> {}

Tightest(s, i, j) ==
    (IF j - i # 1 THEN {}
     ELSE IF s[i] \in Literal \cup Keyconst THEN {Node("CONST", <<>>, s[i])}
     ELSE IF s[i] \in Word THEN {Node("NAME", <<>>, s[i])} ELSE {})
    \cup (IF j - i > 1 THEN Bracketed(s, i, j) \cup Postfixed(s, i, j) ELSE {})

Derived(s, n, i, j) ==
    IF i >= j THEN {}
    ELSE CASE n = 15 -> Tightest(s, i, j)
           [] n = 14 -> Derived(s, 15, i, j)
                \cup (IF s[i] \in Prefixing
                      THEN {Node(s[i], <<x>>, Null) : x \in Derived(s, 14, i + 1, j)} ELSE {})
           [] n = 13 -> Derived(s, 14, i, j)
                \cup UNION {Pairs("**", Derived(s, 14, i, m), Derived(s, 13, m + 1, j)) :
                            m \in Inner(s, {"**"}, i, j)}
           [] n = 6 -> Derived(s, 7, i, j)
                \cup UNION {{Node("CALL", <<y, x>>, Null) :
                                x \in Derived(s, 6, i, m), y \in Derived(s, 7, m + 1, j)} :
                            m \in Inner(s, {"as"}, i, j)}
           [] n = 5 -> {Comparison(c) : c \in Chains(s, i, j)}
           [] n = 1 -> Derived(s, 2, i, j) \cup Conditionals(s, i, j)
           [] n = 0 -> Derived(s, 1, i, j)
                \cup UNION {Pairs(s[m], Derived(s, 1, i, m), Derived(s, 0, m + 1, j)) :
                            m \in Inner(s, Assigning \cup {"//=", "@="}, i, j)}
           [] OTHER -> Derived(s, n + 1, i, j)
                \cup UNION {Pairs(s[m], Derived(s, n, i, m), Derived(s, n + 1, m + 1, j)) :
                            m \in Inner(s, Operators[n], i, j)}

(* The trees of an expression. *)
Trees(s) == Derived(s, 0, 1, Len(s) + 1)
=============================================================================
