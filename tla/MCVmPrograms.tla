----------------------------- MODULE MCVmPrograms -----------------------------
(* The programs that are compiled rightly, and their certificates *)
EXTENDS MCVm, Certificates

MCLocals == {"a", "b", "e", "inner", "m", "n", "pair", "x", "F", "T"}

(* What is known where two ways meet *)
Common(s, t) ==
    LET n == IF Len(s) < Len(t) THEN Len(s) ELSE Len(t)
        a(j) == s[Len(s) - n + j]
        b(j) == t[Len(t) - n + j]
    IN [j \in 1 .. n |-> IF Suits(a(j), b(j)) THEN a(j) ELSE IF Suits(b(j), a(j)) THEN b(j) ELSE "any"] \o <<>>

Segment(s, t) ==
    [t EXCEPT !.stack = Common(s.stack, @), !.whole = @ /\ s.whole /\ Len(s.stack) = Len(t.stack)]

Either(s, t) ==
    [Segment(s, t) EXCEPT !.tries = [k \in DOMAIN @ |-> Segment(s.tries[k], @[k])] \o <<>>,
                          !.exc = IF s.exc = @ THEN @ ELSE "maybe",
                          !.star = IF s.star = @ THEN @ ELSE <<>>]

Reached(plan, l, s) ==
    IF l \notin DOMAIN plan THEN s
    ELSE IF Len(plan[l].tries) = Len(s.tries) THEN Either(s, plan[l]) ELSE plan[l]

Onwards(code, l, s) ==
    IF l \in DOMAIN code /\ Ready(s, code[l]) THEN AllFlows(code[l], l + Size(code[l].op), s)
    ELSE {}

(* The certificate of a code: every way into a location is followed on     *)
(* from there, until nothing new comes out.                                *)
RECURSIVE Follow(_, _, _)
Follow(code, plan, ways) ==
    IF ways = {} THEN plan
    ELSE LET way == CHOOSE w \in ways : TRUE
             l == way[1]
             s == Reached(plan, l, way[2])
             others == ways \ {way}
         IN IF l \in DOMAIN plan /\ s = plan[l] THEN Follow(code, plan, others)
            ELSE Follow(code, l :> s @@ plan, others \cup Onwards(code, l, s))

(* f, with all of its values computed *)
Tabled(f) == f @@ <<>>

(* S, and what is in its members *)
Parts(S) == S \cup UNION {ToSet(Elements(v)) : v \in {u \in S : Iterable(u)}}

(* TLC evaluates All once. *)
All ==
    With(AllCode, LAMBDA code :
    With(SoundOnes, LAMBDA ones :
    With(FromDefects, LAMBDA n :
    With(Tabled([p \in {q \in ones : q <= n} |-> code[p]]), LAMBDA sound :
        [code |-> sound,
         plan |-> Tabled([p \in DOMAIN sound |-> Follow(sound[p], <<>>, {<<1, Entry>>})]),
         base |-> Parts(Parts(Parts(
                  {None, Bool(TRUE), Bool(FALSE), <<"dots">>, <<"odd", "o">>, Pair}
                  \cup {Atom(x) : x \in {"1", "2", "3", "a", "e", "m", "o", "p", "r", "x"}}
                  \cup {Exc(t) : t \in {"E", "F", "OutOfIterException"}}
                  \cup {MCGlobals[g] : g \in DOMAIN MCGlobals}
                  \cup {<<"code", p>> : p \in DOMAIN sound})))]))))

SoundCode == LET all == All IN all.code
MCPlan == LET all == All IN all.plan
MCBase == LET all == All IN all.base
===============================================================================
