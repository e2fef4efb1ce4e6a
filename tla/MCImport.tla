------------------------------- MODULE MCImport -------------------------------
(* A module that imports another, two that import each other, one whose    *)
(* body throws and one that catches that, one that is not a program, one   *)
(* that is not there, and a package with submodules of each kind, with a   *)
(* variable and with a module it imports, named like submodules.           *)
EXTENDS Import, TLC

CONSTANTS t1, t2

Says(path, within) == [path |-> path, within |-> within]
Imports(m) == Says(<<m>>, "nothing")
Raises == Says(<<>>, "nothing")

MCModule == {"a", "b", "c", "d", "e", "f", "io", "bad", "none",
             "pk", "sub", "deep", "rotten", "gone", "var"}

MCPlace == [m \in MCModule |->
    CASE m = "io" -> "builtin" [] m = "bad" -> "broken" [] m \in {"none", "gone"} -> "nowhere"
      [] m \in {"f", "deep"} -> "later" [] OTHER -> "first"]

MCBody == [m \in MCModule |->
    CASE m = "a" -> <<Imports("b"), Imports("io")>>
      [] m = "c" -> <<Imports("d")>>
      [] m = "d" -> <<Imports("c")>>
      [] m \in {"e", "rotten"} -> <<Imports("b"), Raises>>
      [] m = "f" -> <<Says(<<"e">>, "try"), Imports("b")>>
      [] m = "pk" -> <<Imports("io")>>
      [] m = "deep" -> <<Says(<<"pk", "sub">>, "nothing")>>
      [] OTHER -> <<>>]

MCAttribute == [m \in MCModule |-> IF m = "pk" THEN {"var"} ELSE {}]

Paths ==
    {<<m>> : m \in {"a", "c", "f", "io", "bad", "none"}}
    \cup {<<"pk", s>> : s \in {"sub", "deep", "rotten", "gone", "var"}}
    \cup {<<"pk", "gone", "sub">>, <<"pk", "var", "sub">>, <<"pk", "io", "sub">>}

(* Every import with nothing pending, and some in a finally clause. *)
Lines == {Says(p, "nothing") : p \in Paths} \cup {Says(<<"e">>, "try")}
         \cup {Says(p, "finally") : p \in {<<"a">>, <<"f">>, <<"none">>, <<"pk", "rotten">>}}
Tried == {Says(p, "try") : p \in Paths}

(* One thread tries one import and goes on with any other; the second      *)
(* imports alongside what takes several steps.                             *)
MCScripts ==
    (t1 :> {<<k, l>> : k \in Tried, l \in Lines})
    @@ (t2 :> {<<Imports(m)>> : m \in {"a", "c", "f"}}
              \cup {<<Says(<<"pk", s>>, "nothing")>> : s \in {"deep", "rotten"}})
=============================================================================
