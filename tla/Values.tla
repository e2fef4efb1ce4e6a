-------------------------------- MODULE Values --------------------------------
(***************************************************************************)
(* The objects a kscript program handles, as far as the interpreter tells  *)
(* them apart.  A value is a tuple that begins with its kind:              *)
(*                                                                         *)
(*   <<"none">>  <<"true">>  <<"false">>  <<"dots">>   the singletons      *)
(*   <<"atom", x>>        any plain object that is true and not iterable   *)
(*   <<"odd", x>>         one whose __bool throws                          *)
(*   <<"exc", T>>         an exception of type T                           *)
(*   <<"type", T>>        a type                                           *)
(*   <<"str", s>>         the characters of a string                       *)
(*   <<"list", s>>        also "tuple", "set" and "dict" (keys and values) *)
(*   <<"slice", s>>  <<"iter", v>>                                         *)
(*   <<"cfunc", f>>       a C function, or a type called as a constructor  *)
(*   <<"func", i>>        the i-th function object made                    *)
(*   <<"code", p>>        the code object of program p                     *)
(*                                                                         *)
(* Objects with a __next, __iter or __hash of their own (map and filter,   *)
(* files) are not among them.                                              *)
(***************************************************************************)
EXTENDS Integers, Sequences, SequencesExt

Null == <<"NULL">>
None == <<"none">>
Bool(b) == IF b THEN <<"true">> ELSE <<"false">>
Exc(type) == <<"exc", type>>
Kind(v) == v[1]

Kinds == {"none", "true", "false", "dots", "atom", "odd", "exc", "type", "str", "list", "tuple",
          "set", "dict", "slice", "iter", "cfunc", "func", "code"}

(* What a call into C or an operator comes back with *)
Ret(v) == [thrown |-> FALSE, val |-> v]
Throw(type) == [thrown |-> TRUE, val |-> Exc(type)]

(* kso_truthy *)
TruthThrows(v) == Kind(v) = "odd"
Empty(v) == Kind(v) \in {"str", "list", "tuple", "set", "dict"} /\ v[2] = <<>>
Truthy(v) == v \notin {Bool(FALSE), None} /\ ~Empty(v)

(* ks_set_add of each element in turn: the first of equal ones stays *)
Firsts(s) == {i \in DOMAIN s : \A j \in 1 .. i - 1 : s[j] # s[i]}
Nth(places, k) == CHOOSE i \in places : Cardinality({j \in places : j <= i}) = k

WithoutRepeats(s) == [k \in 1 .. Cardinality(Firsts(s)) |-> s[Nth(Firsts(s), k)]]

(* kso_is_iterable: the type has __iter or __next.  The iterators of the   *)
(* containers have neither, and none is an iterator that is out.           *)
Iterable(v) == Kind(v) \in {"none", "str", "list", "tuple", "set", "dict"}

(* kso_iter *)
Iterator(v) == IF v = None THEN v ELSE <<"iter", v>>

(* kso_next makes an iterator of what is none. *)
Advances(v) == Iterable(v) \/ Kind(v) = "iter"

(* What an iterator yields: the characters of a string, the keys of a dict *)
Keys(s) == [i \in 1 .. Len(s) \div 2 |-> s[2 * i - 1]]

Elements(v) ==
    CASE Kind(v) = "none" -> <<>>
      [] Kind(v) = "str" -> [i \in DOMAIN v[2] |-> <<"str", <<v[2][i]>>>>]
      [] Kind(v) = "dict" -> WithoutRepeats(Keys(v[2]))
      [] OTHER -> v[2]

(* What is in a tuple, in tuples in it and so on, in order.  Nesting is    *)
(* how deep tuples are nested in each other.                               *)
Nesting == 4

Opened(s) == FlattenSeq([i \in DOMAIN s |-> IF Kind(s[i]) = "tuple" THEN s[i][2] ELSE <<s[i]>>])

Flattened(v) ==
    IF Kind(v) = "tuple" THEN FoldLeft(LAMBDA s, n : Opened(s), v[2], [n \in 2 .. Nesting |-> n])
    ELSE <<v>>

(* kso_hash: lists, sets and dicts have no __hash, nor tuples with one of them. *)
Hashable(v) == \A leaf \in ToSet(Flattened(v)) : Kind(leaf) \notin {"list", "set", "dict"}

(* The elements of a display that are hashed, and whether one of them cannot be *)
Hashed(kind, elems) == CASE kind = "set" -> elems [] kind = "dict" -> Keys(elems) [] OTHER -> <<>>

Refused(kind, elems) == \E v \in ToSet(Hashed(kind, elems)) : ~Hashable(v)

(* What is added before one is refused *)
Accepted(elems) == SubSeq(elems, 1, Min({i \in DOMAIN elems : ~Hashable(elems[i])}) - 1)

(* What a list, tuple or set holds after more was added *)
Extended(v, elems) ==
    <<Kind(v), IF Kind(v) = "set" THEN WithoutRepeats(v[2] \o elems) ELSE v[2] \o elems>>

Display(kind, elems) == Extended(<<kind, <<>>>>, elems)

(* is_typeinfo, for a type or a tuple of types and tuples: does it name    *)
(* the exception                                                           *)
Fits(info, e) == Kind(info) = "type" /\ info[2] \in {"Exception", e[2]}

Verdict(info, e) ==
    LET parts == Flattened(info)
        hits == {i \in DOMAIN parts : Fits(parts[i], e)}
        bad == {i \in DOMAIN parts : Kind(parts[i]) # "type"}
    IN IF \E i \in bad : \A j \in hits : i < j THEN "malformed"
       ELSE IF hits # {} THEN "caught" ELSE "passed"

(* The values an unpacking assignment to n targets gives them, in order:   *)
(* target star + 1 takes a list of what the others leave, if star >= 0.    *)
UnpackFails(elems, n, star) ==
    IF star < 0 THEN Len(elems) # n ELSE Len(elems) < n - 1

Unpacked(elems, n, star) ==
    IF star < 0 THEN elems
    ELSE LET after == star + Len(elems) - n + 1 IN
         SubSeq(elems, 1, star)
         \o << <<"list", SubSeq(elems, star + 1, after)>> >>
         \o SubSeq(elems, after + 1, Len(elems))

(* The scopes of a frame are dictionaries, innermost first. *)
Holders(envs, scope, name) == {i \in DOMAIN scope : name \in DOMAIN envs[scope[i]]}

Bind(env, name, v) ==
    [n \in DOMAIN env \cup {name} |-> IF n = name THEN v ELSE env[n]]

(* kso_call_ext: does a function take n arguments, and what its parameters *)
(* are bound to.  va is the index of the vararg parameter, or -1.          *)
Required(f) == IF f.va >= 0 THEN Len(f.pars) - 1 ELSE Len(f.pars) - Len(f.defa)

Accepts(f, n) == n >= Required(f) /\ (f.va >= 0 \/ n <= Len(f.pars))

Bound(f, args) ==
    LET given == IF f.va >= 0 THEN Unpacked(args, Len(f.pars), f.va)
                 ELSE args \o SubSeq(f.defa, Len(f.defa) - (Len(f.pars) - Len(args)) + 1,
                                     Len(f.defa))
    IN [name \in ToSet(f.pars) |->
           given[CHOOSE i \in DOMAIN f.pars : f.pars[i] = name]]

(* Bytecode: an instruction is one byte, or five with an argument.  The    *)
(* bytes of the argument stand in the sequence as ArgByte.                 *)
Size(op) ==
    IF op \in {"POPU", "DUP", "RCR", "CALLV", "SLICE", "PUSHI", "RET", "THROW", "FINALLY_END",
              "FOR_START", "BOP", "UOP", "NOT"} THEN 1 ELSE 5

ArgByte == [op |-> "ARG", arg |-> 0]

Instruction(op, arg) == <<[op |-> op, arg |-> arg]>> \o [i \in 1 .. Size(op) - 1 |-> ArgByte]
=============================================================================
