---------------------------- MODULE Certificates ----------------------------
(***************************************************************************)
(* What makes bytecode sound, however its calls, operators and iterators   *)
(* come out: that it has a certificate, which says of every location that  *)
(* is executed in what state a frame is there.                             *)
(*                                                                         *)
(*   stack   what is known of the topmost values of those the frame put on *)
(*           the stack after its last handler                              *)
(*   whole   whether these are all: a catch clause leaves its exception on *)
(*           the stack when it is done, so that below there may be others  *)
(*   tries   the handlers it has set: where each goes, and stack and whole *)
(*           as they were                                                  *)
(*   exc     whether an exception is pending: "none", "some" or "maybe"    *)
(*   star    <<assv>> behind the instruction that sets it, else <<>>       *)
(*                                                                         *)
(* Of a value its kind is known, or nothing ("any"); "list+" is a list     *)
(* that is not empty.                                                      *)
(***************************************************************************)
EXTENDS Vm

CONSTANTS Plan,     \* program name -> location -> state
          Locals,   \* the names something assigns, parameters among them
          Base      \* the values in programs, the globals' and those of results

Suits(wanted, known) ==
    wanted = "any" \/ wanted = known \/ (wanted = "list" /\ known = "list+")

(* What is known as s is known as t as well. *)
Covers(t, s) ==
    LET more == Len(s.stack) - Len(t.stack)
    IN /\ IF t.whole THEN s.whole /\ more = 0 ELSE more >= 0
       /\ \A j \in DOMAIN t.stack : Suits(t.stack[j], s.stack[more + j])

(* A frame in state s is in state t as well. *)
Agrees(t, s) ==
    /\ Covers(t, s)
    /\ Len(t.tries) = Len(s.tries)
    /\ \A k \in DOMAIN t.tries : t.tries[k].to = s.tries[k].to /\ Covers(t.tries[k], s.tries[k])
    /\ t.exc = "maybe" \/ t.exc = s.exc
    /\ t.star = <<>> \/ t.star = s.star

Entry == [stack |-> <<>>, whole |-> TRUE, tries |-> <<>>, exc |-> "none", star |-> <<>>]

(* The n-th value from the top, the first being 0; the n topmost; the rest *)
Peek(s, n) == s.stack[Len(s.stack) - n]
Tops(s, n) == SubSeq(s.stack, Len(s.stack) - n + 1, Len(s.stack))
Below(s, n) == SubSeq(s.stack, 1, Len(s.stack) - n)

Takes(i) ==
    CASE i.op \in {"DUP", "DUPI", "DUPN", "STORE", "ASSM"} -> 0
      [] i.op = "FUNC_DEFA" -> i.arg
      [] OTHER -> Reads(i)

Puts(s, i) ==
    CASE i.op = "PUSH" -> <<Kind(i.arg)>>
      [] i.op = "LOAD" -> <<IF i.arg \in DOMAIN Globals \ Locals THEN Kind(Globals[i.arg]) ELSE "any">>
      [] i.op = "DUP" -> <<Peek(s, 0)>>
      [] i.op = "DUPI" -> <<Peek(s, -i.arg - 1)>>
      [] i.op = "DUPN" -> Tops(s, i.arg)
      [] i.op = "RCR" -> <<Peek(s, 0), Peek(s, 1), Peek(s, 0)>>
      [] i.op = "ASSM" -> [j \in 1 .. i.arg |-> "any"]
      [] i.op = "DISPLAY" ->
            <<IF i.arg[1] = "list" /\ i.arg[2] > 0 THEN "list+" ELSE i.arg[1]>>
      [] i.op = "PUSHN" -> <<Peek(s, i.arg[2])>>
      [] i.op = "PUSHI" -> <<Peek(s, 1)>>
      [] i.op = "FUNC" -> <<"func">>
      [] i.op \in {"GETATTR", "SETATTR", "GETELEMS", "SETELEMS", "BOP", "UOP", "NOT", "SLICE",
                   "CALL", "CALLV", "TYPE", "IMPORT", "FOR_START"} -> <<"any">>
      [] OTHER -> <<>>

MayFail(event) ==
    \E p \in Programs : \E out \in Results(p)[event].free \cup {Results(p)[event].calm} : out.thrown

Pending(s, i) ==
    CASE i.op \in {"GETATTR", "SETATTR"} /\ s.exc = "some" -> "maybe"
      [] i.op = "IMPORT" /\ Len(i.arg) > 1 /\ MayFail("import") /\ s.exc = "none" -> "maybe"
      [] i.op = "FINALLY_END" -> "none"
      [] OTHER -> s.exc

(* The state behind an instruction that leaves this on the stack *)
Holding(s, stack, pending) ==
    [s EXCEPT !.stack = stack, !.exc = pending, !.star = <<>>]

(* ... that does what most do *)
Moved(s, i) ==
    [Holding(s, Below(s, Takes(i)) \o Puts(s, i), Pending(s, i))
        EXCEPT !.star = IF i.op = "ASSV" THEN <<i.arg>> ELSE <<>>]

Tried(s, to) ==
    [s EXCEPT !.stack = <<>>, !.whole = TRUE, !.star = <<>>,
              !.tries = Append(@, [to |-> to, stack |-> s.stack, whole |-> s.whole])]

(* The last handler goes, and what was put on the stack since stays. *)
Joined(s) ==
    LET last == Last(s.tries)
    IN [s EXCEPT !.stack = IF s.whole THEN last.stack \o @ ELSE @, !.whole = @ /\ last.whole,
                 !.star = <<>>, !.tries = Front(@)]

(* The last handler is used. *)
Caught(s) ==
    [stack |-> Last(s.tries).stack, whole |-> Last(s.tries).whole, tries |-> Front(s.tries),
     exc |-> "some", star |-> <<>>]

(* Where the instruction i, behind which on is, leads from state s *)
Flows(i, on, s) ==
    CASE i.op \in {"RET", "THROW"} -> {}
      [] i.op = "JMP" -> {<<on + i.arg, Moved(s, i)>>}
      [] i.op \in {"JMPT", "JMPF"} -> {<<on, Moved(s, i)>>, <<on + i.arg, Moved(s, i)>>}
      [] i.op = "FOR_NEXTT" -> {<<on + i.arg, Holding(s, Append(s.stack, "any"), s.exc)>>,
                                <<on, Holding(s, Below(s, 1), "none")>>}
      [] i.op = "FOR_NEXTF" -> {<<on, Holding(s, Append(s.stack, "any"), s.exc)>>,
                                <<on + i.arg, Holding(s, Below(s, 1), "none")>>}
      [] i.op = "TRY_START" -> {<<on, Tried(s, on + i.arg)>>}
      [] i.op = "TRY_END" -> {<<on + i.arg, Joined(s)>>}
      [] i.op = "TRY_CATCH" -> {<<on, Holding(s, Append(Below(s, 1), "any"), "none")>>,
                                <<on + i.arg, Holding(s, Below(s, 1), s.exc)>>}
      [] i.op = "TRY_CATCH_ALL" -> {<<on + i.arg, Holding(s, Append(s.stack, "any"), "none")>>}
      [] OTHER -> {<<on, Moved(s, i)>>}

AllFlows(i, on, s) ==
    Flows(i, on, s) \cup IF s.tries = <<>> THEN {} ELSE {<<Last(s.tries).to, Caught(s)>>}

Ops == {"PUSH", "POPU", "DUP", "DUPI", "DUPN", "RCR", "LOAD", "STORE", "ASSV", "ASSM", "GETATTR",
        "SETATTR", "GETELEMS", "SETELEMS", "BOP", "UOP", "NOT", "SLICE", "DISPLAY", "PUSHN",
        "PUSHI", "CALL", "CALLV", "FUNC", "FUNC_DEFA", "TYPE", "IMPORT", "JMP", "JMPT", "JMPF",
        "RET", "THROW", "ASSERT", "FOR_START", "FOR_NEXTT", "FOR_NEXTF", "TRY_START", "TRY_END",
        "TRY_CATCH", "TRY_CATCH_ALL", "FINALLY_END"}

(* What an instruction must be *)
WellFormed(i) ==
    /\ i.op \in Ops
    /\ CASE i.op = "PUSH" -> i.arg \in Base
         [] i.op = "STORE" -> i.arg \in Locals
         [] i.op = "DUPI" -> i.arg \in Int /\ i.arg < 0
         [] i.op \in {"SETELEMS", "CALL"} -> i.arg > 0
         [] i.op \in {"ASSM", "FUNC_DEFA"} -> i.arg \in Nat
         [] i.op = "DISPLAY" -> i.arg[1] \in {"list", "tuple", "set", "dict"}
         [] i.op = "PUSHN" -> i.arg[1] \in {"list", "tuple"} /\ i.arg[2] \in Nat
         [] i.op = "PUSHI" -> i.arg[1] \in {"list", "tuple", "set"}
         [] i.op = "FUNC" -> i.arg.pars \in Seq(Locals) /\ i.arg.va \in -1 .. Len(i.arg.pars) - 1
         [] OTHER -> TRUE

(* What an instruction must find.  A function that is called while an      *)
(* exception is pending would return with it pending.                      *)
Ready(s, i) ==
    /\ Reads(i) \in 0 .. Len(s.stack)
    /\ CASE i.op = "ASSM" -> \E k \in -1 .. i.arg - 1 : s.star = <<k>>
         [] i.op = "PUSHN" -> Suits(i.arg[1], Peek(s, i.arg[2]))
         [] i.op = "PUSHI" -> Suits(i.arg[1], Peek(s, 1))
         [] i.op = "CALL" -> s.exc = "none" \/ Peek(s, i.arg - 1) = "cfunc"
         [] i.op = "CALLV" -> Peek(s, 0) = "list+" /\ s.exc = "none"
         [] i.op = "FUNC" -> Peek(s, 0) = "code"
         [] i.op = "FUNC_DEFA" -> Peek(s, i.arg) = "func"
         [] i.op = "TYPE" -> Tops(s, 2) = <<"code", "type">> /\ s.exc = "none"
         [] i.op = "TRY_END" -> s.tries # <<>>
         [] i.op \in {"TRY_CATCH", "TRY_CATCH_ALL"} -> s.exc = "some"
         [] i.op = "RET" -> s.tries = <<>> /\ s.exc = "none"
         [] OTHER -> TRUE

(* The parts of values are values, and a code object is one of the programs. *)
Closed(U, functions) ==
    \A v \in U :
        /\ Kind(v) \in Kinds
        /\ Iterable(v) => Elements(v) \in Seq(U)
        /\ Kind(v) = "code" => v[2] \in DOMAIN Code
        /\ Kind(v) = "func" => v[2] \in functions

Shapes == Kinds \cup {"any", "list+"}

States == [stack : Seq(Shapes), whole : BOOLEAN, exc : {"none", "some", "maybe"}, star : Seq(Int),
           tries : Seq([to : Nat, stack : Seq(Shapes), whole : BOOLEAN])]

Certifies(p) ==
    /\ DOMAIN Plan[p] \subseteq DOMAIN Code[p] \cap Nat
    /\ 1 \in DOMAIN Plan[p] /\ Agrees(Plan[p][1], Entry)
    /\ \A l \in DOMAIN Plan[p] :
          /\ Plan[p][l] \in States
          /\ WellFormed(Code[p][l]) /\ Ready(Plan[p][l], Code[p][l])
          /\ \A flow \in AllFlows(Code[p][l], l + Size(Code[p][l].op), Plan[p][l]) :
                flow[1] \in DOMAIN Plan[p] /\ Agrees(Plan[p][flow[1]], flow[2])

Events == {"getattr", "setattr", "getelems", "setelems", "import", "op", "next", "call"}

ASSUME CertificateAssumption ==
    /\ Programs \subseteq DOMAIN Code
    /\ \A p \in DOMAIN Code : Certifies(p)
    /\ Closed(Base, {})
    /\ \A n \in DOMAIN Globals : Globals[n] \in Base
    /\ \A p \in Programs, e \in Events :
          \A out \in Results(p)[e].free \cup {Results(p)[e].calm} :
              out.val \in Base /\ (out.thrown => out.val # Null)
=============================================================================
