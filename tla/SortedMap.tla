------------------------------- MODULE SortedMap -------------------------------
(***************************************************************************)
(* What a util.BST promises to threads that use it at the same time: a     *)
(* call takes effect at one moment, or throws and has none; and a walk     *)
(* over the keys, while they become more, goes upwards and leaves out none *)
(* that was there when it began.                                           *)
(***************************************************************************)
EXTENDS Integers

CONSTANTS Key, Val, Caller

VARIABLES
    map,        \* values of the keys that are there
    asked,      \* the call each caller is in
    answer,     \* of each caller's last call
    begun,      \* the keys when the walk began
    seen        \* the keys it has given

Idle == [op |-> "idle"]

Call(c, op, k, v) ==
    /\ asked[c] = Idle
    /\ asked' = [asked EXCEPT ![c] = [op |-> op, key |-> k, val |-> v]]
    /\ answer' = [answer EXCEPT ![c] = "none"]
    /\ UNCHANGED <<map, begun, seen>>

Answered(c, a) ==
    /\ asked' = [asked EXCEPT ![c] = Idle]
    /\ answer' = [answer EXCEPT ![c] = a]
    /\ UNCHANGED <<begun, seen>>

Set(c) ==
    /\ asked[c].op = "set"
    /\ LET k == asked[c].key
       IN map' = [x \in DOMAIN map \cup {k} |-> IF x = k THEN asked[c].val ELSE map[x]]
    /\ Answered(c, "set")

Has(c) ==
    /\ asked[c].op = "has"
    /\ Answered(c, IF asked[c].key \in DOMAIN map THEN "yes" ELSE "no")
    /\ UNCHANGED map

(* A key that is not there is never found; one that is may be missed. *)
Get(c) ==
    /\ asked[c].op = "get"
    /\ \/ asked[c].key \in DOMAIN map /\ Answered(c, map[asked[c].key])
       \/ Answered(c, "KeyError")
    /\ UNCHANGED map

Throw(c) == asked[c] # Idle /\ Answered(c, "thrown") /\ UNCHANGED map

Walk ==
    /\ begun' = DOMAIN map /\ seen' = {}
    /\ UNCHANGED <<map, asked, answer>>

Above == {k \in DOMAIN map : \A x \in seen : x < k}

Step ==
    /\ \/ /\ \E k \in Above : seen' = seen \cup {k} /\ \A x \in begun \ seen : k <= x
          /\ UNCHANGED begun
       \/ /\ begun \subseteq seen
          /\ begun' = {} /\ seen' = {}
    /\ UNCHANGED <<map, asked, answer>>

Init ==
    /\ map = <<>>
    /\ asked = [c \in Caller |-> Idle] /\ answer = [c \in Caller |-> "none"]
    /\ begun = {} /\ seen = {}

Next ==
    \/ \E c \in Caller, op \in {"set", "has", "get"}, k \in Key, v \in Val : Call(c, op, k, v)
    \/ \E c \in Caller : Set(c) \/ Has(c) \/ Get(c) \/ Throw(c)
    \/ Walk \/ Step

Spec == Init /\ [][Next]_<<map, asked, answer, begun, seen>>
=============================================================================
