------------------------------- MODULE SearchTree -------------------------------
(***************************************************************************)
(* util.BST, src/src/modules/util/bst.c.  A key is compared with others by *)
(* its methods, in bytecode: other threads run meanwhile, and it may       *)
(* throw.  Each comparison is a step, with what follows it up to the next  *)
(* one.  An item is named by its key; no item is ever removed.             *)
(***************************************************************************)
EXTENDS Integers, Sequences, SequencesExt

CONSTANTS Key, Val, Caller, NULL

VARIABLES
    root,
    items,      \* [left, right, val] of each key that is there
    call,       \* what each thread is in the middle of
    answer,     \* of its last call
    walk,       \* the iterator: [cur, stk]
    begun,      \* the keys when it began
    seen        \* the keys it has given

treeVars == <<root, items>>
walkVars == <<walk, begun, seen>>
vars == <<root, items, call, answer, walk, begun, seen>>

Idle == [op |-> "idle"]
Resting == [cur |-> NULL, stk |-> <<>>]

Init ==
    /\ root = NULL /\ items = <<>>
    /\ call = [c \in Caller |-> Idle]
    /\ answer = [c \in Caller |-> "none"]
    /\ walk = Resting /\ begun = {} /\ seen = {}

make_item(v) == [left |-> NULL, right |-> NULL, val |-> v]

Ends(c, a) ==
    /\ call' = [call EXCEPT ![c] = Idle]
    /\ answer' = [answer EXCEPT ![c] = a]

(* The item that the key is compared with next. *)
Descends(c, to) ==
    /\ call' = [call EXCEPT ![c].at = to]
    /\ UNCHANGED <<treeVars, answer>>

(* There is no item. *)
Missing(c) == Ends(c, IF call[c].op = "has" THEN "no" ELSE "KeyError") /\ UNCHANGED treeVars

(* A thread is about to call; it runs up to the first comparison at once.   *)
Calls(c, op, k, v) ==
    /\ call[c] = Idle
    /\ call' = [call EXCEPT ![c] = [op |-> op, key |-> k, val |-> v, at |-> NULL]]
    /\ answer' = [answer EXCEPT ![c] = "none"]
    /\ UNCHANGED <<treeVars, walkVars>>

Enters(c) ==
    /\ call[c] # Idle /\ call[c].at = NULL
    /\ IF root # NULL THEN Descends(c, root)
       ELSE IF call[c].op = "set"
       THEN /\ root' = call[c].key
            /\ items' = [x \in {call[c].key} |-> make_item(call[c].val)]
            /\ Ends(c, "set")
       ELSE Missing(c)
    /\ UNCHANGED walkVars

At(c, op) == call[c].op = op /\ call[c].at # NULL

(* The child on the side the key belongs to, and on the other. *)
Side(c) == IF call[c].at < call[c].key THEN "right" ELSE "left"
Wrong(c) == IF call[c].at < call[c].key THEN "left" ELSE "right"
Below(c, side) == items[call[c].at][side]

(* A lookup that goes on on a side. *)
Looks(c, side, found) ==
    /\ CASE call[c].at = call[c].key -> Ends(c, found) /\ UNCHANGED treeVars
         [] call[c].at # call[c].key /\ Below(c, side) = NULL -> Missing(c)
         [] OTHER -> Descends(c, Below(c, side))
    /\ UNCHANGED walkVars

bst_has(c) == At(c, "has") /\ Looks(c, Side(c), "yes")

(* To the other side than set and has (bst.c:67). *)
bst_get(c) == At(c, "get") /\ Looks(c, Wrong(c), items[call[c].at].val)

(* The items with a new one below another. *)
Hung(k, v, parent, side) ==
    [x \in DOMAIN items \cup {k} |->
        CASE x = k -> make_item(v)
          [] x = parent -> [items[x] EXCEPT ![side] = k]
          [] OTHER -> items[x]]

Sets(c, side) ==
    /\ LET at == call[c].at
       IN CASE at = call[c].key ->
                  /\ items' = [items EXCEPT ![at].val = call[c].val]
                  /\ Ends(c, "set")
                  /\ UNCHANGED root
            [] at # call[c].key /\ Below(c, side) = NULL ->
                  /\ items' = Hung(call[c].key, call[c].val, at, side)
                  /\ Ends(c, "set")
                  /\ UNCHANGED root
            [] OTHER -> Descends(c, Below(c, side))
    /\ UNCHANGED walkVars

(* Mutant: to the side that get goes to. *)
bst_setWrong(c) == At(c, "set") /\ Sets(c, Wrong(c))

bst_set(c) == At(c, "set") /\ Sets(c, Side(c))

Throws(c) ==
    /\ call[c] # Idle /\ call[c].at # NULL
    /\ Ends(c, "thrown")
    /\ UNCHANGED <<treeVars, walkVars>>

-----------------------------------------------------------------------------
(* The iterator.  Nothing runs in the middle of a call of it. *)
Walk ==
    /\ walk' = [cur |-> root, stk |-> <<>>]
    /\ begun' = DOMAIN items /\ seen' = {}
    /\ UNCHANGED <<treeVars, call, answer>>

RECURSIVE Leftmost(_, _)
(* The stack when cur and what is left of it is put on it. *)
Leftmost(cur, stk) ==
    IF cur = NULL THEN stk ELSE Leftmost(items[cur].left, Append(stk, cur))

TI_next ==
    /\ LET stk == Leftmost(walk.cur, walk.stk)
       IN IF stk = <<>>
          THEN walk' = Resting /\ begun' = {} /\ seen' = {}
          ELSE /\ walk' = [cur |-> items[Last(stk)].right, stk |-> Front(stk)]
               /\ seen' = seen \cup {Last(stk)}
               /\ UNCHANGED begun
    /\ UNCHANGED <<treeVars, call, answer>>

Next ==
    \/ \E c \in Caller, k \in Key, v \in Val : Calls(c, "set", k, v)
    \/ \E c \in Caller, k \in Key, v \in Val : Calls(c, "has", k, v) \/ Calls(c, "get", k, v)
    \/ \E c \in Caller : Enters(c)
    \/ \E c \in Caller : bst_has(c)
    \/ \E c \in Caller : bst_get(c)
    \/ \E c \in Caller : bst_set(c)
    \/ \E c \in Caller : Throws(c)
    \/ Walk
    \/ TI_next

Spec == Init /\ [][Next]_vars

-----------------------------------------------------------------------------
Asked(q) == IF q = Idle THEN q ELSE [op |-> q.op, key |-> q.key, val |-> q.val]

M == INSTANCE SortedMap WITH map <- [k \in DOMAIN items |-> items[k].val],
                             asked <- [c \in Caller |-> Asked(call[c])]

(* However the comparisons of several calls mix, the tree is the map that  *)
(* the finished calls make, and answers each for its key: no item is hung where another one was hung     *)
(* meanwhile, or on the wrong side, and a walk under which the tree grows  *)
(* goes upwards and misses none of the items it began with (bst.c:98-120,  *)
(* 315-359).  That a lookup may miss a key that is there is bst.c:67.      *)
ImplementsSortedMap == M!Spec
=============================================================================
