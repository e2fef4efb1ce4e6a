--------------------------------- MODULE Queue --------------------------------
(***************************************************************************)
(* util.Queue, src/src/modules/util/queue.c: items that are linked both    *)
(* ways, and iterators that point to one.  Popping frees the item.  A call *)
(* keeps the GIL, so each is one step; any number of iterators may be at   *)
(* work between the calls.                                                 *)
(***************************************************************************)
EXTENDS Integers, Sequences, SequencesExt, Functions

CONSTANTS Value,
          Iter,
          Cell,     \* the memory of an item
          NULL,
          MaxPop    \* pop(num) up to this number

VARIABLES
    list,       \* [first, last, items], of ks_queue
    cur,        \* of each iterator
    passed,     \* the iterators whose item has been freed since they came to it
    given       \* by the last call

vars == <<list, cur, passed, given>>

Live(l) == DOMAIN l.items

make_item(v) == [val |-> v, next |-> NULL, prev |-> NULL]

(* ks_queue_push, with an item of new memory *)
Pushed(l, c, v) ==
    IF l.first = NULL
    THEN [first |-> c, last |-> c, items |-> [x \in {c} |-> make_item(v)]]
    ELSE [first |-> l.first, last |-> c,
          items |-> [x \in Live(l) \cup {c} |->
              CASE x = c -> [make_item(v) EXCEPT !.prev = l.last]
                [] x = l.last -> [l.items[x] EXCEPT !.next = c]
                [] OTHER -> l.items[x]]]

(* Mutant: the new first item still has one before it. *)
PoppedLinked(l) ==
    [l EXCEPT !.first = l.items[l.first].next,
              !.items = [x \in Live(l) \ {l.first} |-> l.items[x]]]

(* ks_queue_pop, of a queue that is not empty; last is not reset. *)
Popped(l) ==
    LET first == l.items[l.first].next
    IN [l EXCEPT !.first = first,
                 !.items = [x \in Live(l) \ {l.first} |->
                     IF x = first THEN [l.items[x] EXCEPT !.prev = NULL] ELSE l.items[x]]]

Init ==
    /\ list = [first |-> NULL, last |-> NULL, items |-> <<>>]
    /\ cur = [i \in Iter |-> NULL]
    /\ passed = {}
    /\ given = <<>>

Push(vals) ==
    /\ \E cs \in [DOMAIN vals -> Cell \ Live(list)] :
          /\ IsInjective(cs)
          /\ list' = FoldLeft(LAMBDA l, j : Pushed(l, cs[j], vals[j]), list, [j \in DOMAIN vals |-> j])
    /\ given' = <<>>
    /\ UNCHANGED <<cur, passed>>

(* The list becomes l; the iterators at what it has lost are spoilt. *)
Becomes(l) ==
    /\ list' = l
    /\ passed' = passed \cup {i \in Iter : cur[i] \in Live(list) \ Live(l)}
    /\ UNCHANGED cur

Pop ==
    IF list.first = NULL
    THEN given' = <<"SizeError">> /\ UNCHANGED <<list, cur, passed>>
    ELSE given' = <<list.items[list.first].val>> /\ Becomes(Popped(list))

(* What n pops give and leave; there is no going back when one fails. *)
RECURSIVE Pops(_, _, _)
Pops(l, n, got) ==
    CASE n = 0 -> [list |-> l, given |-> got]
      [] n > 0 /\ l.first = NULL -> [list |-> l, given |-> <<"SizeError">>]
      [] OTHER -> Pops(Popped(l), n - 1, Append(got, l.items[l.first].val))

PopSome(n) ==
    LET r == Pops(list, n, <<>>)
    IN given' = r.given /\ Becomes(r.list)

Begin(i) ==
    /\ cur' = [cur EXCEPT ![i] = list.first]
    /\ passed' = passed \ {i}
    /\ given' = <<>>
    /\ UNCHANGED list

(* __next and __prev, which differ in the link they follow.  Memory that   *)
(* was freed may hold another item by now, or anything.                    *)
Give(i, link) ==
    /\ CASE cur[i] = NULL -> given' = <<"end">> /\ UNCHANGED cur
         [] cur[i] \in Live(list) ->
               /\ given' = <<list.items[cur[i]].val>>
               /\ cur' = [cur EXCEPT ![i] = list.items[cur[i]][link]]
         [] OTHER ->
               /\ given' \in {<<v>> : v \in Value}
               /\ cur' \in {[cur EXCEPT ![i] = c] : c \in Cell \cup {NULL}}
    /\ UNCHANGED <<list, passed>>

Forth(i) == Give(i, "next")
Back(i) == Give(i, "prev")

Next ==
    \/ \E vals \in UNION {[1 .. n -> Value] : n \in 0 .. 2} : Push(vals)
    \/ Pop
    \/ \E n \in 0 .. MaxPop : PopSome(n)
    \/ \E i \in Iter : Begin(i)
    \/ \E i \in Iter : Forth(i)
    \/ \E i \in Iter : Back(i)

Spec == Init /\ [][Next]_vars

-----------------------------------------------------------------------------
RECURSIVE Chain(_)
(* The items from c on. *)
Chain(c) == IF c = NULL THEN <<>> ELSE <<c>> \o Chain(list.items[c].next)

Items == Chain(list.first)

(* Where an iterator is: at an item, at the end (0), or lost (-1). *)
Place(i) ==
    CASE i \in passed \/ cur[i] \notin ToSet(Items) \cup {NULL} -> -1
      [] i \notin passed /\ cur[i] = NULL -> 0
      [] OTHER -> CHOOSE n \in DOMAIN Items : Items[n] = cur[i]

F == INSTANCE Fifo WITH
    queue <- [n \in DOMAIN Items |-> list.items[Items[n]].val],
    pos <- [i \in Iter |-> Place(i)]

(* The linked items are a queue: what is popped, from queues of every      *)
(* length and after every sequence of calls, is what was pushed first, and *)
(* an iterator goes along the queue, either way, however the queue changes *)
(* under it (queue.c:37-66, 218-259), until its item is popped.            *)
ImplementsFifo == F!Spec
=============================================================================
