--------------------------------- MODULE Sort ---------------------------------
(***************************************************************************)
(* list.sort (src/src/types/list.c, src/src/sort.c): a merge sort that     *)
(* sorts its halves in the other of two arrays, and an insertion sort for  *)
(* what is short.  Elements move together with their keys; a list that is  *)
(* sorted without keys is its own array of keys, for which the model keeps *)
(* an equal copy.                                                          *)
(*                                                                         *)
(* A step is one comparison and the moves that follow from its answer.  A  *)
(* comparison is a call of the program: it may throw, and it need not      *)
(* follow any order.                                                       *)
(***************************************************************************)
EXTENDS Integers, Sequences, FiniteSets

CONSTANTS Cutoff,   \* 32: what is no longer is sorted by insertion
          Lists     \* the lists to sort: sequences of the ranks of their keys

ASSUME CutoffAssumption == Cutoff \in Nat \ {0}
ASSUME ListsAssumption == \A l \in Lists : l \in Seq(Nat)

VARIABLES
    rank,       \* of the keys in the list that was given
    honest,     \* whether the comparisons answer by the ranks
    elems,      \* elems and tmp_elems: places in the list that was given
    keys,       \* keys and tmp_keys: the place of the element each was for
    pc,
    todo,       \* the calls that have not returned, the next or the one
                \* that executes first
    i, j,       \* the indices of its loop; in a merge Ai and Bi
    held,       \* ei and ki
    skipped     \* a merge was skipped although A ends above where B begins

arrays == <<elems, keys>>
loop == <<i, j, held>>
vars == <<rank, honest, arrays, loop, pc, todo, skipped>>

Arrays == {"main", "tmp"}
Other(a) == IF a = "main" THEN "tmp" ELSE "main"

N == Len(rank)
Places == 0 .. N - 1
Rank(p) == rank[p + 1]

(* my_mergesort of the n elements from lo on, or its call of my_merge for  *)
(* them, in order.  The result is to be in the array named to.             *)
Sorting(lo, n, to) == [do |-> "sort", lo |-> lo, n |-> n, to |-> to]
Merging(lo, n, to) == [do |-> "merge", lo |-> lo, n |-> n, to |-> to]

Call == Head(todo)
To == Call.to
From == Other(Call.to)

Init ==
    /\ rank \in Lists
    /\ honest \in BOOLEAN
    /\ ~honest => \A p \in Places : Rank(p) = Rank(0)    \* they do not matter then
    /\ elems = [a \in Arrays |-> [p \in Places |-> p]]
    /\ keys = elems
    /\ pc = "next"
    /\ todo = <<Sorting(0, N, "main")>>
    /\ i = 0 /\ j = 0
    /\ held = [e |-> 0, k |-> 0]
    /\ skipped = FALSE

(* What my_le may answer to whether key l is at most key r. *)
Answers(l, r) == IF honest THEN {Rank(l) <= Rank(r)} ELSE BOOLEAN

Throws ==
    /\ pc \in {"insert", "check", "merge"}
    /\ pc' = "threw"
    /\ UNCHANGED <<rank, honest, arrays, loop, todo, skipped>>

Return ==
    /\ pc = "next"
    /\ todo = <<>>
    /\ pc' = "sorted"
    /\ UNCHANGED <<rank, honest, arrays, loop, todo, skipped>>

-----------------------------------------------------------------------------
(* my_mergesort *)

Calls(f) == pc = "next" /\ todo # <<>> /\ Call.do = f

Short ==
    /\ Calls("sort") /\ Call.n <= 1
    /\ todo' = Tail(todo)
    /\ UNCHANGED <<rank, honest, arrays, loop, pc, skipped>>

An == Call.n \div 2
Bn == Call.n - An

(* The halves are sorted in the other array, and merged into this one. *)
Divide ==
    /\ Calls("sort") /\ Call.n > Cutoff /\ Call.n > 1
    /\ todo' = <<Sorting(Call.lo, An, From), Sorting(Call.lo + An, Bn, From),
                 Merging(Call.lo, Call.n, To)>> \o Tail(todo)
    /\ UNCHANGED <<rank, honest, arrays, loop, pc, skipped>>

-----------------------------------------------------------------------------
(* ks_sort_insertion *)

(* Element and key e and k are written to place p of the array. *)
Put(p, e, k) ==
    /\ elems' = [elems EXCEPT ![To][p] = e]
    /\ keys' = [keys EXCEPT ![To][p] = k]

(* The loop over i goes to n, or the call returns. *)
Pick(n) ==
    IF n < Call.n
    THEN /\ pc' = "insert"
         /\ i' = n /\ j' = n - 1
         /\ held' = [e |-> elems'[To][Call.lo + n], k |-> keys'[To][Call.lo + n]]
         /\ UNCHANGED todo
    ELSE /\ pc' = "next"
         /\ todo' = Tail(todo)
         /\ i' = 0 /\ j' = 0
         /\ UNCHANGED held

BeginInsertion ==
    /\ Calls("sort") /\ 1 < Call.n /\ Call.n <= Cutoff
    /\ UNCHANGED <<rank, honest, arrays, skipped>>
    /\ Pick(1)

Place ==
    /\ pc = "insert"
    /\ j >= 0 => TRUE \in Answers(keys[To][Call.lo + j], held.k)
    /\ Put(Call.lo + j + 1, held.e, held.k)
    /\ UNCHANGED <<rank, honest, skipped>>
    /\ Pick(i + 1)

(* Mutant: j is not decreased. *)
ShiftStays ==
    /\ pc = "insert"
    /\ j >= 0
    /\ FALSE \in Answers(keys[To][Call.lo + j], held.k)
    /\ Put(Call.lo + j + 1, elems[To][Call.lo + j], keys[To][Call.lo + j])
    /\ UNCHANGED <<rank, honest, pc, todo, loop, skipped>>

Shift ==
    /\ pc = "insert"
    /\ j >= 0
    /\ FALSE \in Answers(keys[To][Call.lo + j], held.k)
    /\ Put(Call.lo + j + 1, elems[To][Call.lo + j], keys[To][Call.lo + j])
    /\ j' = j - 1
    /\ UNCHANGED <<rank, honest, pc, todo, i, held, skipped>>

-----------------------------------------------------------------------------
(* my_merge: A is the first half and B the second, both in From *)

A(p) == Call.lo + p
B(p) == Call.lo + An + p

BeginMerge ==
    /\ Calls("merge")
    /\ pc' = "check"
    /\ UNCHANGED <<rank, honest, arrays, loop, todo, skipped>>

(* The places Call stands for, copied from From to To. *)
Copied(s) ==
    [s EXCEPT ![To] = [p \in Places |->
        IF Call.lo <= p /\ p < Call.lo + Call.n THEN s[From][p] ELSE s[To][p]]]

(* Mutant: the keys are not copied. *)
SkipKeysBehind ==
    /\ pc = "check"
    /\ TRUE \in Answers(keys[From][A(An - 1)], keys[From][B(Bn - 1)])
    /\ elems' = Copied(elems)
    /\ pc' = "next"
    /\ todo' = Tail(todo)
    /\ skipped' = (skipped \/ FALSE \in Answers(keys[From][A(An - 1)], keys[From][B(0)]))
    /\ UNCHANGED <<rank, honest, keys, loop>>

(* What is compared is the last key of A with the last of B. *)
Skip ==
    /\ pc = "check"
    /\ TRUE \in Answers(keys[From][A(An - 1)], keys[From][B(Bn - 1)])
    /\ elems' = Copied(elems)
    /\ keys' = Copied(keys)
    /\ pc' = "next"
    /\ todo' = Tail(todo)
    /\ skipped' = (skipped \/ FALSE \in Answers(keys[From][A(An - 1)], keys[From][B(0)]))
    /\ UNCHANGED <<rank, honest, loop>>

Check ==
    /\ pc = "check"
    /\ FALSE \in Answers(keys[From][A(An - 1)], keys[From][B(Bn - 1)])
    /\ pc' = "merge"
    /\ UNCHANGED <<rank, honest, arrays, loop, todo, skipped>>

Take(p) == Put(Call.lo + i + j, elems[From][p], keys[From][p])

(* Mutant: of two equal keys B's comes first. *)
MergeUnstable ==
    /\ pc = "merge"
    /\ i < An /\ j < Bn
    /\ \/ /\ FALSE \in Answers(keys[From][B(j)], keys[From][A(i)])
          /\ Take(A(i)) /\ i' = i + 1 /\ j' = j
       \/ /\ TRUE \in Answers(keys[From][B(j)], keys[From][A(i)])
          /\ Take(B(j)) /\ j' = j + 1 /\ i' = i
    /\ UNCHANGED <<rank, honest, pc, todo, held, skipped>>

Merge ==
    /\ pc = "merge"
    /\ i < An /\ j < Bn
    /\ \/ /\ TRUE \in Answers(keys[From][A(i)], keys[From][B(j)])
          /\ Take(A(i)) /\ i' = i + 1 /\ j' = j
       \/ /\ FALSE \in Answers(keys[From][A(i)], keys[From][B(j)])
          /\ Take(B(j)) /\ j' = j + 1 /\ i' = i
    /\ UNCHANGED <<rank, honest, pc, todo, held, skipped>>

(* What is left of A or of B is copied behind. *)
MergeRest ==
    LET Left(s) == [s EXCEPT ![To] = [p \in Places |->
            IF p < Call.lo + i + j \/ p >= Call.lo + Call.n THEN s[To][p]
            ELSE IF i < An THEN s[From][p - j] ELSE s[From][p]]]
    IN /\ pc = "merge"
       /\ i = An \/ j = Bn
       /\ elems' = Left(elems)
       /\ keys' = Left(keys)
       /\ pc' = "next"
       /\ todo' = Tail(todo)
       /\ i' = 0 /\ j' = 0
       /\ UNCHANGED <<rank, honest, held, skipped>>

-----------------------------------------------------------------------------
Ended == pc \in {"sorted", "threw"} /\ UNCHANGED vars

Progress ==
    \/ Return \/ Short \/ Divide
    \/ BeginInsertion \/ Place \/ Shift
    \/ BeginMerge \/ Skip \/ Check \/ Merge \/ MergeRest

Next == Progress \/ Throws \/ Ended

Spec == Init /\ [][Next]_vars

(* A comparison returns, and need not throw. *)
FairSpec == Spec /\ WF_vars(Progress)

-----------------------------------------------------------------------------
Pcs == {"next", "insert", "check", "merge", "sorted", "threw"}

(* The state has its type; no index of a loop leaves its array. *)
TypeOK ==
    /\ rank \in Lists /\ honest \in BOOLEAN /\ skipped \in BOOLEAN
    /\ elems \in [Arrays -> [Places -> Places]]
    /\ keys \in [Arrays -> [Places -> Places]]
    /\ pc \in Pcs
    /\ todo \in Seq([do : {"sort", "merge"}, lo : Nat, n : Nat, to : Arrays])
    /\ \A k \in DOMAIN todo : todo[k].lo + todo[k].n <= N
    /\ pc \notin {"next", "sorted"} => todo # <<>>
    /\ i \in 0 .. N /\ j \in -1 .. N
    /\ pc = "insert" => held.e \in Places /\ held.k \in Places /\ j < i
    /\ pc = "merge" => i <= An /\ j <= Bn /\ i + j <= Call.n

Whole(s) == {s[p] : p \in Places} = Places

InInsertion == pc \in {"insert", "threw"} /\ Call.do = "sort"
InMerge == pc \in {"check", "merge", "threw"} /\ Call.do = "merge"

(* No loop leaves its array, and whatever the comparisons answer, wherever *)
(* one throws, neither array loses an element or parts it from its key,    *)
(* but for the element that the insertion sort holds (sort.c:139), which   *)
(* belongs in the free place of its array, and for the array a merge       *)
(* writes to, the other being whole.                                       *)
NothingLost ==
    /\ TypeOK
    /\ \A a \in Arrays \ {IF InMerge THEN To ELSE "none"} :
          LET Filled(s, x) == IF InInsertion /\ a = To THEN [s[a] EXCEPT ![Call.lo + j + 1] = x] ELSE s[a]
          IN /\ Whole(Filled(elems, held.e))
             /\ Filled(elems, held.e) = Filled(keys, held.k)

Before(p, q) == Rank(p) < Rank(q) \/ (Rank(p) = Rank(q) /\ p < q)

(* Once sort has returned without an exception, the comparisons having     *)
(* followed the order of the keys, the list is in that order, and elements *)
(* of equal keys in the order they had, unless a merge was skipped that    *)
(* was needed (sort.c:63).                                                 *)
SortedUnlessSkipped ==
    pc = "sorted" /\ honest /\ ~skipped =>
        \A p, q \in Places : p < q => Before(elems["main"][p], elems["main"][q])

(* sort ends whatever the comparisons answer. *)
Termination == <>(pc \in {"sorted", "threw"})
=============================================================================
