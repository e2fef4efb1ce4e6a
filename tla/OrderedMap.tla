----------------------------- MODULE OrderedMap -----------------------------
(***************************************************************************)
(* What dict promises ("Dictionaries ... are mappings between keys and     *)
(* values ... for keys which hash equally and compare equally, there is    *)
(* only one key stored.  Entries are ordered by first insertion of the     *)
(* key, which is reset upon deletion"), and set likewise, without values.  *)
(*                                                                         *)
(* The entries are numbered in the order in which iteration comes to them; *)
(* numbers of entries that were removed need not be used again.            *)
(***************************************************************************)
EXTENDS Integers

CONSTANT Class          \* objects compare equal iff they are of one class

VARIABLE contents       \* number -> [key, val]

Holds(i, k) == Class[contents[i].key] = Class[k]

Replace(k, v) ==
    \E i \in DOMAIN contents :
        /\ Holds(i, k)
        /\ contents' = [contents EXCEPT ![i].val = v]

Add(k, v) ==
    /\ \A i \in DOMAIN contents : ~Holds(i, k)
    /\ \E i \in DOMAIN contents' :
          /\ \A j \in DOMAIN contents : j < i
          /\ contents' = [j \in DOMAIN contents \cup {i} |->
                             IF j = i THEN [key |-> k, val |-> v] ELSE contents[j]]

Remove(k) ==
    \E i \in DOMAIN contents :
        /\ Holds(i, k)
        /\ contents' = [j \in DOMAIN contents \ {i} |-> contents[j]]

Clear == DOMAIN contents' = {}
=============================================================================
