------------------------------ MODULE HashTable ------------------------------
(***************************************************************************)
(* dict and set (src/src/types/dict.c, set.c, which differ only in what    *)
(* clear resets and in that a set has no values): an array of entries in   *)
(* the order of insertion, and buckets that hold indices of entries, with  *)
(* open addressing and linear probing.                                     *)
(*                                                                         *)
(* A step is a search with what is done on its result, or the rehash of    *)
(* one entry.  Comparing two keys may throw (kso_eq calls the program's    *)
(* __eq) if they hash equally and are not the same object; it does not     *)
(* change the table.  The buckets are of one byte while there are fewer    *)
(* than Narrow entries and of two from there on; reading them otherwise    *)
(* than they were written is undefined.                                    *)
(***************************************************************************)
EXTENDS Buckets, Sequences, FiniteSets

CONSTANTS Object,       \* the objects used as keys
          Val,
          NULL,
          Hash,         \* kso_hash of an object
          Class,        \* objects compare equal iff they are of one class
          Narrow,       \* KS_SINT8_MAX
          MaxEnts,      \* bounds on the entries made
          MaxDeleted    \* and on the buckets marked deleted at a time

ASSUME HashAssumption ==
    /\ Hash \in [Object -> Nat]
    /\ \A k, l \in Object : Class[k] = Class[l] => Hash[k] = Hash[l]
ASSUME NULLAssumption == NULL \notin Val
ASSUME BoundAssumption == MaxEnts \in Nat

(* No fewer entries than n come with as many buckets. *)
Crosses(n) == \A l \in 0 .. n - 1 : Wanted(l) < Wanted(n)

(* So the buckets grow when their width changes: Narrow may be 3 or 127.   *)
ASSUME NarrowAssumption == Narrow \in Nat \ {0} /\ Crosses(Narrow)

EMPTY == -1
DELETED == -2

VARIABLES
    kind,       \* "dict" or "set"
    ents,       \* [key, val], the hash being Hash[key]
    nb,         \* len_buckets
    bks,        \* the buckets, from 0
    width,      \* of the buckets when they were last written from the start
    len_real,
    phase,      \* what the current call is about to do
    op,         \* the key and value being set
    at,         \* the entry being rehashed, from 0
    flaw        \* what has happened that no map recovers from

table == <<kind, ents, nb, bks, width, len_real>>
vars == <<table, phase, op, at, flaw>>

Phases == {"idle", "rehash", "search", "refind", "aborted"}

Init ==
    /\ kind \in {"dict", "set"}
    /\ ents = <<>>
    /\ nb = 0
    /\ bks = [b \in {} |-> EMPTY]
    /\ width = 1
    /\ len_real = 0
    /\ phase = "idle"
    /\ op = NULL
    /\ at = 0
    /\ flaw = "none"

-----------------------------------------------------------------------------
(* s_search *)

Key(e) == ents[e + 1].key

Pos(k, d) == (Hash[k] + d) % nb

Matches(e, k) == e >= 0 /\ Class[Key(e)] = Class[k]

(* The search for k ends at the d-th bucket it comes to, counted from 0.   *)
Stops(k, d) == LET e == bks[Pos(k, d)] IN e = EMPTY \/ Matches(e, k)

(* How many buckets a search for k passes over; nb if it comes to no end.  *)
Passed(k) ==
    LET stops == {d \in 0 .. nb - 1 : Stops(k, d)}
    IN IF stops = {} THEN nb ELSE CHOOSE d \in stops : \A c \in stops : d <= c

(* rb and re, what a search sets *)
Bucket(k) == LET d == Passed(k) IN IF d = nb THEN -1 ELSE Pos(k, d)
Found(k) ==
    LET rb == Bucket(k) IN IF rb = -1 \/ bks[rb] = EMPTY THEN -1 ELSE bks[rb]

(* A comparison on the way calls __eq. *)
Compares(k) ==
    LET last == Passed(k)
    IN \E d \in 0 .. nb - 1 :
          LET e == bks[Pos(k, d)]
          IN d <= last /\ e >= 0 /\ Hash[Key(e)] = Hash[k] /\ Key(e) # k

-----------------------------------------------------------------------------
(* s_resize *)

WidthOf(n) == IF n < Narrow THEN 1 ELSE 2

Grows(n) == Grown(n, nb) > nb

(* Mutant: the buckets that were there before are not emptied. *)
RebuildUncleared(n) ==
    /\ nb' = Grown(n, nb)
    /\ bks' = [b \in 0 .. Grown(n, nb) - 1 |-> IF b < nb THEN bks[b] ELSE EMPTY]
    /\ width' = WidthOf(n)
    /\ at' = 0
    /\ phase' = "rehash"

(* The buckets are made for the entries ents', then each is put in one.    *)
Rebuild(n) ==
    /\ nb' = Grown(n, nb)
    /\ bks' = [b \in 0 .. Grown(n, nb) - 1 |-> EMPTY]
    /\ width' = WidthOf(n)
    /\ at' = 0
    /\ phase' = "rehash"

Resting == phase' = "idle" /\ op' = NULL /\ UNCHANGED at

Aborts == phase' = "aborted" /\ UNCHANGED <<table, op, at, flaw>>

(* Deleted entries are not left out. *)
Rehash ==
    LET k == Key(at)
    IN /\ phase = "rehash"
       /\ at < Len(ents)
       /\ IF Found(k) >= 0 \/ Bucket(k) < 0 THEN Aborts
          ELSE /\ bks' = [bks EXCEPT ![Bucket(k)] = at]
               /\ at' = at + 1
               /\ UNCHANGED <<kind, ents, nb, width, len_real, phase, op, flaw>>

RehashThrows ==
    /\ phase = "rehash"
    /\ at < Len(ents)
    /\ Compares(Key(at))
    /\ Resting
    /\ flaw' = "unhashed"
    /\ UNCHANGED table

(* assert(self->len_real == ct), and back to the call *)
RehashEnds ==
    /\ phase = "rehash"
    /\ at = Len(ents)
    /\ IF len_real # Len(ents) THEN Aborts
       ELSE /\ phase' = IF op.added THEN "refind" ELSE "search"
            /\ UNCHANGED <<table, op, at, flaw>>

Deleted == {b \in DOMAIN bks : bks[b] = DELETED}

(* To rebuild brings the entries back whose deletion only a bucket tells.  *)
Rebuilding(n) ==
    /\ Rebuild(n)
    /\ flaw' = IF flaw = "none" /\ Deleted # {} THEN "revived" ELSE flaw

-----------------------------------------------------------------------------
(* ks_dict_set_h, ks_set_add_h *)

SetCall(k, v) ==
    /\ phase = "idle"
    /\ Found(k) >= 0 \/ Len(ents) < MaxEnts
    /\ op' = [key |-> k, val |-> v, added |-> FALSE]
    /\ IF TooFull(Len(ents), nb) /\ Grows(Len(ents))
       THEN Rebuilding(Len(ents)) /\ UNCHANGED <<kind, ents, len_real>>
       ELSE phase' = "search" /\ UNCHANGED <<table, at, flaw>>

SearchThrows ==
    /\ phase \in {"search", "refind"}
    /\ Compares(op.key)
    /\ Resting
    /\ UNCHANGED <<table, flaw>>

(* The key that is there stays, also if the new one is another object. *)
SetFound ==
    /\ phase = "search"
    /\ Found(op.key) >= 0
    /\ ents' = IF kind = "set" THEN ents
               ELSE [ents EXCEPT ![Found(op.key) + 1].val = op.val]
    /\ Resting
    /\ UNCHANGED <<kind, nb, bks, width, len_real, flaw>>

(* Mutant: the buckets are as wide as they were. *)
WidensNever(n) == FALSE

(* The length has reached one from which on wider buckets are read. *)
Widens(n) == n = Narrow

SetAdd ==
    LET n == Len(ents) + 1
        rb == Bucket(op.key)
    IN /\ phase = "search"
       /\ Found(op.key) < 0
       /\ ents' = Append(ents, [key |-> op.key, val |-> op.val])
       /\ len_real' = len_real + 1
       /\ IF rb < 0 \/ Widens(n)
          THEN /\ op' = [op EXCEPT !.added = TRUE]
               /\ IF Grows(n) THEN Rebuilding(n)
                  ELSE phase' = "refind" /\ UNCHANGED <<nb, bks, width, at, flaw>>
               /\ UNCHANGED kind
          ELSE /\ bks' = [bks EXCEPT ![rb] = n - 1]
               /\ Resting
               /\ UNCHANGED <<kind, nb, width, flaw>>

(* assert(rb >= 0 && re == new_re) *)
Refind ==
    /\ phase = "refind"
    /\ IF Found(op.key) # Len(ents) - 1 THEN Aborts
       ELSE /\ bks' = [bks EXCEPT ![Bucket(op.key)] = Len(ents) - 1]
            /\ Resting
            /\ UNCHANGED <<kind, ents, nb, width, len_real, flaw>>

-----------------------------------------------------------------------------
(* ks_dict_del_h, ks_set_del_h; a comparison that throws changes nothing *)

(* Mutant: the bucket is free again. *)
DelEmpties(k) ==
    /\ phase = "idle"
    /\ Cardinality(Deleted) < MaxDeleted
    /\ Found(k) >= 0
    /\ bks' = [bks EXCEPT ![Bucket(k)] = EMPTY]
    /\ UNCHANGED <<kind, ents, nb, width, len_real, phase, op, at, flaw>>

Del(k) ==
    /\ phase = "idle"
    /\ Cardinality(Deleted) < MaxDeleted
    /\ Found(k) >= 0
    /\ bks' = [bks EXCEPT ![Bucket(k)] = DELETED]
    /\ UNCHANGED <<kind, ents, nb, width, len_real, phase, op, at, flaw>>

(* ks_dict_clear, which leaves len_real, and ks_set_clear *)
Clear ==
    /\ phase = "idle"
    /\ ents' = <<>>
    /\ nb' = 0
    /\ bks' = [b \in {} |-> EMPTY]
    /\ len_real' = IF kind = "set" THEN 0 ELSE len_real
    /\ flaw' = IF flaw # "none" /\ kind = "dict" THEN flaw
               ELSE IF len_real' = 0 THEN "none" ELSE "miscounted"
    /\ UNCHANGED <<kind, width, phase, op, at>>

Done == phase = "aborted" /\ UNCHANGED vars

Next ==
    \/ \E k \in Object, v \in Val :
          SetCall(k, IF kind = "set" THEN NULL ELSE v)
    \/ SearchThrows \/ SetFound \/ SetAdd \/ Refind
    \/ Rehash \/ RehashThrows \/ RehashEnds
    \/ \E k \in Object : Del(k)
    \/ Clear
    \/ Done

Spec == Init /\ [][Next]_vars

-----------------------------------------------------------------------------
TypeOK ==
    /\ kind \in {"dict", "set"}
    /\ \A i \in 1 .. Len(ents) :
          ents[i] \in [key : Object, val : Val \cup {NULL}]
    /\ nb \in Nat
    /\ bks \in [0 .. nb - 1 -> DELETED .. Len(ents) - 1]
    /\ width \in {1, 2}
    /\ len_real \in Nat
    /\ phase \in Phases
    /\ phase \in {"rehash", "search", "refind"}
          => op \in [key : Object, val : Val \cup {NULL}, added : BOOLEAN]
    /\ at \in 0 .. MaxEnts
    /\ flaw \in {"none", "unhashed", "revived", "miscounted"}

(* What a lookup of a key finds, or would find once the buckets are there. *)
Live(e) == phase \in {"rehash", "refind"} \/ Found(Key(e)) = e
Contents == [i \in {j \in 1 .. Len(ents) : Live(j - 1)} |-> ents[i]]

Map == INSTANCE OrderedMap WITH contents <- Contents

(* A step of a call in progress sets the key, a step between calls removes *)
(* one or all, or nothing changes.                                         *)
MapStep ==
    \/ flaw' # "none"
    \/ UNCHANGED Contents
    \/ /\ phase = "idle"
       /\ Map!Clear \/ \E k \in Object : Map!Remove(k)
    \/ /\ phase # "idle"
       /\ Map!Replace(op.key, op.val) \/ Map!Add(op.key, op.val)

(* Through collisions, growth and changes of the buckets' width, a set     *)
(* replaces the value of the one entry whose key compares equal or, if     *)
(* there is none, adds an entry after the others; a deletion removes the   *)
(* entry of its key, clear all of them, and nothing else becomes visible   *)
(* or is lost.  After a comparison that threw during a rehash, or a        *)
(* deletion followed by a rehash, none of this holds.                      *)
ImplementsMap == [][MapStep]_vars

(* Everything has its type, above all the buckets, which name entries that *)
(* are there; and the buckets are read in the width they were written in   *)
(* (S_T_SIZE picks it from the number of entries, at each use).            *)
WidthAgrees ==
    /\ TypeOK
    /\ phase # "aborted" /\ nb > 0 => width = WidthOf(Len(ents))

(* None of the assertions of s_resize and set fails, except after a        *)
(* comparison that threw during a rehash, a rehash after a deletion or a   *)
(* clear that left len_real.                                               *)
AbortsOnlySpoilt == phase = "aborted" => flaw # "none"
=============================================================================
