--------------------------- MODULE HashTableProofs ---------------------------
(***************************************************************************)
(* Proofs about dict and set, for any keys, any hashes and classes of      *)
(* equal keys, any number of entries and deletions, and any width-changing *)
(* length at which the buckets grow.                                       *)
(***************************************************************************)
EXTENDS HashTable, FiniteSetTheorems, NaturalsInduction, TLAPS

-----------------------------------------------------------------------------
(* Numbers *)

LEMMA Least ==
  ASSUME NEW S \in SUBSET Nat, S # {}
  PROVE  \E d \in S : \A c \in S : d <= c
<1>1. IsWellFoundedOn(OpToRel(<, Nat), Nat)
  BY NatLessThanWellFounded
<1>2. PICK d \in S : \A c \in S : ~(<<c, d>> \in OpToRel(<, Nat))
  BY <1>1, WFMin
<1>3. OpToRel(<, Nat) = {p \in Nat \X Nat : p[1] < p[2]}
  BY DEF OpToRel
<1>4. \A c \in S : ~(c < d)
  BY <1>2, <1>3
<1> QED
  BY <1>4

LEMMA Multiple ==
  ASSUME NEW m \in Nat, NEW a \in Int, NEW b \in Int, a < b
  PROVE  a * m + m <= b * m
<1>1. b - a - 1 \in Nat /\ b = a + 1 + (b - a - 1)
  OBVIOUS
<1>2. ASSUME NEW c \in Nat
      PROVE  a * m + m <= (a + 1 + c) * m
  <2>1. (a + 1 + c) * m = a * m + m + c * m
    OBVIOUS
  <2>2. c * m >= 0
    OBVIOUS
  <2>3. a * m \in Int /\ c * m \in Int /\ (a + 1 + c) * m \in Int
    OBVIOUS
  <2> QED
    BY <2>1, <2>2, <2>3
<1> QED
  BY <1>1, <1>2

LEMMA Remainder ==
  ASSUME NEW m \in Nat \ {0}, NEW q \in Int, NEW r \in 0 .. m - 1, NEW x \in Nat, x = q * m + r
  PROVE  x % m = r
<1> DEFINE p == x \div m
           s == x % m
<1>1. p \in Int /\ s \in 0 .. m - 1 /\ x = p * m + s
  OBVIOUS
<1> HIDE DEF p, s
<1>2. p * m \in Int /\ q * m \in Int
  BY <1>1
<1>3. ~(p < q)
  <2>1. p < q => p * m + m <= q * m
    BY <1>1, Multiple
  <2> QED
    BY <1>1, <1>2, <2>1
<1>4. ~(q < p)
  <2>1. q < p => q * m + m <= p * m
    BY <1>1, Multiple
  <2> QED
    BY <1>1, <1>2, <2>1
<1>5. p = q
  BY <1>1, <1>3, <1>4
<1>6. s = r
  BY <1>1, <1>2, <1>5
<1> QED
  BY <1>6 DEF s

LEMMA Covers ==
  ASSUME NEW m \in Nat \ {0}, NEW h \in Nat, NEW b \in 0 .. m - 1
  PROVE  \E d \in 0 .. m - 1 : (h + d) % m = b
<1> DEFINE q == h \div m
           r == h % m
<1>1. h = q * m + r /\ r \in 0 .. m - 1 /\ q \in Int
  OBVIOUS
<1> HIDE DEF q, r
<1>2. q * m \in Int
  BY <1>1
<1>3. CASE r <= b
  <2>1. h + (b - r) = q * m + b /\ h + (b - r) \in Nat
    BY <1>1, <1>2, <1>3
  <2>2. (h + (b - r)) % m = b
    BY <1>1, <2>1, Remainder
  <2>3. b - r \in 0 .. m - 1
    BY <1>1, <1>3
  <2> QED
    BY <2>2, <2>3
<1>4. CASE b < r
  <2> DEFINE d == b - r + m
             q1 == q + 1
             x == h + d
  <2>1. q1 * m = q * m + m
    BY <1>1
  <2>2. x = q1 * m + b /\ x \in Nat /\ q1 \in Int /\ d \in 0 .. m - 1
    BY <1>1, <1>2, <1>4, <2>1
  <2> HIDE DEF x, q1
  <2>3. x % m = b
    BY <2>2, Remainder
  <2> QED
    BY <2>2, <2>3 DEF x
<1> QED
  BY <1>1, <1>3, <1>4

LEMMA NextPrimeLater ==
  ASSUME NEW x \in Nat
  PROVE  NextPrime(x) \in Nat /\ x < NextPrime(x)
<1> DEFINE S == {n \in x + 1 .. 2 * x : \A m \in x + 1 .. n : ~IsPrime(m)}
<1>1. IsFiniteSet(x + 1 .. 2 * x) /\ S \subseteq x + 1 .. 2 * x
  BY FS_Interval
<1>2. IsFiniteSet(S)
  BY <1>1, FS_Subset
<1>3. Cardinality(S) \in Nat
  BY <1>2, FS_CardinalityType
<1>4. NextPrime(x) = IF x < 2 THEN 2 ELSE x + 1 + Cardinality(S)
  BY DEF NextPrime
<1> HIDE DEF S
<1> QED
  BY <1>3, <1>4

LEMMA WantedMore ==
  ASSUME NEW n \in Nat
  PROVE  Wanted(n) \in Nat /\ n < Wanted(n)
<1>1. (10 * n) \div 3 \in Nat /\ n <= (10 * n) \div 3
  OBVIOUS
<1> QED
  BY <1>1, NextPrimeLater DEF Wanted

-----------------------------------------------------------------------------
(* The invariant *)

Entry == [key : Object, val : Val \cup {NULL}]

Types ==
    /\ kind \in {"dict", "set"}
    /\ ents \in Seq(Entry)
    /\ nb \in Nat
    /\ bks \in [0 .. nb - 1 -> DELETED .. Len(ents) - 1]
    /\ width \in {1, 2}
    /\ len_real \in Nat
    /\ phase \in Phases
    /\ phase \in {"rehash", "search", "refind"}
          => op \in [key : Object, val : Val \cup {NULL}, added : BOOLEAN]
    /\ at \in 0 .. MaxEnts
    /\ phase = "rehash" => at <= Len(ents)
    /\ Len(ents) <= MaxEnts
    /\ flaw \in {"none", "unhashed", "revived", "miscounted"}

(* Entry e is in a bucket. *)
In(e) == \E b \in 0 .. nb - 1 : bks[b] = e

Full(n) == \A e \in 0 .. n - 1 : In(e)

(* A search for the key of an entry in a bucket comes to that bucket. *)
Reached ==
    \A b \in 0 .. nb - 1 : bks[b] >= 0 =>
        \E d \in 0 .. nb - 1 :
            /\ Pos(Key(bks[b]), d) = b
            /\ \A c \in 0 .. d - 1 : bks[Pos(Key(bks[b]), c)] # EMPTY

(* No two buckets are of keys that compare equal. *)
Unlike ==
    \A a, b \in 0 .. nb - 1 :
        bks[a] >= 0 /\ bks[b] >= 0 /\ Class[Key(bks[a])] = Class[Key(bks[b])] => a = b

Occupied == {b \in 0 .. nb - 1 : bks[b] # EMPTY}

(* Some bucket is empty whenever one is searched for. *)
Room ==
    /\ Cardinality(Occupied) <= IF phase = "rehash" THEN at ELSE Len(ents)
    /\ phase \in {"rehash", "search", "refind"} => Len(ents) < nb

Sized == nb = 0 \/ \E n \in 0 .. Len(ents) : nb = Wanted(n)

Widths == phase # "aborted" /\ nb > 0 => width = WidthOf(Len(ents))

(* An entry has the key that is being set. *)
Known == \E e \in 0 .. Len(ents) - 1 : Class[Key(e)] = Class[op.key]

Calls ==
    /\ phase = "search" => ~op.added /\ (Len(ents) < MaxEnts \/ \E e \in 0 .. Len(ents) - 1 : In(e) /\ Class[Key(e)] = Class[op.key])
    /\ phase = "rehash" /\ ~op.added => Len(ents) < MaxEnts \/ Known
    /\ phase = "refind" => Full(Len(ents)) /\ op.added
    /\ phase \in {"rehash", "refind"} /\ op.added => Len(ents) > 0 /\ Key(Len(ents) - 1) = op.key
    /\ phase = "rehash" => Full(at) /\ \A b \in 0 .. nb - 1 : bks[b] = EMPTY \/ bks[b] \in 0 .. at - 1

Distinct == \A d, e \in 0 .. Len(ents) - 1 : Class[Key(d)] = Class[Key(e)] => d = e

(* What a flaw takes away. *)
Unflawed ==
    flaw = "none" =>
        /\ len_real = Len(ents)
        /\ phase # "aborted"
        /\ phase = "rehash" => Distinct
        /\ phase \in {"idle", "search"} /\ Deleted = {} => Full(Len(ents))

IInv == Types /\ Reached /\ Unlike /\ Room /\ Sized /\ Widths /\ Calls /\ Unflawed

-----------------------------------------------------------------------------
(* Searches *)

LEMMA KeyType ==
  ASSUME Types, NEW e \in 0 .. Len(ents) - 1
  PROVE  Key(e) \in Object
<1>1. ents \in Seq(Entry) /\ e + 1 \in 1 .. Len(ents)
  BY DEF Types
<1>2. ents[e + 1] \in Entry
  BY <1>1
<1> QED
  BY <1>2 DEF Key, Entry

LEMMA PosType ==
  ASSUME Types, nb > 0, NEW k \in Object, NEW d \in Nat
  PROVE  Pos(k, d) \in 0 .. nb - 1
<1>1. Hash[k] + d \in Nat /\ nb \in Nat \ {0}
  BY HashAssumption DEF Types
<1> QED
  BY <1>1 DEF Pos

LEMMA PosCovers ==
  ASSUME Types, NEW k \in Object, NEW b \in 0 .. nb - 1
  PROVE  \E d \in 0 .. nb - 1 : Pos(k, d) = b
<1>1. Hash[k] \in Nat /\ nb \in Nat \ {0}
  BY HashAssumption DEF Types
<1> QED
  BY <1>1, Covers DEF Pos

LEMMA PosSame ==
  ASSUME NEW k \in Object, NEW l \in Object, Class[k] = Class[l], NEW d
  PROVE  Pos(k, d) = Pos(l, d)
BY HashAssumption DEF Pos

LEMMA PassedLeast ==
  ASSUME Types, NEW k \in Object
  PROVE  \/ Passed(k) = nb /\ \A d \in 0 .. nb - 1 : ~Stops(k, d)
         \/ /\ Passed(k) \in 0 .. nb - 1 /\ Stops(k, Passed(k))
            /\ \A c \in 0 .. nb - 1 : Stops(k, c) => Passed(k) <= c
<1> DEFINE S == {d \in 0 .. nb - 1 : Stops(k, d)}
<1>1. Passed(k) = IF S = {} THEN nb ELSE CHOOSE d \in S : \A c \in S : d <= c
  BY DEF Passed
<1>2. CASE S = {}
  BY <1>1, <1>2
<1>3. CASE S # {}
  <2>1. S \in SUBSET Nat
    BY DEF Types
  <2>2. \E d \in S : \A c \in S : d <= c
    BY <1>3, <2>1, Least
  <2>3. Passed(k) \in S /\ \A c \in S : Passed(k) <= c
    BY <1>1, <1>3, <2>2
  <2> QED
    BY <2>3
<1> QED
  BY <1>2, <1>3

(* What a search finds is in the bucket it ends at, and compares equal. *)
LEMMA FoundThere ==
  ASSUME Types, NEW k \in Object
  PROVE  \/ Found(k) = -1
         \/ /\ Found(k) \in 0 .. Len(ents) - 1
            /\ Bucket(k) \in 0 .. nb - 1
            /\ bks[Bucket(k)] = Found(k)
            /\ Class[Key(Found(k))] = Class[k]
<1> DEFINE d == Passed(k)
           b == Pos(k, d)
<1>1. CASE d = nb
  BY <1>1 DEF Found, Bucket
<1>2. CASE d # nb
  <2>1. d \in 0 .. nb - 1 /\ Stops(k, d)
    BY <1>2, PassedLeast
  <2>2. nb > 0 /\ d \in Nat /\ nb \in Nat
    BY <2>1 DEF Types
  <2>3. b \in 0 .. nb - 1
    BY <2>2, PosType
  <2>4. Bucket(k) = b /\ b # -1
    BY <1>2, <2>2, <2>3 DEF Bucket
  <2>5. Found(k) = IF bks[b] = EMPTY THEN -1 ELSE bks[b]
    BY <2>4 DEF Found
  <2>6. bks[b] = EMPTY \/ (bks[b] >= 0 /\ Class[Key(bks[b])] = Class[k])
    BY <2>1 DEF Stops, Matches
  <2>7. bks[b] \in DELETED .. Len(ents) - 1
    BY <2>3 DEF Types
  <2> HIDE DEF b, d
  <2> QED
    BY <2>3, <2>4, <2>5, <2>6, <2>7 DEF DELETED
<1> QED
  BY <1>1, <1>2

(* The entry of an equal key that is in a bucket is found. *)
LEMMA FoundIs ==
  ASSUME Types, Reached, Unlike, NEW k \in Object, NEW b \in 0 .. nb - 1,
         bks[b] >= 0, Class[Key(bks[b])] = Class[k]
  PROVE  Found(k) = bks[b] /\ Bucket(k) = b
<1> DEFINE e == bks[b]
<1>1. e \in 0 .. Len(ents) - 1 /\ e >= 0 /\ nb \in Nat /\ nb > 0
  BY DEF Types
<1>2. Key(e) \in Object
  BY <1>1, KeyType
<1>3. PICK d \in 0 .. nb - 1 : /\ Pos(Key(e), d) = b
                               /\ \A c \in 0 .. d - 1 : bks[Pos(Key(e), c)] # EMPTY
  BY DEF Reached
<1>4. \A c : Pos(k, c) = Pos(Key(e), c)
  BY <1>2, PosSame
<1>5. Stops(k, d)
  BY <1>1, <1>3, <1>4 DEF Stops, Matches
<1>6. /\ Passed(k) \in 0 .. nb - 1 /\ Stops(k, Passed(k)) /\ Passed(k) <= d
  BY <1>3, <1>5, PassedLeast
<1> DEFINE f == Pos(k, Passed(k))
<1>7. f \in 0 .. nb - 1
  BY <1>1, <1>6, PosType
<1>8. bks[f] # EMPTY
  <2>1. CASE Passed(k) = d
    BY <1>1, <1>3, <1>4, <2>1 DEF EMPTY
  <2>2. CASE Passed(k) < d
    <3>1. Passed(k) \in 0 .. d - 1
      BY <1>1, <1>6, <2>2
    <3> QED
      BY <1>3, <1>4, <3>1
  <2> QED
    BY <1>1, <1>6, <2>1, <2>2
<1>9. bks[f] >= 0 /\ Class[Key(bks[f])] = Class[k]
  BY <1>6, <1>8 DEF Stops, Matches
<1>10. f = b
  BY <1>7, <1>9 DEF Unlike
<1>11. Bucket(k) = f
  BY <1>1, <1>6 DEF Bucket
<1> HIDE DEF f
<1>12. Found(k) = e
  BY <1>1, <1>10, <1>11 DEF Found, EMPTY
<1> QED
  BY <1>10, <1>11, <1>12

LEMMA FoundIn ==
  ASSUME Types, Reached, Unlike, NEW e \in 0 .. Len(ents) - 1
  PROVE  Found(Key(e)) = e <=> In(e)
<1>1. Key(e) \in Object /\ e >= 0
  BY KeyType
<1>2. ASSUME In(e) PROVE Found(Key(e)) = e
  BY <1>1, <1>2, FoundIs DEF In
<1>3. ASSUME Found(Key(e)) = e PROVE In(e)
  BY <1>1, <1>3, FoundThere DEF In
<1> QED
  BY <1>2, <1>3

LEMMA OccupiedFinite ==
  ASSUME Types
  PROVE  IsFiniteSet(Occupied) /\ Cardinality(Occupied) \in Nat
<1>1. IsFiniteSet(0 .. nb - 1) /\ Occupied \subseteq 0 .. nb - 1
  BY FS_Interval DEF Types, Occupied
<1> QED
  BY <1>1, FS_Subset, FS_CardinalityType

LEMMA SomeEmpty ==
  ASSUME Types, Cardinality(Occupied) < nb
  PROVE  \E b \in 0 .. nb - 1 : bks[b] = EMPTY
<1>1. Cardinality(0 .. nb - 1) = nb
  BY FS_Interval DEF Types
<1>2. Occupied # 0 .. nb - 1
  BY <1>1 DEF Types
<1> QED
  BY <1>2 DEF Occupied

(* If nothing is found, the search ends at an empty bucket. *)
LEMMA BucketEmpty ==
  ASSUME Types, Reached, Unlike, Cardinality(Occupied) < nb, NEW k \in Object, Found(k) < 0
  PROVE  /\ Bucket(k) \in 0 .. nb - 1 /\ bks[Bucket(k)] = EMPTY
         /\ \E d \in 0 .. nb - 1 : Bucket(k) = Pos(k, d) /\ \A c \in 0 .. d - 1 : bks[Pos(k, c)] # EMPTY
         /\ \A b \in 0 .. nb - 1 : bks[b] >= 0 => Class[Key(bks[b])] # Class[k]
<1>1. PICK b \in 0 .. nb - 1 : bks[b] = EMPTY
  BY SomeEmpty
<1>2. PICK x \in 0 .. nb - 1 : Pos(k, x) = b
  BY PosCovers
<1>3. Stops(k, x)
  BY <1>1, <1>2 DEF Stops
<1> DEFINE d == Passed(k)
<1>4. d \in 0 .. nb - 1 /\ Stops(k, d) /\ \A c \in 0 .. nb - 1 : Stops(k, c) => d <= c
  BY <1>2, <1>3, PassedLeast
<1>5. nb > 0 /\ nb \in Nat /\ d \in Nat /\ d # nb
  BY <1>4 DEF Types
<1>6. Bucket(k) = Pos(k, d) /\ Pos(k, d) \in 0 .. nb - 1
  BY <1>5, PosType DEF Bucket
<1> HIDE DEF d
<1>7. \A a \in 0 .. nb - 1 : bks[a] >= 0 => Class[Key(bks[a])] # Class[k]
  <2> SUFFICES ASSUME NEW a \in 0 .. nb - 1, bks[a] >= 0, Class[Key(bks[a])] = Class[k]
               PROVE  FALSE
    OBVIOUS
  <2>1. Found(k) = bks[a] /\ bks[a] \in Int
    BY FoundIs DEF Types
  <2> QED
    BY <2>1
<1>8. bks[Bucket(k)] = EMPTY
  BY <1>4, <1>6, <1>7 DEF Stops, Matches
<1>9. \A c \in 0 .. d - 1 : bks[Pos(k, c)] # EMPTY
  BY <1>4, <1>5 DEF Stops
<1> QED
  BY <1>4, <1>6, <1>7, <1>8, <1>9

-----------------------------------------------------------------------------
(* Steps of the buckets *)

(* Those that are there keep their keys. *)
KeysKept == Len(ents) <= Len(ents') /\ \A e \in 0 .. Len(ents) - 1 : Key(e)' = Key(e)

LEMMA SameBuckets ==
  ASSUME Types, Reached, Unlike, KeysKept, nb' = nb, bks' = bks
  PROVE  /\ Reached' /\ Unlike' /\ Occupied' = Occupied
         /\ \A e : In(e)' <=> In(e)
<1>1. \A b \in 0 .. nb - 1 : bks[b] >= 0 => Key(bks[b])' = Key(bks[b])
  BY DEF Types, KeysKept
<1>2. Reached'
  BY <1>1 DEF Reached, Pos
<1>3. Unlike'
  BY <1>1 DEF Unlike
<1> QED
  BY <1>2, <1>3 DEF Occupied, In

LEMMA Emptied ==
  ASSUME nb' \in Nat, bks' = [b \in 0 .. nb' - 1 |-> EMPTY]
  PROVE  Reached' /\ Unlike' /\ Cardinality(Occupied)' = 0
<1>1. \A b \in 0 .. nb' - 1 : ~(bks'[b] >= 0) /\ bks'[b] = EMPTY
  BY DEF EMPTY
<1>2. Occupied' = {}
  BY <1>1 DEF Occupied
<1>3. Cardinality(Occupied') = 0
  BY <1>2, FS_EmptySet
<1> QED
  BY <1>1, <1>3 DEF Reached, Unlike

(* Entry e, of key k, is put where the search for k ended. *)
LEMMA Puts ==
  ASSUME Types, Reached, Unlike, KeysKept, Cardinality(Occupied) < nb,
         NEW k \in Object, Found(k) < 0, NEW e \in Nat, Key(e)' = k, ~In(e),
         nb' = nb, bks' = [bks EXCEPT ![Bucket(k)] = e]
  PROVE  /\ Reached' /\ Unlike'
         /\ Cardinality(Occupied)' <= Cardinality(Occupied) + 1
         /\ \A x \in Nat : In(x)' <=> In(x) \/ x = e
<1>0. PICK r : r = Bucket(k)
  OBVIOUS
<1>1. /\ r \in 0 .. nb - 1 /\ bks[r] = EMPTY
      /\ \E d \in 0 .. nb - 1 : r = Pos(k, d) /\ \A c \in 0 .. d - 1 : bks[Pos(k, c)] # EMPTY
      /\ \A b \in 0 .. nb - 1 : bks[b] >= 0 => Class[Key(bks[b])] # Class[k]
  BY <1>0, BucketEmpty
<1>2. /\ bks'[r] = e /\ \A b \in 0 .. nb - 1 : b # r => bks'[b] = bks[b]
  BY <1>0, <1>1 DEF Types
<1>3. \A b \in 0 .. nb - 1 : bks[b] >= 0 => Key(bks[b])' = Key(bks[b])
  <2> SUFFICES ASSUME NEW b \in 0 .. nb - 1, bks[b] >= 0
               PROVE  Key(bks[b])' = Key(bks[b])
    OBVIOUS
  <2>1. bks[b] \in 0 .. Len(ents) - 1 /\ bks'[b] = bks[b]
    BY <1>1, <1>2 DEF Types, EMPTY
  <2> QED
    BY <2>1 DEF KeysKept, Key
<1>4. nb \in Nat /\ nb > 0 /\ e # EMPTY
  BY <1>1 DEF Types, EMPTY
<1>5. \A l, c : Pos(l, c)' = Pos(l, c)
  BY DEF Pos
<1>6. \A b \in 0 .. nb - 1 : bks[b] # EMPTY => bks'[b] # EMPTY
  BY <1>1, <1>2, <1>4
<1>7. ASSUME NEW l \in Object, NEW d \in 0 .. nb - 1, \A c \in 0 .. d - 1 : bks[Pos(l, c)] # EMPTY
      PROVE  \A c \in 0 .. d - 1 : bks'[Pos(l, c)] # EMPTY
  BY <1>4, <1>6, <1>7, PosType
<1>8. Reached'
  <2> SUFFICES ASSUME NEW b \in 0 .. nb - 1, bks'[b] >= 0
               PROVE  \E d \in 0 .. nb - 1 :
                        /\ Pos(Key(bks[b])', d) = b
                        /\ \A c \in 0 .. d - 1 : bks'[Pos(Key(bks[b])', c)] # EMPTY
    BY <1>5 DEF Reached
  <2>1. CASE b = r
    <3>1. Key(bks[b])' = k
      BY <1>2, <2>1 DEF Key
    <3> QED
      BY <1>1, <1>7, <2>1, <3>1
  <2>2. CASE b # r
    <3>1. bks'[b] = bks[b] /\ bks[b] >= 0
      BY <1>2, <2>2
    <3>2. Key(bks[b])' = Key(bks[b]) /\ Key(bks[b]) \in Object
      BY <1>3, <3>1, KeyType DEF Types
    <3> QED
      BY <1>7, <3>1, <3>2 DEF Reached
  <2> QED
    BY <2>1, <2>2
<1>9. Unlike'
  <2> SUFFICES ASSUME NEW a \in 0 .. nb - 1, NEW b \in 0 .. nb - 1, bks'[a] >= 0, bks'[b] >= 0,
                      Class[Key(bks[a])'] = Class[Key(bks[b])'], a # b
               PROVE  FALSE
    BY DEF Unlike
  <2>1. \A c \in 0 .. nb - 1 : c # r /\ bks'[c] >= 0 => bks[c] >= 0 /\ Key(bks[c])' = Key(bks[c])
    BY <1>2, <1>3
  <2>2. Key(bks[r])' = k
    <3>1. Key(bks[r])' = ents'[bks'[r] + 1].key /\ Key(e)' = ents'[e + 1].key
      BY DEF Key
    <3> QED
      BY <1>2, <3>1
  <2>3. CASE a = r
    BY <1>1, <2>1, <2>2, <2>3
  <2>4. CASE b = r
    BY <1>1, <2>1, <2>2, <2>4
  <2>5. CASE a # r /\ b # r
    BY <2>1, <2>5 DEF Unlike
  <2> QED
    BY <2>3, <2>4, <2>5
<1>10. Cardinality(Occupied)' <= Cardinality(Occupied) + 1
  <2>1. Occupied' = Occupied \cup {r}
    BY <1>1, <1>2, <1>4 DEF Occupied
  <2>2. r \notin Occupied
    BY <1>1 DEF Occupied
  <2>3. IsFiniteSet(Occupied) /\ Cardinality(Occupied) \in Nat
    BY OccupiedFinite
  <2>4. Cardinality(Occupied \cup {r}) = Cardinality(Occupied) + 1
    BY <2>2, <2>3, FS_AddElement
  <2> QED
    BY <2>1, <2>3, <2>4
<1>11. \A x \in Nat : In(x)' <=> In(x) \/ x = e
  BY <1>1, <1>2, <1>4 DEF In, EMPTY
<1> QED
  BY <1>8, <1>9, <1>10, <1>11

(* The bucket where the search for k ended is marked. *)
LEMMA Marks ==
  ASSUME Types, Reached, Unlike, NEW k \in Object, Found(k) >= 0,
         nb' = nb, ents' = ents, bks' = [bks EXCEPT ![Bucket(k)] = DELETED]
  PROVE  /\ Reached' /\ Unlike' /\ Occupied' = Occupied /\ Deleted' # {}
         /\ \A x \in Nat : In(x)' <=> In(x) /\ x # Found(k)
<1> DEFINE r == Bucket(k)
<1>1. r \in 0 .. nb - 1 /\ bks[r] = Found(k) /\ Found(k) \in 0 .. Len(ents) - 1
  BY FoundThere
<1> HIDE DEF r
<1>2. bks'[r] = DELETED /\ \A b \in 0 .. nb - 1 : b # r => bks'[b] = bks[b]
  BY <1>1 DEF Types, r
<1>3. ~(DELETED >= 0) /\ DELETED # EMPTY
  BY DEF DELETED, EMPTY
<1>4. \A l, c : Pos(l, c)' = Pos(l, c) /\ Key(l)' = ents[l + 1].key
  BY DEF Pos, Key
<1>5. \A b \in 0 .. nb - 1 : bks'[b] >= 0 => b # r /\ bks'[b] = bks[b] /\ Key(bks[b])' = Key(bks[b])
  BY <1>2, <1>3 DEF Key
<1>6. \A b \in 0 .. nb - 1 : bks[b] # EMPTY => bks'[b] # EMPTY
  BY <1>2, <1>3
<1>7. Reached'
  <2> SUFFICES ASSUME NEW b \in 0 .. nb - 1, bks'[b] >= 0
               PROVE  \E d \in 0 .. nb - 1 :
                        /\ Pos(Key(bks[b])', d) = b
                        /\ \A c \in 0 .. d - 1 : bks'[Pos(Key(bks[b])', c)] # EMPTY
    BY <1>4 DEF Reached
  <2>1. bks'[b] = bks[b] /\ bks[b] >= 0 /\ Key(bks[b])' = Key(bks[b]) /\ nb > 0 /\ nb \in Nat
    BY <1>5 DEF Types
  <2>2. PICK d \in 0 .. nb - 1 : /\ Pos(Key(bks[b]), d) = b
                                 /\ \A c \in 0 .. d - 1 : bks[Pos(Key(bks[b]), c)] # EMPTY
    BY <2>1 DEF Reached
  <2>3. Key(bks[b]) \in Object
    BY <2>1, KeyType DEF Types
  <2>4. \A c \in 0 .. d - 1 : bks'[Pos(Key(bks[b]), c)] # EMPTY
    BY <1>6, <2>1, <2>2, <2>3, PosType
  <2> QED
    BY <2>1, <2>2, <2>4
<1>8. Unlike'
  BY <1>5 DEF Unlike
<1>9. Occupied' = Occupied
  <2>1. bks[r] # EMPTY
    BY <1>1 DEF EMPTY
  <2> QED
    BY <1>1, <1>2, <1>3, <2>1 DEF Occupied
<1>10. Deleted' # {}
  BY <1>1, <1>2 DEF Deleted, Types
<1>11. \A x \in Nat : In(x)' <=> In(x) /\ x # Found(k)
  <2>1. \A b \in 0 .. nb - 1 : bks[b] = Found(k) => b = r
    BY <1>1 DEF Unlike
  <2>2. \A x \in Nat : x # DELETED
    BY <1>3
  <2> QED
    BY <1>1, <1>2, <2>1, <2>2 DEF In
<1> QED
  BY <1>7, <1>8, <1>9, <1>10, <1>11

-----------------------------------------------------------------------------
(* Steps of the table *)

LEMMA AllDistinct ==
  ASSUME Types, Unlike, Full(Len(ents))
  PROVE  Distinct
<1> SUFFICES ASSUME NEW d \in 0 .. Len(ents) - 1, NEW e \in 0 .. Len(ents) - 1,
                    Class[Key(d)] = Class[Key(e)]
             PROVE  d = e
  BY DEF Distinct
<1>1. PICK a \in 0 .. nb - 1 : bks[a] = d
  BY DEF Full, In
<1>2. PICK b \in 0 .. nb - 1 : bks[b] = e
  BY DEF Full, In
<1>3. d >= 0 /\ e >= 0
  OBVIOUS
<1>4. a = b
  BY <1>1, <1>2, <1>3 DEF Unlike
<1> QED
  BY <1>1, <1>2, <1>4

(* While there is something to search for, some bucket is empty. *)
LEMMA Roomy ==
  ASSUME IInv, phase \in {"rehash", "search", "refind"}
  PROVE  Cardinality(Occupied) < nb /\ Len(ents) \in Nat /\ nb \in Nat /\ Len(ents) < nb
<1>1. Types /\ Room
  BY DEF IInv
<1>2. Len(ents) \in Nat /\ nb \in Nat /\ at \in Nat /\ Cardinality(Occupied) \in Nat
  BY <1>1, OccupiedFinite DEF Types
<1>3. phase = "rehash" => at <= Len(ents)
  BY <1>1 DEF Types
<1>4. Len(ents) < nb
  BY <1>1 DEF Room
<1>5. CASE phase = "rehash"
  <2>1. Cardinality(Occupied) <= at
    BY <1>1, <1>5 DEF Room
  <2> QED
    BY <1>2, <1>3, <1>4, <1>5, <2>1
<1>6. CASE phase # "rehash"
  <2>1. Cardinality(Occupied) <= Len(ents)
    BY <1>1, <1>6 DEF Room
  <2> QED
    BY <1>2, <1>4, <2>1
<1> QED
  BY <1>5, <1>6

LEMMA EnoughBuckets ==
  ASSUME Types, ~(TooFull(Len(ents), nb) /\ Grows(Len(ents)))
  PROVE  Len(ents) < nb
<1>1. Len(ents) \in Nat /\ nb \in Nat
  BY DEF Types
<1>2. Wanted(Len(ents)) \in Nat /\ Len(ents) < Wanted(Len(ents))
  BY <1>1, WantedMore
<1>3. CASE ~TooFull(Len(ents), nb)
  BY <1>1, <1>3 DEF TooFull
<1>4. CASE ~Grows(Len(ents))
  <2>1. nb >= Wanted(Len(ents))
    BY <1>1, <1>2, <1>4 DEF Grows, Grown
  <2> QED
    BY <1>1, <1>2, <2>1
<1> QED
  BY <1>3, <1>4

LEMMA Rebuilds ==
  ASSUME Types, NEW n \in Nat, Rebuild(n), Grows(n), Len(ents') = n
  PROVE  /\ nb' \in Nat /\ n < nb'
         /\ bks' = [b \in 0 .. nb' - 1 |-> EMPTY]
         /\ bks' \in [0 .. nb' - 1 -> DELETED .. Len(ents') - 1]
         /\ width' \in {1, 2} /\ phase' = "rehash" /\ at' = 0
         /\ Reached' /\ Unlike' /\ Room' /\ Sized' /\ Widths'
<1>1. Wanted(n) \in Nat /\ n < Wanted(n) /\ nb \in Nat
  BY WantedMore DEF Types
<1>2. Grown(n, nb) = Wanted(n)
  BY <1>1 DEF Grows, Grown
<1>3. nb' = Wanted(n) /\ bks' = [b \in 0 .. Wanted(n) - 1 |-> EMPTY] /\ width' = WidthOf(n)
      /\ phase' = "rehash" /\ at' = 0
  BY <1>2 DEF Rebuild
<1>4. bks' \in [0 .. nb' - 1 -> DELETED .. Len(ents') - 1]
  <2>1. EMPTY \in DELETED .. n - 1
    BY DEF EMPTY, DELETED
  <2> QED
    BY <1>3, <2>1
<1>5. width' \in {1, 2} /\ Widths'
  BY <1>3 DEF WidthOf, Widths
<1>6. Reached' /\ Unlike' /\ Cardinality(Occupied)' = 0
  BY <1>1, <1>3, Emptied
<1>7. Room'
  BY <1>1, <1>3, <1>6 DEF Room
<1>8. Sized'
  <2>1. n \in 0 .. Len(ents')
    OBVIOUS
  <2> QED
    BY <1>3, <2>1 DEF Sized
<1> QED
  BY <1>1, <1>3, <1>4, <1>5, <1>6, <1>7, <1>8

(* A step that leaves the table as it is. *)
LEMMA SameTable ==
  ASSUME IInv, UNCHANGED table
  PROVE  /\ Reached' /\ Unlike' /\ Sized' /\ Occupied' = Occupied /\ Deleted' = Deleted
         /\ Len(ents') = Len(ents)
         /\ \A e : In(e)' <=> In(e)
         /\ \A e : Key(e)' = Key(e)
<1>1. ents' = ents /\ nb' = nb /\ bks' = bks
  BY DEF table
<1>2. \A e : Key(e)' = Key(e)
  BY <1>1 DEF Key
<1>3. KeysKept
  <2>1. Len(ents) \in Nat
    BY DEF IInv, Types
  <2> QED
    BY <1>1, <1>2, <2>1 DEF KeysKept
<1>4. Reached' /\ Unlike' /\ Occupied' = Occupied /\ \A e : In(e)' <=> In(e)
  BY <1>1, <1>3, SameBuckets DEF IInv
<1>5. Sized' /\ Deleted' = Deleted
  BY <1>1 DEF IInv, Sized, Deleted
<1> QED
  BY <1>1, <1>2, <1>4, <1>5

LEMMA InitInv ==
  ASSUME Init
  PROVE  IInv
<1>1. ents = <<>> /\ Len(ents) = 0 /\ nb = 0 /\ bks = [b \in {} |-> EMPTY] /\ phase = "idle" /\ at = 0
      /\ len_real = 0 /\ flaw = "none" /\ width = 1
  BY DEF Init
<1>2. 0 .. nb - 1 = {}
  BY <1>1
<1>3. Types
  BY <1>1, <1>2, BoundAssumption DEF Init, Types, Phases
<1>4. Reached /\ Unlike /\ Sized /\ Widths
  BY <1>1, <1>2 DEF Reached, Unlike, Sized, Widths
<1>5. Room
  <2>1. Occupied = {}
    BY <1>2 DEF Occupied
  <2>2. Cardinality(Occupied) = 0
    BY <2>1, FS_EmptySet
  <2> QED
    BY <1>1, <2>2 DEF Room
<1>6. Calls
  BY <1>1 DEF Calls
<1>7. Unflawed
  <2>1. Full(Len(ents))
    BY <1>1 DEF Full
  <2> QED
    BY <1>1, <2>1 DEF Unflawed
<1> QED
  BY <1>3, <1>4, <1>5, <1>6, <1>7 DEF IInv

(* Unless a flaw is to be, a rebuild begins with all entries in buckets. *)
LEMMA RebuildingKeeps ==
  ASSUME IInv, NEW n, Rebuilding(n), phase \in {"idle", "search"}, flaw' = "none"
  PROVE  flaw = "none" /\ Full(Len(ents)) /\ Distinct /\ len_real = Len(ents)
<1>1. flaw = "none" /\ Deleted = {}
  BY DEF Rebuilding
<1>2. Full(Len(ents)) /\ len_real = Len(ents)
  BY <1>1 DEF IInv, Unflawed
<1> QED
  BY <1>1, <1>2, AllDistinct DEF IInv

LEMMA SetCallStep ==
  ASSUME IInv, NEW k \in Object, NEW v \in Val \cup {NULL}, SetCall(k, v)
  PROVE  IInv'
<1>1. /\ phase = "idle" /\ op' = [key |-> k, val |-> v, added |-> FALSE]
      /\ Found(k) >= 0 \/ Len(ents) < MaxEnts
  BY DEF SetCall
<1>2. Types /\ Reached /\ Unlike /\ Room /\ Sized /\ Widths /\ Unflawed /\ Len(ents) \in Nat
  BY DEF IInv, Types
<1>3. op' \in [key : Object, val : Val \cup {NULL}, added : BOOLEAN] /\ ~op'.added /\ op'.key = k
  BY <1>1
<1>4. \/ Len(ents) < MaxEnts
      \/ \E e \in 0 .. Len(ents) - 1 : In(e) /\ Class[Key(e)] = Class[k]
  <2>1. CASE Found(k) >= 0
    <3>1. Found(k) \in 0 .. Len(ents) - 1 /\ In(Found(k)) /\ Class[Key(Found(k))] = Class[k]
      BY <1>2, <2>1, FoundThere DEF In
    <3> QED
      BY <3>1
  <2> QED
    BY <1>1, <2>1
<1>5. CASE TooFull(Len(ents), nb) /\ Grows(Len(ents))
  <2>1. Rebuilding(Len(ents)) /\ Rebuild(Len(ents)) /\ UNCHANGED <<kind, ents, len_real>>
    BY <1>5 DEF SetCall, Rebuilding
  <2>2. /\ nb' \in Nat /\ bks' = [b \in 0 .. nb' - 1 |-> EMPTY]
        /\ bks' \in [0 .. nb' - 1 -> DELETED .. Len(ents') - 1]
        /\ width' \in {1, 2} /\ phase' = "rehash" /\ at' = 0
        /\ Reached' /\ Unlike' /\ Room' /\ Sized' /\ Widths'
    BY <1>2, <1>5, <2>1, Rebuilds
  <2>3. Types'
    <3>1. flaw' \in {"none", "unhashed", "revived", "miscounted"}
      BY <1>2, <2>1 DEF Rebuilding, Types
    <3>2. 0 \in 0 .. MaxEnts
      BY BoundAssumption
    <3>3. kind' \in {"dict", "set"} /\ ents' \in Seq(Entry) /\ len_real' \in Nat
          /\ Len(ents') <= MaxEnts /\ 0 <= Len(ents')
      BY <1>2, <2>1 DEF Types
    <3> QED
      BY <1>3, <2>2, <3>1, <3>2, <3>3 DEF Types, Phases
  <2>4. Calls'
    <3>1. \A e : Key(e)' = Key(e)
      BY <2>1 DEF Key
    <3>2. Len(ents') < MaxEnts \/ Known'
      BY <1>3, <1>4, <2>1, <3>1 DEF Known
    <3>3. Full(at)'
      BY <2>2 DEF Full
    <3> QED
      BY <1>3, <2>2, <3>2, <3>3 DEF Calls
  <2>5. Unflawed'
    <3>1. flaw' = "none" => len_real = Len(ents) /\ Distinct
      BY <1>1, <2>1, RebuildingKeeps
    <3>2. Distinct' <=> Distinct
      BY <2>1 DEF Distinct, Key
    <3> QED
      BY <2>1, <2>2, <3>1, <3>2 DEF Unflawed
  <2> QED
    BY <2>2, <2>3, <2>4, <2>5 DEF IInv
<1>6. CASE ~(TooFull(Len(ents), nb) /\ Grows(Len(ents)))
  <2>1. phase' = "search" /\ UNCHANGED <<table, at, flaw>>
    BY <1>6 DEF SetCall
  <2>2. UNCHANGED <<kind, ents, nb, bks, width, len_real>>
    BY <2>1 DEF table
  <2>3. /\ Reached' /\ Unlike' /\ Sized' /\ Occupied' = Occupied /\ Deleted' = Deleted
        /\ \A e : In(e)' <=> In(e)
        /\ \A e : Key(e)' = Key(e)
    BY <2>1, SameTable
  <2>4. Types'
    BY <1>2, <1>3, <2>1, <2>2 DEF Types, Phases
  <2>5. Room'
    <3>1. Len(ents) < nb
      BY <1>2, <1>6, EnoughBuckets
    <3> QED
      BY <1>1, <1>2, <2>1, <2>2, <2>3, <3>1 DEF Room
  <2>6. Widths'
    BY <1>1, <1>2, <2>1, <2>2 DEF Widths
  <2>7. Calls'
    BY <1>3, <1>4, <2>1, <2>2, <2>3 DEF Calls
  <2>8. Unflawed'
    BY <1>1, <1>2, <2>1, <2>2, <2>3 DEF Unflawed, Full
  <2> QED
    BY <2>3, <2>4, <2>5, <2>6, <2>7, <2>8 DEF IInv
<1> QED
  BY <1>5, <1>6

LEMMA SearchThrowsStep ==
  ASSUME IInv, SearchThrows
  PROVE  IInv'
<1>1. phase \in {"search", "refind"} /\ phase' = "idle" /\ UNCHANGED <<table, at, flaw>>
  BY DEF SearchThrows, Resting
<1>2. UNCHANGED <<kind, ents, nb, bks, width, len_real, at, flaw>>
  BY <1>1 DEF table
<1>3. /\ Reached' /\ Unlike' /\ Sized' /\ Occupied' = Occupied /\ Deleted' = Deleted
      /\ \A e : In(e)' <=> In(e)
  BY <1>1, SameTable
<1>4. Types'
  BY <1>1, <1>2 DEF IInv, Types, Phases
<1>5. Room' /\ Widths'
  BY <1>1, <1>2, <1>3 DEF IInv, Room, Widths
<1>6. Calls'
  BY <1>1 DEF Calls
<1>7. Unflawed'
  BY <1>1, <1>2, <1>3 DEF IInv, Unflawed, Calls, Full
<1> QED
  BY <1>3, <1>4, <1>5, <1>6, <1>7 DEF IInv

LEMMA SetFoundStep ==
  ASSUME IInv, SetFound
  PROVE  IInv'
<1>1. /\ phase = "search" /\ Found(op.key) >= 0 /\ phase' = "idle"
      /\ UNCHANGED <<kind, nb, bks, width, len_real, flaw, at>>
      /\ ents' = IF kind = "set" THEN ents ELSE [ents EXCEPT ![Found(op.key) + 1].val = op.val]
  BY DEF SetFound, Resting
<1>2. Types /\ Reached /\ Unlike /\ ents \in Seq(Entry) /\ Len(ents) \in Nat
      /\ op \in [key : Object, val : Val \cup {NULL}, added : BOOLEAN]
  BY <1>1 DEF IInv, Types
<1> DEFINE x == Found(op.key) + 1
<1>3. x \in 1 .. Len(ents)
  <2>1. Found(op.key) \in 0 .. Len(ents) - 1
    BY <1>1, <1>2, FoundThere
  <2> QED
    BY <1>2, <2>1
<1> HIDE DEF x
<1>4. /\ ents' \in Seq(Entry) /\ Len(ents') = Len(ents)
      /\ \A y \in 1 .. Len(ents) : ents'[y].key = ents[y].key
  <2>1. CASE kind = "set"
    BY <1>1, <1>2, <2>1
  <2>2. CASE kind # "set"
    <3>1. ents' = [ents EXCEPT ![x] = [ents[x] EXCEPT !.val = op.val]]
      BY <1>1, <1>2, <1>3, <2>2 DEF x
    <3>2. ents[x] \in Entry /\ op.val \in Val \cup {NULL}
      BY <1>2, <1>3
    <3> DEFINE r == [ents[x] EXCEPT !.val = op.val]
    <3>3. r \in Entry /\ r.key = ents[x].key
      BY <3>2 DEF Entry
    <3> HIDE DEF r
    <3>4. ents' = [ents EXCEPT ![x] = r]
      BY <3>1 DEF r
    <3> QED
      BY <1>2, <1>3, <3>3, <3>4
  <2> QED
    BY <2>1, <2>2
<1>5. KeysKept
  BY <1>2, <1>4 DEF KeysKept, Key
<1>6. Reached' /\ Unlike' /\ Occupied' = Occupied /\ \A e : In(e)' <=> In(e)
  BY <1>1, <1>2, <1>5, SameBuckets
<1>7. Types'
  BY <1>1, <1>4 DEF IInv, Types, Phases
<1>8. Sized' /\ Room' /\ Widths'
  BY <1>1, <1>4, <1>6 DEF IInv, Sized, Room, Widths
<1>9. Calls'
  BY <1>1 DEF Calls
<1>10. Unflawed'
  <2>1. Deleted' = Deleted
    BY <1>1 DEF Deleted
  <2> QED
    BY <1>1, <1>4, <1>6, <2>1 DEF IInv, Unflawed, Full
<1> QED
  BY <1>6, <1>7, <1>8, <1>9, <1>10 DEF IInv

(* What SetAdd comes upon, and what it appends. *)
LEMMA Adds ==
  ASSUME IInv, SetAdd
  PROVE  /\ phase = "search" /\ ~op.added /\ op \in [key : Object, val : Val \cup {NULL}, added : BOOLEAN]
         /\ Found(op.key) < 0 /\ Cardinality(Occupied) < nb /\ Len(ents) < nb
         /\ Len(ents) < MaxEnts /\ Len(ents) \in Nat /\ nb \in Nat
         /\ ents' = Append(ents, [key |-> op.key, val |-> op.val])
         /\ len_real' = len_real + 1 /\ kind' = kind
         /\ ents' \in Seq(Entry) /\ Len(ents') = Len(ents) + 1
         /\ ents'[Len(ents) + 1].key = op.key /\ KeysKept
<1>1. /\ phase = "search" /\ Found(op.key) < 0 /\ len_real' = len_real + 1 /\ kind' = kind
      /\ ents' = Append(ents, [key |-> op.key, val |-> op.val])
  BY DEF SetAdd
<1>2. Types /\ Reached /\ Unlike /\ Calls
  BY DEF IInv
<1>3. op \in [key : Object, val : Val \cup {NULL}, added : BOOLEAN] /\ ~op.added
  BY <1>1, <1>2 DEF Types, Calls
<1>4. Cardinality(Occupied) < nb /\ Len(ents) \in Nat /\ nb \in Nat /\ Len(ents) < nb
  BY <1>1, Roomy
<1>5. Len(ents) < MaxEnts
  <2> SUFFICES ASSUME NEW e \in 0 .. Len(ents) - 1, In(e), Class[Key(e)] = Class[op.key]
               PROVE  FALSE
    BY <1>1, <1>2 DEF Calls
  <2>1. PICK b \in 0 .. nb - 1 : bks[b] = e
    BY DEF In
  <2>2. e >= 0 /\ op.key \in Object
    BY <1>3
  <2>3. Found(op.key) = e
    BY <1>2, <2>1, <2>2, FoundIs
  <2> QED
    BY <1>1, <2>2, <2>3
<1>6. ents \in Seq(Entry) /\ [key |-> op.key, val |-> op.val] \in Entry
  BY <1>2, <1>3 DEF Types, Entry
<1> DEFINE r == [key |-> op.key, val |-> op.val]
<1>7. r.key = op.key
  OBVIOUS
<1> HIDE DEF r
<1>8. /\ ents' = Append(ents, r) /\ r \in Entry
  BY <1>1, <1>6 DEF r
<1>9. /\ ents' \in Seq(Entry) /\ Len(ents') = Len(ents) + 1 /\ ents'[Len(ents) + 1] = r
      /\ \A x \in 1 .. Len(ents) : ents'[x] = ents[x]
  BY <1>6, <1>8
<1>10. KeysKept
  BY <1>4, <1>9 DEF KeysKept, Key
<1>11. ents'[Len(ents) + 1].key = op.key
  BY <1>7, <1>9
<1> QED
  BY <1>1, <1>3, <1>4, <1>5, <1>9, <1>10, <1>11

LEMMA Crossing ==
  ASSUME NEW n \in Nat, Sized, nb \in Nat, nb > 0, Len(ents) + 1 = n, Widens(n)
  PROVE  Grows(n)
<1>1. PICK m \in 0 .. Len(ents) : nb = Wanted(m)
  BY DEF Sized
<1>2. n = Narrow /\ m \in 0 .. n - 1
  BY <1>1 DEF Widens
<1>3. nb < Wanted(n)
  BY <1>1, <1>2, NarrowAssumption DEF Crosses
<1>4. Wanted(n) \in Nat
  BY WantedMore
<1> QED
  BY <1>3, <1>4 DEF Grows, Grown

LEMMA SetAddStep ==
  ASSUME IInv, SetAdd
  PROVE  IInv'
<1>1. /\ phase = "search" /\ ~op.added /\ op \in [key : Object, val : Val \cup {NULL}, added : BOOLEAN]
      /\ Found(op.key) < 0 /\ Cardinality(Occupied) < nb /\ Len(ents) < nb
      /\ Len(ents) < MaxEnts /\ Len(ents) \in Nat /\ nb \in Nat
      /\ len_real' = len_real + 1 /\ kind' = kind
      /\ ents' \in Seq(Entry) /\ Len(ents') = Len(ents) + 1
      /\ ents'[Len(ents) + 1].key = op.key /\ KeysKept
  BY Adds
<1>2. Types /\ Reached /\ Unlike /\ Room /\ Sized /\ Widths /\ Unflawed
  BY DEF IInv
<1>3. /\ Bucket(op.key) \in 0 .. nb - 1 /\ bks[Bucket(op.key)] = EMPTY
      /\ \A b \in 0 .. nb - 1 : bks[b] >= 0 => Class[Key(bks[b])] # Class[op.key]
  BY <1>1, <1>2, BucketEmpty
<1>4. PICK n : n = Len(ents) + 1
  OBVIOUS
<1>5. n \in Nat \ {0} /\ Len(ents) = n - 1 /\ Len(ents') = n
  BY <1>1, <1>4
<1>6. Key(n - 1)' = op.key
  BY <1>1, <1>5 DEF Key
<1>7. CASE Widens(n)
  <2>1. Grows(n)
    BY <1>1, <1>2, <1>5, <1>7, Crossing
  <2>2. Rebuilding(n) /\ op' = [op EXCEPT !.added = TRUE]
    BY <1>4, <1>7, <2>1 DEF SetAdd
  <2>3. Rebuild(n)
    BY <2>2 DEF Rebuilding
  <2>4. /\ nb' \in Nat /\ bks' = [b \in 0 .. nb' - 1 |-> EMPTY]
        /\ bks' \in [0 .. nb' - 1 -> DELETED .. Len(ents') - 1]
        /\ width' \in {1, 2} /\ phase' = "rehash" /\ at' = 0
        /\ Reached' /\ Unlike' /\ Room' /\ Sized' /\ Widths'
    BY <1>2, <1>5, <2>1, <2>3, Rebuilds
  <2>5. op' \in [key : Object, val : Val \cup {NULL}, added : BOOLEAN] /\ op'.added /\ op'.key = op.key
    BY <1>1, <2>2
  <2>6. Types'
    <3>1. flaw' \in {"none", "unhashed", "revived", "miscounted"}
      BY <1>2, <2>2 DEF Rebuilding, Types
    <3>2. 0 \in 0 .. MaxEnts /\ 0 <= Len(ents') /\ Len(ents') <= MaxEnts
      BY <1>1, BoundAssumption
    <3>3. kind' \in {"dict", "set"} /\ len_real' \in Nat
      BY <1>1, <1>2 DEF Types
    <3> QED
      BY <1>1, <2>4, <2>5, <3>1, <3>2, <3>3 DEF Types, Phases
  <2>7. Calls'
    <3>1. Full(at)'
      BY <2>4 DEF Full
    <3>2. Len(ents') > 0 /\ Key(Len(ents) - 1)' = op'.key
      BY <1>5, <1>6, <2>5 DEF Key
    <3> QED
      BY <2>4, <2>5, <3>1, <3>2 DEF Calls
  <2>8. Unflawed'
    <3> SUFFICES ASSUME flaw' = "none"
                 PROVE  len_real' = Len(ents') /\ Distinct'
      BY <2>4 DEF Unflawed
    <3>1. Full(Len(ents)) /\ Distinct /\ len_real = Len(ents)
      BY <1>1, <2>2, RebuildingKeeps
    <3>2. \A e \in 0 .. n - 2 : Class[Key(e)] # Class[op.key]
      <4> SUFFICES ASSUME NEW e \in 0 .. n - 2
                   PROVE  Class[Key(e)] # Class[op.key]
        OBVIOUS
      <4>1. In(e) /\ e >= 0
        BY <1>5, <3>1 DEF Full
      <4> QED
        BY <1>3, <4>1 DEF In
    <3>3. \A e \in 0 .. n - 2 : Key(e)' = Key(e)
      BY <1>1, <1>5 DEF KeysKept
    <3>4. Distinct'
      <4> SUFFICES ASSUME NEW d \in 0 .. n - 1, NEW e \in 0 .. n - 1, Class[Key(d)'] = Class[Key(e)']
                   PROVE  d = e
        BY <1>5 DEF Distinct
      <4>1. CASE d = n - 1 /\ e # n - 1
        <5>1. e \in 0 .. n - 2 /\ Key(d)' = op.key
          BY <1>5, <1>6, <4>1
        <5> QED
          BY <3>2, <3>3, <5>1
      <4>2. CASE e = n - 1 /\ d # n - 1
        <5>1. d \in 0 .. n - 2 /\ Key(e)' = op.key
          BY <1>5, <1>6, <4>2
        <5> QED
          BY <3>2, <3>3, <5>1
      <4>3. CASE d # n - 1 /\ e # n - 1
        <5>1. d \in 0 .. n - 2 /\ e \in 0 .. n - 2
          BY <1>5, <4>3
        <5> QED
          BY <1>5, <3>1, <3>3, <5>1 DEF Distinct
      <4> QED
        BY <4>1, <4>2, <4>3
    <3> QED
      BY <1>1, <3>1, <3>4
  <2> QED
    BY <2>4, <2>6, <2>7, <2>8 DEF IInv
<1>8. CASE ~Widens(n)
  <2>1. /\ bks' = [bks EXCEPT ![Bucket(op.key)] = n - 1]
        /\ phase' = "idle" /\ UNCHANGED <<nb, width, flaw, at>>
    BY <1>3, <1>4, <1>5, <1>8 DEF SetAdd, Resting
  <2>2. ~In(n - 1)
    <3>1. \A b \in 0 .. nb - 1 : bks[b] <= n - 2
      BY <1>2, <1>5 DEF Types, DELETED
    <3> QED
      BY <1>5, <3>1 DEF In
  <2>3. op.key \in Object /\ n - 1 \in Nat
    BY <1>1, <1>5
  <2>4. PICK k, m : k = op.key /\ m = n - 1
    OBVIOUS
  <2>5. Key(m)' = k
    BY <1>6, <2>4 DEF Key
  <2>6. /\ Reached' /\ Unlike'
        /\ Cardinality(Occupied)' <= Cardinality(Occupied) + 1
        /\ \A x \in Nat : In(x)' <=> In(x) \/ x = m
    BY <1>1, <1>2, <2>1, <2>2, <2>3, <2>4, <2>5, Puts
  <2>7. Types'
    <3>1. bks' \in [0 .. nb' - 1 -> DELETED .. Len(ents') - 1]
      <4>1. n - 1 \in DELETED .. n - 1 /\ \A x \in DELETED .. n - 2 : x \in DELETED .. n - 1
        BY <1>5 DEF DELETED
      <4>2. bks \in [0 .. nb - 1 -> DELETED .. n - 2]
        BY <1>2, <1>5 DEF Types
      <4> QED
        BY <1>3, <1>5, <2>1, <4>1, <4>2
    <3>2. Len(ents') <= MaxEnts
      BY <1>1, BoundAssumption
    <3>3. len_real' \in Nat
      BY <1>1, <1>2 DEF Types
    <3> QED
      BY <1>1, <1>2, <2>1, <3>1, <3>2, <3>3 DEF Types, Phases
  <2>8. Room'
    <3>1. Cardinality(Occupied)' <= Len(ents')
      <4>1. Cardinality(Occupied) <= Len(ents) /\ Cardinality(Occupied) \in Nat
        BY <1>1, <1>2, OccupiedFinite DEF Room
      <4>2. Occupied' \subseteq Occupied \cup {Bucket(op.key)}
        BY <1>2, <1>3, <2>1 DEF Occupied, Types
      <4>3. IsFiniteSet(Occupied \cup {Bucket(op.key)})
        BY <1>2, OccupiedFinite, FS_AddElement
      <4>4. Cardinality(Occupied') \in Nat
        BY <4>2, <4>3, FS_Subset, FS_CardinalityType
      <4> QED
        BY <1>1, <2>6, <4>1, <4>4
    <3> QED
      BY <2>1, <3>1 DEF Room
  <2>9. Sized'
    BY <1>1, <1>2, <2>1 DEF Sized
  <2>10. Widths'
    <3>1. nb > 0
      BY <1>1
    <3>2. WidthOf(n - 1) = WidthOf(n)
      BY <1>5, <1>8, NarrowAssumption DEF WidthOf, Widens
    <3> QED
      BY <1>1, <1>2, <1>5, <2>1, <3>1, <3>2 DEF Widths
  <2>11. Calls'
    BY <2>1 DEF Calls
  <2>12. Unflawed'
    <3> SUFFICES ASSUME flaw' = "none"
                 PROVE  len_real' = Len(ents') /\ (Deleted' = {} => Full(Len(ents))')
      BY <2>1 DEF Unflawed
    <3>1. len_real = Len(ents) /\ (Deleted = {} => Full(n - 1))
      BY <1>1, <1>2, <1>5, <2>1 DEF Unflawed
    <3>2. ASSUME Deleted' = {} PROVE Deleted = {}
      <4> SUFFICES ASSUME NEW b \in DOMAIN bks, bks[b] = DELETED PROVE FALSE
        BY DEF Deleted
      <4>1. b # Bucket(op.key) /\ b \in 0 .. nb - 1
        BY <1>2, <1>3 DEF EMPTY, DELETED, Types
      <4>2. b \in DOMAIN bks' /\ bks'[b] = DELETED
        BY <2>1, <4>1
      <4> QED
        BY <3>2, <4>2 DEF Deleted
    <3>3. Full(n - 1) => Full(Len(ents))'
      <4>1. \A x \in 0 .. n - 1 : x \in Nat /\ (x = m \/ x \in 0 .. n - 2)
        BY <1>5, <2>4
      <4> QED
        BY <1>5, <2>6, <4>1 DEF Full
    <3> QED
      BY <1>1, <3>1, <3>2, <3>3
  <2> QED
    BY <2>6, <2>7, <2>8, <2>9, <2>10, <2>11, <2>12 DEF IInv
<1> QED
  BY <1>7, <1>8

(* The entry that was added is found again, in the bucket it is in. *)
LEMMA Refinds ==
  ASSUME IInv, Refind
  PROVE  /\ phase = "refind" /\ phase' = "idle" /\ Full(Len(ents))
         /\ UNCHANGED <<kind, ents, nb, bks, width, len_real, at, flaw>>
<1>1. phase = "refind"
  BY DEF Refind
<1>2. Types /\ Reached /\ Unlike /\ Full(Len(ents)) /\ Len(ents) \in Nat /\ Len(ents) > 0
      /\ Key(Len(ents) - 1) = op.key
  BY <1>1 DEF IInv, Calls, Types
<1>3. Len(ents) - 1 \in 0 .. Len(ents) - 1
  BY <1>2
<1>4. In(Len(ents) - 1)
  BY <1>2, <1>3 DEF Full
<1>5. Found(op.key) = Len(ents) - 1
  BY <1>2, <1>3, <1>4, FoundIn
<1>6. op.key \in Object
  BY <1>2, <1>3, KeyType
<1>7. Bucket(op.key) \in 0 .. nb - 1 /\ bks[Bucket(op.key)] = Len(ents) - 1
  BY <1>2, <1>3, <1>5, <1>6, FoundThere
<1>8. /\ bks' = [bks EXCEPT ![Bucket(op.key)] = Len(ents) - 1] /\ Resting
      /\ UNCHANGED <<kind, ents, nb, width, len_real, flaw>>
  BY <1>5 DEF Refind
<1>9. bks' = bks
  BY <1>2, <1>7, <1>8 DEF Types
<1> QED
  BY <1>1, <1>2, <1>8, <1>9 DEF Resting

LEMMA RefindStep ==
  ASSUME IInv, Refind
  PROVE  IInv'
<1>1. /\ phase = "refind" /\ phase' = "idle" /\ Full(Len(ents))
      /\ UNCHANGED <<kind, ents, nb, bks, width, len_real, at, flaw>>
  BY Refinds
<1>2. UNCHANGED table
  BY <1>1 DEF table
<1>3. /\ Reached' /\ Unlike' /\ Sized' /\ Occupied' = Occupied
      /\ \A e : In(e)' <=> In(e)
  BY <1>2, SameTable
<1>4. Types'
  BY <1>1 DEF IInv, Types, Phases
<1>5. Room' /\ Widths'
  BY <1>1, <1>3 DEF IInv, Room, Widths
<1>6. Calls'
  BY <1>1 DEF Calls
<1>7. Unflawed'
  BY <1>1, <1>3 DEF IInv, Unflawed, Full
<1> QED
  BY <1>3, <1>4, <1>5, <1>6, <1>7 DEF IInv

LEMMA RehashStep ==
  ASSUME IInv, Rehash
  PROVE  IInv'
<1> DEFINE k == Key(at)
<1>1. phase = "rehash" /\ at < Len(ents)
  BY DEF Rehash
<1>2. Types /\ Reached /\ Unlike /\ Room /\ Sized /\ Widths /\ Unflawed /\ Calls
  BY DEF IInv
<1>3. Len(ents) \in Nat /\ at \in 0 .. Len(ents) - 1 /\ Len(ents) <= MaxEnts /\ MaxEnts \in Nat
  BY <1>1, <1>2, BoundAssumption DEF Types
<1>4. k \in Object
  BY <1>2, <1>3, KeyType
<1>5. Cardinality(Occupied) < nb /\ nb \in Nat
  BY <1>1, Roomy
<1>6. Full(at) /\ \A b \in 0 .. nb - 1 : bks[b] = EMPTY \/ bks[b] \in 0 .. at - 1
  BY <1>1, <1>2 DEF Calls
<1> HIDE DEF k
<1>7. CASE Found(k) >= 0
  <2>1. phase' = "aborted" /\ UNCHANGED <<table, op, at, flaw>>
    BY <1>7 DEF Rehash, Aborts, k
  <2>2. UNCHANGED <<kind, ents, nb, bks, width, len_real, at, flaw>>
    BY <2>1 DEF table
  <2>3. Reached' /\ Unlike' /\ Sized' /\ Occupied' = Occupied
    BY <2>1, SameTable
  <2>4. flaw # "none"
    <3>1. /\ Found(k) \in 0 .. Len(ents) - 1 /\ Bucket(k) \in 0 .. nb - 1
          /\ bks[Bucket(k)] = Found(k) /\ Class[Key(Found(k))] = Class[k]
      BY <1>2, <1>4, <1>7, FoundThere
    <3>2. Found(k) # at
      BY <1>3, <1>6, <3>1 DEF EMPTY
    <3>3. ~Distinct
      BY <1>3, <3>1, <3>2 DEF Distinct, k
    <3> QED
      BY <1>1, <1>2, <3>3 DEF Unflawed
  <2>5. Types'
    BY <1>1, <1>2, <2>1, <2>2 DEF Types, Phases
  <2>6. Room'
    <3>1. Cardinality(Occupied) <= at /\ Cardinality(Occupied) \in Nat
      BY <1>1, <1>2, OccupiedFinite DEF Room
    <3>2. Cardinality(Occupied') <= Len(ents)
      BY <1>3, <2>3, <3>1
    <3> QED
      BY <2>1, <2>2, <3>2 DEF Room
  <2>7. Widths' /\ Calls' /\ Unflawed'
    BY <2>1, <2>2, <2>4 DEF Widths, Calls, Unflawed
  <2> QED
    BY <2>3, <2>5, <2>6, <2>7 DEF IInv
<1>8. CASE ~(Found(k) >= 0)
  <2>1. Found(k) < 0
    BY <1>2, <1>4, <1>8, FoundThere
  <2>2. Bucket(k) \in 0 .. nb - 1
    BY <1>2, <1>4, <1>5, <2>1, BucketEmpty
  <2>3. /\ bks' = [bks EXCEPT ![Bucket(k)] = at] /\ at' = at + 1
        /\ UNCHANGED <<kind, ents, nb, width, len_real, phase, op, flaw>>
    BY <1>8, <2>2 DEF Rehash, k
  <2>4. KeysKept /\ \A e : Key(e)' = ents[e + 1].key
    BY <1>3, <2>3 DEF KeysKept, Key
  <2>5. ~In(at)
    BY <1>3, <1>6 DEF In, EMPTY
  <2>6. PICK e, l : e = at /\ l = k
    OBVIOUS
  <2>7. e \in Nat /\ Key(e)' = l
    BY <1>3, <2>3, <2>6 DEF Key, k
  <2>8. /\ Reached' /\ Unlike'
        /\ Cardinality(Occupied)' <= Cardinality(Occupied) + 1
        /\ \A x \in Nat : In(x)' <=> In(x) \/ x = e
    BY <1>2, <1>4, <1>5, <2>1, <2>3, <2>4, <2>5, <2>6, <2>7, Puts
  <2>9. Types'
    <3>1. bks' \in [0 .. nb' - 1 -> DELETED .. Len(ents') - 1]
      <4>1. at \in DELETED .. Len(ents) - 1
        BY <1>3 DEF DELETED
      <4> QED
        BY <1>2, <2>3, <4>1 DEF Types
    <3>2. at' \in 0 .. MaxEnts /\ at' <= Len(ents')
      BY <1>3, <2>3
    <3> QED
      BY <1>2, <2>3, <3>1, <3>2 DEF Types
  <2>10. Room'
    <3>1. Cardinality(Occupied) <= at /\ Cardinality(Occupied) \in Nat
      BY <1>1, <1>2, OccupiedFinite DEF Room
    <3>2. Cardinality(Occupied') \in Nat
      <4>1. Occupied' \subseteq Occupied \cup {Bucket(k)}
        BY <1>2, <2>2, <2>3 DEF Occupied, Types
      <4>2. IsFiniteSet(Occupied \cup {Bucket(k)})
        BY <1>2, OccupiedFinite, FS_AddElement
      <4> QED
        BY <4>1, <4>2, FS_Subset, FS_CardinalityType
    <3>3. Cardinality(Occupied)' <= at'
      BY <1>3, <2>3, <2>8, <3>1, <3>2
    <3> QED
      BY <1>1, <1>2, <2>3, <3>3 DEF Room
  <2>11. Sized' /\ Widths'
    BY <1>2, <2>3 DEF Sized, Widths
  <2>12. Calls'
    <3>1. Full(at)'
      <4>1. \A x \in 0 .. at : x \in Nat /\ (x = e \/ x \in 0 .. at - 1)
        BY <1>3, <2>6
      <4>2. \A x \in 0 .. at : In(x)'
        BY <1>6, <2>8, <4>1 DEF Full
      <4> QED
        BY <1>3, <2>3, <4>2 DEF Full
    <3>2. \A b \in 0 .. nb - 1 : bks'[b] = EMPTY \/ bks'[b] \in 0 .. at
      BY <1>2, <1>3, <1>6, <2>2, <2>3 DEF Types
    <3>3. Known' <=> Known
      BY <2>3 DEF Known, Key
    <3>4. \A b \in 0 .. nb' - 1 : bks'[b] = EMPTY \/ bks'[b] \in 0 .. at' - 1
      BY <1>3, <2>3, <3>2
    <3>5. op'.added => Len(ents') > 0 /\ Key(Len(ents) - 1)' = op'.key
      BY <1>1, <1>2, <2>3 DEF Calls, Key
    <3>6. ~op'.added => Len(ents') < MaxEnts \/ Known'
      BY <1>1, <1>2, <2>3, <3>3 DEF Calls
    <3> QED
      BY <1>1, <2>3, <3>1, <3>4, <3>5, <3>6 DEF Calls
  <2>13. Unflawed'
    BY <1>1, <1>2, <2>3 DEF Unflawed, Distinct, Key
  <2> QED
    BY <2>8, <2>9, <2>10, <2>11, <2>12, <2>13 DEF IInv
<1> QED
  BY <1>7, <1>8

LEMMA RehashThrowsStep ==
  ASSUME IInv, RehashThrows
  PROVE  IInv'
<1>1. phase = "rehash" /\ phase' = "idle" /\ at' = at /\ flaw' = "unhashed" /\ UNCHANGED table
  BY DEF RehashThrows, Resting
<1>2. UNCHANGED <<kind, ents, nb, bks, width, len_real>>
  BY <1>1 DEF table
<1>3. Reached' /\ Unlike' /\ Sized' /\ Occupied' = Occupied
  BY <1>1, SameTable
<1>4. Types'
  BY <1>1, <1>2 DEF IInv, Types, Phases
<1>5. Room'
  <2>1. Cardinality(Occupied) <= at /\ Cardinality(Occupied) \in Nat /\ at \in Nat
        /\ at <= Len(ents) /\ Len(ents) \in Nat
    BY <1>1, OccupiedFinite DEF IInv, Room, Types
  <2> QED
    BY <1>1, <1>2, <1>3, <2>1 DEF Room
<1>6. Widths' /\ Calls' /\ Unflawed'
  BY <1>1, <1>2 DEF IInv, Widths, Calls, Unflawed
<1> QED
  BY <1>3, <1>4, <1>5, <1>6 DEF IInv

LEMMA RehashEndsStep ==
  ASSUME IInv, RehashEnds
  PROVE  IInv'
<1>1. phase = "rehash" /\ at = Len(ents) /\ UNCHANGED <<table, op, at, flaw>>
  BY DEF RehashEnds, Aborts
<1>2. UNCHANGED <<kind, ents, nb, bks, width, len_real>>
  BY <1>1 DEF table
<1>3. /\ Reached' /\ Unlike' /\ Sized' /\ Occupied' = Occupied
      /\ \A e : In(e)' <=> In(e)
      /\ \A e : Key(e)' = Key(e)
  BY <1>1, SameTable
<1>4. /\ phase' = IF len_real # Len(ents) THEN "aborted" ELSE IF op.added THEN "refind" ELSE "search"
  BY DEF RehashEnds, Aborts
<1>5. Types /\ Room /\ Widths /\ Calls /\ Unflawed /\ Full(Len(ents))
  BY <1>1 DEF IInv, Calls
<1>6. Types'
  BY <1>1, <1>2, <1>4, <1>5 DEF Types, Phases
<1>7. Room' /\ Widths'
  BY <1>1, <1>2, <1>3, <1>4, <1>5 DEF Room, Widths
<1>8. Calls'
  <2>1. phase' = "search" => ~op'.added /\ (Len(ents') < MaxEnts \/ \E e \in 0 .. Len(ents') - 1 : In(e)' /\ Class[Key(e)'] = Class[op'.key])
    <3>1. phase' = "search" => ~op.added
      BY <1>4
    <3>2. ~op.added => Len(ents) < MaxEnts \/ Known
      BY <1>1, <1>5 DEF Calls
    <3>3. Known => \E e \in 0 .. Len(ents) - 1 : In(e) /\ Class[Key(e)] = Class[op.key]
      BY <1>5 DEF Known, Full
    <3> QED
      BY <1>1, <1>2, <1>3, <3>1, <3>2, <3>3
  <2>2. phase' = "refind" => /\ op'.added /\ Full(Len(ents))'
                             /\ Len(ents') > 0 /\ Key(Len(ents) - 1)' = op'.key
    <3>1. phase' = "refind" => op.added
      BY <1>4
    <3>2. op.added => Len(ents) > 0 /\ Key(Len(ents) - 1) = op.key
      BY <1>1, <1>5 DEF Calls
    <3>3. Full(Len(ents))' /\ Key(Len(ents) - 1)' = Key(Len(ents) - 1)
      BY <1>2, <1>3, <1>5 DEF Full, Key
    <3> QED
      BY <1>1, <1>2, <3>1, <3>2, <3>3
  <2>3. phase' # "rehash"
    BY <1>4
  <2> QED
    BY <2>1, <2>2, <2>3 DEF Calls
<1>9. Unflawed'
  <2>1. flaw' = "none" => len_real = Len(ents)
    BY <1>1, <1>5 DEF Unflawed
  <2>2. Full(Len(ents))'
    BY <1>2, <1>3, <1>5 DEF Full
  <2> QED
    BY <1>2, <1>4, <2>1, <2>2 DEF Unflawed
<1> QED
  BY <1>3, <1>6, <1>7, <1>8, <1>9 DEF IInv

LEMMA DelStep ==
  ASSUME IInv, NEW k \in Object, Del(k)
  PROVE  IInv'
<1>1. /\ phase = "idle" /\ Found(k) >= 0 /\ bks' = [bks EXCEPT ![Bucket(k)] = DELETED]
      /\ UNCHANGED <<kind, ents, nb, width, len_real, phase, op, at, flaw>>
  BY DEF Del
<1>2. Types /\ Reached /\ Unlike /\ Room /\ Sized /\ Widths /\ Unflawed
  BY DEF IInv
<1>3. Reached' /\ Unlike' /\ Occupied' = Occupied /\ Deleted' # {}
  BY <1>1, <1>2, Marks
<1>4. Types'
  <2>1. DELETED \in DELETED .. Len(ents) - 1
    BY <1>2 DEF DELETED, Types
  <2>2. bks' \in [0 .. nb' - 1 -> DELETED .. Len(ents') - 1]
    BY <1>1, <1>2, <2>1 DEF Types
  <2> QED
    BY <1>1, <1>2, <2>2 DEF Types
<1>5. Room' /\ Sized' /\ Widths' /\ Calls'
  BY <1>1, <1>2, <1>3 DEF Room, Sized, Widths, Calls
<1>6. Unflawed'
  BY <1>1, <1>2, <1>3 DEF Unflawed
<1> QED
  BY <1>3, <1>4, <1>5, <1>6 DEF IInv

LEMMA ClearStep ==
  ASSUME IInv, Clear
  PROVE  IInv'
<1>1. /\ phase = "idle" /\ ents' = <<>> /\ nb' = 0 /\ bks' = [b \in {} |-> EMPTY]
      /\ len_real' = (IF kind = "set" THEN 0 ELSE len_real)
      /\ flaw' = (IF flaw # "none" /\ kind = "dict" THEN flaw
                  ELSE IF len_real' = 0 THEN "none" ELSE "miscounted")
      /\ UNCHANGED <<kind, width, phase, op, at>>
  BY DEF Clear
<1>2. 0 .. nb' - 1 = {} /\ Len(ents') = 0
  BY <1>1
<1>3. Types'
  BY <1>1, <1>2, BoundAssumption DEF IInv, Types
<1>4. Reached' /\ Unlike' /\ Sized' /\ Widths' /\ Calls'
  BY <1>1, <1>2 DEF Reached, Unlike, Sized, Widths, Calls
<1>5. Room'
  <2>1. Occupied' = {}
    BY <1>2 DEF Occupied
  <2>2. Cardinality(Occupied') = 0
    BY <2>1, FS_EmptySet
  <2> QED
    BY <1>1, <1>2, <2>2 DEF Room
<1>6. Unflawed'
  BY <1>1, <1>2 DEF Unflawed, Full
<1> QED
  BY <1>3, <1>4, <1>5, <1>6 DEF IInv

LEMMA StutterStep ==
  ASSUME IInv, UNCHANGED vars
  PROVE  IInv'
<1>1. UNCHANGED <<table, phase, op, at, flaw>>
  BY DEF vars
<1>2. UNCHANGED <<kind, ents, nb, bks, width, len_real>>
  BY <1>1 DEF table
<1>3. Types' /\ Room' /\ Sized' /\ Widths'
  BY <1>1, <1>2 DEF IInv, Types, Room, Sized, Widths, Occupied
<1>4. Reached' /\ Unlike'
  BY <1>1, SameTable
<1>5. Calls' /\ Unflawed'
  BY <1>1, <1>2 DEF IInv, Calls, Unflawed, Full, Distinct, Known, Deleted, In, Key
<1> QED
  BY <1>3, <1>4, <1>5 DEF IInv

LEMMA StepInv ==
  ASSUME IInv, [Next]_vars
  PROVE  IInv'
<1>1. ASSUME NEW k \in Object, NEW v \in Val, SetCall(k, IF kind = "set" THEN NULL ELSE v)
      PROVE  IInv'
  <2>1. PICK w \in Val \cup {NULL} : w = IF kind = "set" THEN NULL ELSE v
    OBVIOUS
  <2> QED
    BY <1>1, <2>1, SetCallStep
<1>2. ASSUME NEW k \in Object, Del(k) PROVE IInv'
  BY <1>2, DelStep
<1>3. CASE SearchThrows
  BY <1>3, SearchThrowsStep
<1>4. CASE SetFound
  BY <1>4, SetFoundStep
<1>5. CASE SetAdd
  BY <1>5, SetAddStep
<1>6. CASE Refind
  BY <1>6, RefindStep
<1>7. CASE Rehash
  BY <1>7, RehashStep
<1>8. CASE RehashThrows
  BY <1>8, RehashThrowsStep
<1>9. CASE RehashEnds
  BY <1>9, RehashEndsStep
<1>10. CASE Clear
  BY <1>10, ClearStep
<1>11. CASE UNCHANGED vars
  BY <1>11, StutterStep
<1> QED
  BY <1>1, <1>2, <1>3, <1>4, <1>5, <1>6, <1>7, <1>8, <1>9, <1>10, <1>11 DEF Next, Done

-----------------------------------------------------------------------------
(* The map that a table is *)

Alive == {j \in 1 .. Len(ents) : Live(j - 1)}

LEMMA ContentsAre ==
  /\ DOMAIN Contents = Alive
  /\ \A j \in Alive : Contents[j] = ents[j]
BY DEF Contents, Alive

Placed == {j \in 1 .. Len(ents) : In(j - 1)}

AliveIs == Alive = IF phase = "rehash" THEN 1 .. Len(ents) ELSE Placed

LEMMA AliveAre ==
  ASSUME IInv
  PROVE  AliveIs
<1>1. Types /\ Reached /\ Unlike /\ Calls /\ Len(ents) \in Nat
  BY DEF IInv, Types
<1>2. CASE phase = "rehash"
  BY <1>2 DEF AliveIs, Alive, Live
<1>3. CASE phase = "refind"
  <2>1. \A j \in 1 .. Len(ents) : In(j - 1)
    BY <1>1, <1>3 DEF Calls, Full
  <2>2. \A j \in 1 .. Len(ents) : Live(j - 1)
    BY <1>3 DEF Live
  <2> QED
    BY <1>3, <2>1, <2>2 DEF AliveIs, Alive, Placed
<1>4. CASE phase \notin {"rehash", "refind"}
  <2> SUFFICES ASSUME NEW j \in 1 .. Len(ents)
               PROVE  Live(j - 1) <=> In(j - 1)
    BY <1>4 DEF AliveIs, Alive, Placed
  <2>1. j - 1 \in 0 .. Len(ents) - 1
    BY <1>1
  <2> QED
    BY <1>1, <1>4, <2>1, FoundIn DEF Live
<1> QED
  BY <1>2, <1>3, <1>4

LEMMA AliveNext == IInv' => AliveIs'
<1>1. IInv => AliveIs
  BY AliveAre
<1> QED
  BY <1>1, PTL

LEMMA SameContents ==
  ASSUME ents' = ents, Alive' = Alive
  PROVE  Contents' = Contents
BY DEF Contents, Alive

LEMMA FullAlive ==
  ASSUME IInv, Full(Len(ents))
  PROVE  Alive = 1 .. Len(ents)
<1>1. Len(ents) \in Nat
  BY DEF IInv, Types
<1>2. \A j \in 1 .. Len(ents) : In(j - 1)
  BY <1>1 DEF Full
<1> QED
  BY <1>2, AliveAre DEF AliveIs, Placed

(* A step that changes no entry and no bucket, and ends or begins no rehash. *)
LEMMA Keeps ==
  ASSUME IInv, IInv', ents' = ents, nb' = nb, bks' = bks, phase # "rehash", phase' # "rehash"
  PROVE  Contents' = Contents
<1>1. \A e : In(e)' <=> In(e)
  BY DEF In
<1>2. Alive = {j \in 1 .. Len(ents) : In(j - 1)}
  BY AliveAre DEF AliveIs, Placed
<1>3. Alive' = {j \in 1 .. Len(ents') : In(j - 1)'}
  BY AliveNext DEF AliveIs, Placed
<1>4. Alive' = Alive
  BY <1>1, <1>2, <1>3
<1> QED
  BY <1>4, SameContents

LEMMA SetCallKeeps ==
  ASSUME IInv, IInv', NEW k \in Object, NEW v, SetCall(k, v), flaw' = "none"
  PROVE  Contents' = Contents
<1>1. phase = "idle"
  BY DEF SetCall
<1>2. CASE TooFull(Len(ents), nb) /\ Grows(Len(ents))
  <2>1. Rebuilding(Len(ents)) /\ ents' = ents /\ phase' = "rehash"
    BY <1>2 DEF SetCall, Rebuilding, Rebuild
  <2>2. Full(Len(ents))
    BY <1>1, <2>1, RebuildingKeeps
  <2>3. Alive = 1 .. Len(ents)
    BY <2>2, FullAlive
  <2>4. Alive' = 1 .. Len(ents')
    BY <2>1, AliveNext DEF AliveIs, Placed
  <2> QED
    BY <2>1, <2>3, <2>4, SameContents
<1>3. CASE ~(TooFull(Len(ents), nb) /\ Grows(Len(ents)))
  <2>1. phase' = "search" /\ ents' = ents /\ nb' = nb /\ bks' = bks
    BY <1>3 DEF SetCall, table
  <2> QED
    BY <1>1, <2>1, Keeps
<1> QED
  BY <1>2, <1>3

LEMMA SetFoundReplaces ==
  ASSUME IInv, IInv', SetFound
  PROVE  Contents' = Contents \/ Map!Replace(op.key, op.val)
<1>1. /\ phase = "search" /\ Found(op.key) >= 0 /\ phase' = "idle"
      /\ UNCHANGED <<nb, bks>>
      /\ ents' = IF kind = "set" THEN ents ELSE [ents EXCEPT ![Found(op.key) + 1].val = op.val]
  BY DEF SetFound, Resting
<1>2. CASE kind = "set"
  BY <1>1, <1>2, Keeps
<1>3. CASE kind # "set"
  <2>1. Types /\ Reached /\ Unlike /\ ents \in Seq(Entry) /\ Len(ents) \in Nat /\ op.key \in Object
    BY <1>1 DEF IInv, Types
  <2>2. PICK x : x = Found(op.key) + 1
    OBVIOUS
  <2>3. /\ x \in 1 .. Len(ents) /\ x - 1 = Found(op.key) /\ In(x - 1)
        /\ Class[ents[x].key] = Class[op.key]
    <3>1. /\ Found(op.key) \in 0 .. Len(ents) - 1 /\ Bucket(op.key) \in 0 .. nb - 1
          /\ bks[Bucket(op.key)] = Found(op.key) /\ Class[Key(Found(op.key))] = Class[op.key]
      BY <1>1, <2>1, FoundThere
    <3> QED
      BY <2>1, <2>2, <3>1 DEF In, Key
  <2>4. ents' = [ents EXCEPT ![x].val = op.val]
    BY <1>1, <1>3, <2>2
  <2>5. Len(ents') = Len(ents)
    BY <2>1, <2>4
  <2>6. \A e : In(e)' <=> In(e)
    BY <1>1 DEF In
  <2>7. Alive = {j \in 1 .. Len(ents) : In(j - 1)}
    BY <1>1, AliveAre DEF AliveIs, Placed
  <2>8. Alive' = {j \in 1 .. Len(ents') : In(j - 1)'}
    BY <1>1, AliveNext DEF AliveIs, Placed
  <2>9. Alive' = Alive /\ x \in Alive /\ \A j \in Alive : j \in 1 .. Len(ents)
    BY <2>3, <2>5, <2>6, <2>7, <2>8
  <2>10. Contents = [j \in Alive |-> ents[j]] /\ Contents' = [j \in Alive' |-> ents'[j]]
    BY DEF Contents, Alive
  <2>11. Contents' = [Contents EXCEPT ![x].val = op.val]
    <3>1. \A j \in Alive : ents'[j] = IF j = x THEN [ents[x] EXCEPT !.val = op.val] ELSE ents[j]
      BY <2>1, <2>3, <2>4, <2>9
    <3> QED
      BY <2>9, <2>10, <3>1
  <2>12. x \in DOMAIN Contents /\ Class[Contents[x].key] = Class[op.key]
    BY <2>3, <2>9, <2>10
  <2> QED
    BY <2>11, <2>12 DEF Map!Replace, Map!Holds
<1> QED
  BY <1>2, <1>3

LEMMA SetAddAdds ==
  ASSUME IInv, IInv', SetAdd, flaw' = "none"
  PROVE  Map!Add(op.key, op.val)
<1>1. /\ phase = "search" /\ op \in [key : Object, val : Val \cup {NULL}, added : BOOLEAN]
      /\ Found(op.key) < 0 /\ Cardinality(Occupied) < nb
      /\ Len(ents) \in Nat /\ nb \in Nat
      /\ ents' = Append(ents, [key |-> op.key, val |-> op.val])
      /\ Len(ents') = Len(ents) + 1 /\ ents'[Len(ents) + 1].key = op.key /\ KeysKept
  BY Adds
<1>2. Types /\ Reached /\ Unlike /\ ents \in Seq(Entry)
  BY DEF IInv, Types
<1>3. PICK n, r : n = Len(ents) + 1 /\ r = [key |-> op.key, val |-> op.val]
  OBVIOUS
<1>4. n \in Nat \ {0} /\ Len(ents) = n - 1 /\ Len(ents') = n
  BY <1>1, <1>3
<1>5. ents'[n] = r /\ \A j \in 1 .. n - 1 : ents'[j] = ents[j]
  BY <1>1, <1>2, <1>3, <1>4
<1>6. /\ Bucket(op.key) \in 0 .. nb - 1 /\ bks[Bucket(op.key)] = EMPTY
      /\ \A b \in 0 .. nb - 1 : bks[b] >= 0 => Class[Key(bks[b])] # Class[op.key]
  BY <1>1, <1>2, BucketEmpty
<1>7. Alive = {j \in 1 .. n - 1 : In(j - 1)}
  BY <1>1, <1>4, AliveAre DEF AliveIs, Placed
<1>8. Alive' = Alive \cup {n}
  <2>1. CASE Widens(n)
    <3>1. Grows(n)
      <4>1. Sized
        BY DEF IInv
      <4>2. nb > 0
        BY <1>1, <1>2, OccupiedFinite
      <4> QED
        BY <1>1, <1>4, <2>1, <4>1, <4>2, Crossing
    <3>2. Rebuilding(n) /\ phase' = "rehash"
      BY <1>3, <2>1, <3>1 DEF SetAdd, Rebuilding, Rebuild
    <3>3. Full(n - 1)
      BY <1>1, <1>4, <3>2, RebuildingKeeps
    <3>4. Alive = 1 .. n - 1
      BY <1>4, <3>3, FullAlive
    <3>5. Alive' = 1 .. n
      BY <1>4, <3>2, AliveNext DEF AliveIs, Placed
    <3> QED
      BY <1>4, <3>4, <3>5
  <2>2. CASE ~Widens(n)
    <3>1. /\ bks' = [bks EXCEPT ![Bucket(op.key)] = n - 1]
          /\ phase' = "idle" /\ nb' = nb
      BY <1>3, <1>4, <1>6, <2>2 DEF SetAdd, Resting
    <3>2. \A e \in Nat : In(e)' <=> In(e) \/ e = n - 1
      BY <1>2, <1>4, <1>6, <3>1 DEF In, Types, EMPTY
    <3>3. Alive' = {j \in 1 .. n : In(j - 1)'}
      BY <1>4, <3>1, AliveNext DEF AliveIs, Placed
    <3>4. \A j \in 1 .. n : j - 1 \in Nat
      OBVIOUS
    <3>5. \A j \in 1 .. n : In(j - 1)' <=> In(j - 1) \/ j = n
      BY <1>4, <3>2, <3>4
    <3> QED
      BY <1>4, <1>7, <3>3, <3>5
  <2> QED
    BY <2>1, <2>2
<1>9. Contents = [j \in Alive |-> ents[j]] /\ Contents' = [j \in Alive' |-> ents'[j]]
  BY DEF Contents, Alive
<1>10. \A j \in Alive : j \in 1 .. n - 1 /\ j < n /\ j # n
  BY <1>4, <1>7
<1>11. Contents' = [j \in DOMAIN Contents \cup {n} |-> IF j = n THEN r ELSE Contents[j]]
  BY <1>5, <1>8, <1>9, <1>10
<1>12. \A j \in DOMAIN Contents : Class[Contents[j].key] # Class[op.key]
  <2> SUFFICES ASSUME NEW j \in Alive
               PROVE  Class[ents[j].key] # Class[op.key]
    BY <1>9
  <2>1. In(j - 1) /\ j - 1 >= 0 /\ j - 1 + 1 = j
    BY <1>4, <1>7
  <2>2. PICK b \in 0 .. nb - 1 : bks[b] = j - 1
    BY <2>1 DEF In
  <2> QED
    BY <1>6, <2>1, <2>2 DEF Key
<1>13. n \in DOMAIN Contents' /\ \A j \in DOMAIN Contents : j < n
  BY <1>8, <1>9, <1>10
<1> QED
  BY <1>3, <1>11, <1>12, <1>13 DEF Map!Add, Map!Holds

LEMMA DelRemoves ==
  ASSUME IInv, IInv', NEW k \in Object, Del(k)
  PROVE  Map!Remove(k)
<1>1. /\ phase = "idle" /\ phase' = "idle" /\ Found(k) >= 0 /\ bks' = [bks EXCEPT ![Bucket(k)] = DELETED]
      /\ nb' = nb /\ ents' = ents
  BY DEF Del
<1>2. Types /\ Reached /\ Unlike /\ Len(ents) \in Nat
  BY DEF IInv, Types
<1>3. \A x \in Nat : In(x)' <=> In(x) /\ x # Found(k)
  BY <1>1, <1>2, Marks
<1>4. PICK x : x = Found(k) + 1
  OBVIOUS
<1>5. /\ x \in 1 .. Len(ents) /\ x - 1 = Found(k) /\ In(x - 1)
      /\ Class[ents[x].key] = Class[k]
  <2>1. /\ Found(k) \in 0 .. Len(ents) - 1 /\ Bucket(k) \in 0 .. nb - 1
        /\ bks[Bucket(k)] = Found(k) /\ Class[Key(Found(k))] = Class[k]
    BY <1>1, <1>2, FoundThere
  <2> QED
    BY <1>2, <1>4, <2>1 DEF In, Key
<1>6. Alive = {j \in 1 .. Len(ents) : In(j - 1)}
  BY <1>1, AliveAre DEF AliveIs, Placed
<1>7. Alive' = {j \in 1 .. Len(ents) : In(j - 1)'}
  BY <1>1, AliveNext DEF AliveIs, Placed
<1>8. Alive' = Alive \ {x}
  <2>1. \A j \in 1 .. Len(ents) : j - 1 \in Nat /\ (j - 1 = x - 1 <=> j = x)
    BY <1>5
  <2> QED
    BY <1>3, <1>5, <1>6, <1>7, <2>1
<1>9. Contents = [j \in Alive |-> ents[j]] /\ Contents' = [j \in Alive' |-> ents'[j]]
  BY DEF Contents, Alive
<1>10. x \in DOMAIN Contents /\ Class[Contents[x].key] = Class[k]
  BY <1>5, <1>6, <1>9
<1>11. Contents' = [j \in DOMAIN Contents \ {x} |-> Contents[j]]
  BY <1>1, <1>8, <1>9
<1> QED
  BY <1>10, <1>11 DEF Map!Remove, Map!Holds

LEMMA RehashKeeps ==
  ASSUME IInv, IInv', Rehash \/ RehashEnds, flaw' = "none"
  PROVE  Contents' = Contents
<1>1. phase = "rehash" /\ phase' # "aborted"
  BY DEF IInv, Unflawed, Rehash, RehashEnds
<1>2. Alive = 1 .. Len(ents)
  BY <1>1, AliveAre DEF AliveIs, Placed
<1>3. CASE Rehash
  <2>1. phase' = "rehash" /\ ents' = ents
    BY <1>1, <1>3 DEF Rehash, Aborts
  <2> QED
    BY <1>2, <2>1, AliveNext, SameContents DEF AliveIs, Placed
<1>4. CASE RehashEnds
  <2>1. at = Len(ents) /\ UNCHANGED table
    BY <1>1, <1>4 DEF RehashEnds, Aborts
  <2>2. ents' = ents /\ nb' = nb /\ bks' = bks
    BY <2>1 DEF table
  <2>3. Full(Len(ents))
    BY <1>1, <2>1 DEF IInv, Calls
  <2>4. Full(Len(ents))'
    BY <2>2, <2>3 DEF Full, In
  <2>5. Alive' = 1 .. Len(ents')
    <3>1. phase' # "rehash" /\ Len(ents) \in Nat
      BY <1>1, <1>4 DEF RehashEnds, Aborts, IInv, Types
    <3>2. \A j \in 1 .. Len(ents) : In(j - 1)'
      BY <2>2, <2>4, <3>1 DEF Full
    <3> QED
      BY <2>2, <3>1, <3>2, AliveNext DEF AliveIs, Placed
  <2> QED
    BY <1>2, <2>2, <2>5, SameContents
<1> QED
  BY <1>3, <1>4

LEMMA MapSteps ==
  ASSUME IInv, IInv', Next
  PROVE  MapStep \/ UNCHANGED vars
<1> SUFFICES ASSUME flaw' = "none", ~UNCHANGED vars
             PROVE  MapStep
  BY DEF MapStep
<1>1. ASSUME NEW k \in Object, NEW v \in Val, SetCall(k, IF kind = "set" THEN NULL ELSE v)
      PROVE  MapStep
  <2>1. PICK w : w = IF kind = "set" THEN NULL ELSE v
    OBVIOUS
  <2> QED
    BY <1>1, <2>1, SetCallKeeps DEF MapStep
<1>2. ASSUME NEW k \in Object, Del(k) PROVE MapStep
  <2>1. phase = "idle"
    BY <1>2 DEF Del
  <2> QED
    BY <1>2, <2>1, DelRemoves DEF MapStep
<1>3. CASE SearchThrows
  <2>1. /\ phase # "rehash" /\ phase' = "idle" /\ ents' = ents /\ nb' = nb /\ bks' = bks
    BY <1>3 DEF SearchThrows, Resting, table
  <2> QED
    BY <2>1, Keeps DEF MapStep
<1>4. CASE SetFound
  <2>1. phase # "idle"
    BY <1>4 DEF SetFound
  <2> QED
    BY <1>4, <2>1, SetFoundReplaces DEF MapStep
<1>5. CASE SetAdd
  <2>1. phase # "idle"
    BY <1>5 DEF SetAdd
  <2> QED
    BY <1>5, <2>1, SetAddAdds DEF MapStep
<1>6. CASE Refind
  <2>1. /\ phase = "refind" /\ phase' = "idle" /\ ents' = ents /\ nb' = nb /\ bks' = bks
    BY <1>6, Refinds
  <2> QED
    BY <2>1, Keeps DEF MapStep
<1>7. CASE Rehash \/ RehashEnds
  BY <1>7, RehashKeeps DEF MapStep
<1>8. CASE RehashThrows
  BY <1>8 DEF RehashThrows
<1>9. CASE Clear
  <2>1. phase = "idle" /\ ents' = <<>>
    BY <1>9 DEF Clear
  <2>2. DOMAIN Contents' = {}
    BY <2>1 DEF Contents
  <2> QED
    BY <2>1, <2>2 DEF MapStep, Map!Clear
<1> QED
  BY <1>1, <1>2, <1>3, <1>4, <1>5, <1>6, <1>7, <1>8, <1>9 DEF Next, Done

-----------------------------------------------------------------------------
(* The inductive invariant: probing comes to every entry that is in a     *)
(* bucket, no two of these have equal keys, there is an empty bucket        *)
(* whenever one is searched for, and what the flaws take away.             *)
THEOREM Invariant == Spec => []IInv
<1>1. Init => IInv
  BY InitInv
<1>2. IInv /\ [Next]_vars => IInv'
  BY StepInv
<1> QED
  BY <1>1, <1>2, PTL DEF Spec

(* The buckets name entries that are there, and are read in the width they *)
(* were written in, however many entries there are.                        *)
THEOREM Width == Spec => []WidthAgrees
<1>1. IInv => WidthAgrees
  <2> SUFFICES ASSUME IInv PROVE WidthAgrees
    OBVIOUS
  <2>1. Types /\ Widths
    BY DEF IInv
  <2>2. \A i \in 1 .. Len(ents) : ents[i] \in [key : Object, val : Val \cup {NULL}]
    <3>1. ents \in Seq(Entry)
      BY <2>1 DEF Types
    <3>2. \A i \in 1 .. Len(ents) : ents[i] \in Entry
      BY <3>1
    <3> QED
      BY <3>2 DEF Entry
  <2>3. TypeOK
    BY <2>1, <2>2 DEF Types, TypeOK
  <2> QED
    BY <2>1, <2>3 DEF WidthAgrees, Widths
<1> QED
  BY <1>1, Invariant, PTL

(* No assertion of s_resize or of a set fails unless a comparison threw    *)
(* during a rehash, a rehash followed a deletion, or clear left len_real.  *)
THEOREM Asserted == Spec => []AbortsOnlySpoilt
<1>1. IInv => AbortsOnlySpoilt
  BY DEF IInv, Unflawed, AbortsOnlySpoilt
<1> QED
  BY <1>1, Invariant, PTL

(* Every step of an unflawed table is one of the map of OrderedMap that    *)
(* iteration and lookups see, or leaves that map as it is.                 *)
THEOREM Implements == Spec => ImplementsMap
<1>1. IInv /\ IInv' /\ [Next]_vars => [MapStep]_vars
  BY MapSteps
<1> QED
  BY <1>1, Invariant, PTL DEF Spec, ImplementsMap
=============================================================================
