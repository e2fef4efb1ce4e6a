------------------------------ MODULE SortProofs ------------------------------
(***************************************************************************)
(* Proofs about list.sort, for lists of any length, any cutoff of the      *)
(* insertion sort and any answers of the comparisons.                      *)
(***************************************************************************)
EXTENDS Sort, TLAPS

-----------------------------------------------------------------------------
(* Arrays of the places 0 .. m - 1, and the n places from lo on.           *)

Region(lo, n) == lo .. lo + n - 1

Apart(lo1, n1, lo2, n2) == lo1 + n1 <= lo2 \/ lo2 + n2 <= lo1
Within(lo1, n1, lo2, n2) == lo2 <= lo1 /\ lo1 + n1 <= lo2 + n2

(* Every place is in the array. *)
Onto(s, m) == \A x \in 0 .. m - 1 : \E p \in 0 .. m - 1 : s[p] = x

(* What belongs to the region is there, and nothing else. *)
Respects(s, m, lo, n) == \A p \in 0 .. m - 1 : p \in Region(lo, n) <=> s[p] \in Region(lo, n)

(* t holds what s holds, in another order in the region. *)
Rearranged(s, t, m, lo, n) ==
    /\ \A p \in 0 .. m - 1 : p \notin Region(lo, n) => t[p] = s[p]
    /\ \A p \in Region(lo, n) : \E q \in Region(lo, n) : t[p] = s[q]
    /\ \A q \in Region(lo, n) : \E p \in Region(lo, n) : t[p] = s[q]

Precedes(r, p, q) == r[p + 1] < r[q + 1] \/ (r[p + 1] = r[q + 1] /\ p < q)

SortedOn(r, s, lo, n) == \A p, q \in Region(lo, n) : p < q => Precedes(r, s[p], s[q])

LEMMA RearrangedOnto ==
  ASSUME NEW m \in Nat, NEW lo \in Nat, NEW n \in Nat, lo + n <= m,
         NEW s, NEW t, Rearranged(s, t, m, lo, n), Onto(s, m)
  PROVE  Onto(t, m)
<1> SUFFICES ASSUME NEW x \in 0 .. m - 1
             PROVE  \E p \in 0 .. m - 1 : t[p] = x
  BY DEF Onto
<1>1. PICK q \in 0 .. m - 1 : s[q] = x
  BY DEF Onto
<1>2. CASE q \notin Region(lo, n)
  BY <1>1, <1>2 DEF Rearranged
<1>3. CASE q \in Region(lo, n)
  <2>1. PICK p \in Region(lo, n) : t[p] = s[q]
    BY <1>3 DEF Rearranged
  <2>2. p \in 0 .. m - 1
    BY DEF Region
  <2> QED
    BY <1>1, <2>1, <2>2
<1> QED
  BY <1>2, <1>3

LEMMA RearrangedRespects ==
  ASSUME NEW m \in Nat, NEW lo \in Nat, NEW n \in Nat, lo + n <= m,
         NEW s, NEW t, Rearranged(s, t, m, lo, n),
         NEW l2 \in Nat, NEW n2 \in Nat, Respects(s, m, l2, n2),
         Apart(lo, n, l2, n2) \/ Within(lo, n, l2, n2)
  PROVE  Respects(t, m, l2, n2)
<1> SUFFICES ASSUME NEW p \in 0 .. m - 1
             PROVE  p \in Region(l2, n2) <=> t[p] \in Region(l2, n2)
  BY DEF Respects
<1>1. CASE p \notin Region(lo, n)
  BY <1>1 DEF Rearranged, Respects
<1>2. CASE p \in Region(lo, n)
  <2>1. PICK q \in Region(lo, n) : t[p] = s[q]
    BY <1>2 DEF Rearranged
  <2>2. q \in 0 .. m - 1
    BY DEF Region
  <2>3. p \in Region(l2, n2) <=> q \in Region(l2, n2)
    BY <1>2, <2>1 DEF Region, Apart, Within
  <2> QED
    BY <2>1, <2>2, <2>3 DEF Respects
<1> QED
  BY <1>1, <1>2

(* Two arrays that have the same places in the region: the one takes over  *)
(* what the other has there.                                               *)
LEMMA TakenOver ==
  ASSUME NEW m \in Nat, NEW lo \in Nat, NEW n \in Nat, lo + n <= m,
         NEW s, NEW f, NEW t, Onto(s, m), Respects(s, m, lo, n), Onto(f, m), Respects(f, m, lo, n),
         \A p \in 0 .. m - 1 : p \notin Region(lo, n) => t[p] = s[p],
         \A p \in Region(lo, n) : t[p] = f[p]
  PROVE  Rearranged(s, t, m, lo, n)
<1>1. Region(lo, n) \subseteq 0 .. m - 1
  BY DEF Region
<1>2. ASSUME NEW p \in Region(lo, n)
      PROVE  \E q \in Region(lo, n) : t[p] = s[q]
  <2>1. f[p] \in Region(lo, n)
    BY <1>1 DEF Respects
  <2>2. PICK q \in 0 .. m - 1 : s[q] = f[p]
    BY <1>1, <2>1 DEF Onto
  <2>3. q \in Region(lo, n)
    BY <2>1, <2>2 DEF Respects
  <2> QED
    BY <2>2, <2>3
<1>3. ASSUME NEW q \in Region(lo, n)
      PROVE  \E p \in Region(lo, n) : t[p] = s[q]
  <2>1. s[q] \in Region(lo, n)
    BY <1>1 DEF Respects
  <2>2. PICK p \in 0 .. m - 1 : f[p] = s[q]
    BY <1>1, <2>1 DEF Onto
  <2>3. p \in Region(lo, n)
    BY <2>1, <2>2 DEF Respects
  <2> QED
    BY <2>2, <2>3
<1> QED
  BY <1>2, <1>3 DEF Rearranged

(* The insertion sort moves the free place h down by one. *)
LEMMA Shifted ==
  ASSUME NEW m \in Nat, NEW lo \in Nat, NEW n \in Nat, lo + n <= m,
         NEW s \in [0 .. m - 1 -> 0 .. m - 1], NEW h \in Region(lo, n), h - 1 \in Region(lo, n),
         NEW e \in 0 .. m - 1, NEW t, t = [s EXCEPT ![h] = s[h - 1]]
  PROVE  Rearranged([s EXCEPT ![h] = e], [t EXCEPT ![h - 1] = e], m, lo, n)
<1> DEFINE u == [s EXCEPT ![h] = e]
           v == [t EXCEPT ![h - 1] = e]
<1>1. h \in 0 .. m - 1 /\ h - 1 \in 0 .. m - 1 /\ Region(lo, n) \subseteq 0 .. m - 1 /\ h # h - 1
  BY DEF Region
<1>2. \A p \in 0 .. m - 1 : u[p] = IF p = h THEN e ELSE s[p]
  OBVIOUS
<1>3. \A p \in 0 .. m - 1 : v[p] = IF p = h - 1 THEN e ELSE IF p = h THEN s[h - 1] ELSE s[p]
  BY <1>1
<1>4. v[h] = u[h - 1] /\ v[h - 1] = u[h] /\ \A p \in 0 .. m - 1 \ {h, h - 1} : v[p] = u[p]
  BY <1>1, <1>2, <1>3
<1> HIDE DEF u, v
<1>5. Rearranged(u, v, m, lo, n)
  BY <1>1, <1>4 DEF Rearranged
<1> QED
  BY <1>5 DEF u, v

(* What array t will hold of f when i elements of the first mid and j of   *)
(* the others are merged, those that are left being put behind in order.   *)
Merged(t, f, m, lo, n, mid, x, y) ==
    [p \in 0 .. m - 1 |->
        IF p < lo + x + y \/ lo + n <= p THEN t[p]
        ELSE IF p < lo + mid + y THEN f[p - y]
        ELSE f[p]]

LEMMA MergedTakesA ==
  ASSUME NEW m \in Nat, NEW lo \in Nat, NEW n \in Nat, lo + n <= m, NEW mid \in Nat, mid <= n,
         NEW t \in [0 .. m - 1 -> 0 .. m - 1], NEW f \in [0 .. m - 1 -> 0 .. m - 1],
         NEW x \in Nat, NEW y \in Nat, x < mid, y <= n - mid,
         NEW u, u = [t EXCEPT ![lo + x + y] = f[lo + x]]
  PROVE  Rearranged(Merged(t, f, m, lo, n, mid, x, y), Merged(u, f, m, lo, n, mid, x + 1, y), m, lo, n)
<1> DEFINE v == Merged(t, f, m, lo, n, mid, x, y)
           w == Merged(u, f, m, lo, n, mid, x + 1, y)
<1>1. ASSUME NEW p \in 0 .. m - 1
      PROVE  w[p] = v[p]
  <2>1. lo + x + y \in 0 .. m - 1 /\ lo + x \in 0 .. m - 1
    OBVIOUS
  <2>2. CASE p = lo + x + y
    <3>1. u[p] = f[lo + x]
      BY <2>1, <2>2
    <3>2. p < lo + (x + 1) + y /\ p < lo + mid + y /\ ~(p < lo + x + y) /\ ~(lo + n <= p) /\ p - y = lo + x
      BY <2>2
    <3> QED
      BY <3>1, <3>2 DEF Merged
  <2>3. CASE p # lo + x + y
    <3>1. u[p] = t[p]
      BY <2>1, <2>3
    <3>2. p < lo + (x + 1) + y <=> p < lo + x + y
      BY <2>3
    <3> QED
      BY <3>1, <3>2 DEF Merged
  <2> QED
    BY <2>2, <2>3
<1>2. Region(lo, n) \subseteq 0 .. m - 1
  BY DEF Region
<1> HIDE DEF v, w
<1>3. Rearranged(v, w, m, lo, n)
  BY <1>1, <1>2 DEF Rearranged
<1> QED
  BY <1>3 DEF v, w

LEMMA UpTo ==
  ASSUME NEW k \in Int, NEW p \in Int
  PROVE  p <= k <=> p < k + 1
OBVIOUS

LEMMA MergedTakesB ==
  ASSUME NEW m \in Nat, NEW lo \in Nat, NEW n \in Nat, lo + n <= m, NEW mid \in Nat, mid <= n,
         NEW t \in [0 .. m - 1 -> 0 .. m - 1], NEW f \in [0 .. m - 1 -> 0 .. m - 1],
         NEW x \in Nat, NEW y \in Nat, x <= mid, y < n - mid,
         NEW u, u = [t EXCEPT ![lo + x + y] = f[lo + mid + y]]
  PROVE  Rearranged(Merged(t, f, m, lo, n, mid, x, y), Merged(u, f, m, lo, n, mid, x, y + 1), m, lo, n)
<1> DEFINE v == Merged(t, f, m, lo, n, mid, x, y)
           w == Merged(u, f, m, lo, n, mid, x, y + 1)
           a == lo + x + y
           b == lo + mid + y
<1>00. a + 1 = lo + x + (y + 1) /\ b + 1 = lo + mid + (y + 1)
  OBVIOUS
<1>0. a \in Int /\ b \in Int /\ lo <= a /\ a <= b /\ b < lo + n
  OBVIOUS
<1>1. a \in Region(lo, n) /\ b \in Region(lo, n) /\ a <= b /\ Region(lo, n) \subseteq 0 .. m - 1
  <2>1. a \in Region(lo, n) /\ b \in Region(lo, n)
    BY <1>0 DEF Region
  <2>2. Region(lo, n) \subseteq 0 .. m - 1
    BY DEF Region
  <2> QED
    BY <1>0, <2>1, <2>2
<1>2. w[a] = v[b]
  <2>1. u[a] = f[b]
    BY <1>1
  <2>2. a < lo + x + (y + 1)
    OBVIOUS
  <2>3. w[a] = u[a]
    BY <1>1, <2>2 DEF Merged
  <2>4. ~(b < lo + x + y) /\ ~(lo + n <= b) /\ ~(b < lo + mid + y)
    OBVIOUS
  <2>5. v[b] = f[b]
    BY <1>1, <2>4 DEF Merged
  <2> QED
    BY <2>1, <2>3, <2>5
<1>3. ASSUME NEW p \in 0 .. m - 1, a < p, p <= b
      PROVE  w[p] = v[p - 1]
  <2>1. p - 1 \in 0 .. m - 1
    BY <1>1, <1>3
  <2>2. ~(p < lo + x + (y + 1)) /\ ~(lo + n <= p) /\ p < lo + mid + (y + 1)
    BY <1>1, <1>3
  <2>3. w[p] = f[p - (y + 1)]
    BY <2>2 DEF Merged
  <2>4. ~(p - 1 < lo + x + y) /\ ~(lo + n <= p - 1) /\ p - 1 < lo + mid + y
    BY <1>1, <1>3
  <2>5. v[p - 1] = f[p - 1 - y]
    BY <2>1, <2>4 DEF Merged
  <2>6. p - (y + 1) = p - 1 - y
    OBVIOUS
  <2> QED
    BY <2>3, <2>5, <2>6
<1>4. ASSUME NEW p \in 0 .. m - 1, p < a \/ b < p
      PROVE  w[p] = v[p]
  <2>1. u[p] = t[p]
    BY <1>1, <1>4
  <2>2. (p < lo + x + (y + 1) <=> p < lo + x + y) /\ (p < lo + mid + (y + 1) <=> p < lo + mid + y)
    <3>0. p \in Int /\ (p <= a <=> p < a + 1) /\ (p <= b <=> p < b + 1)
      <4>1. p \in Int
        OBVIOUS
      <4>2. a \in Int /\ b \in Int
        BY <1>0
      <4> HIDE DEF a, b
      <4> QED
        BY <4>1, <4>2, UpTo
    <3>1. p \in Int /\ (p <= a <=> p < lo + x + (y + 1)) /\ (p <= b <=> p < lo + mid + (y + 1))
      BY <1>00, <3>0
    <3>2. (p <= a <=> p < a) /\ (p <= b <=> p < b)
      BY <1>0, <1>4, <3>1
    <3> QED
      BY <3>1, <3>2
  <2>3. CASE p < lo + x + y \/ lo + n <= p
    BY <2>1, <2>2, <2>3 DEF Merged
  <2>4. CASE ~(p < lo + x + y \/ lo + n <= p)
    <3>1. ~(p < lo + mid + y)
      BY <1>4, <2>4
    <3> QED
      BY <2>2, <2>4, <3>1 DEF Merged
  <2> QED
    BY <2>3, <2>4
<1>5. \A p \in Region(lo, n) : a < p => p - 1 \in Region(lo, n)
  BY <1>1 DEF Region
<1>6. \A p \in Region(lo, n) : p < b => p + 1 \in Region(lo, n)
  BY <1>1 DEF Region
<1>7. Region(lo, n) \subseteq Int /\ a \in Int /\ b \in Int
  BY DEF Region
<1> HIDE DEF v, w, a, b
<1>8. ASSUME NEW p \in 0 .. m - 1, p \notin Region(lo, n)
      PROVE  w[p] = v[p]
  <2>1. p < a \/ b < p
    BY <1>1, <1>8 DEF Region
  <2> QED
    BY <1>4, <2>1
<1>9. ASSUME NEW p \in Region(lo, n)
      PROVE  \E q \in Region(lo, n) : w[p] = v[q]
  <2>0. p \in Int /\ a \in Int /\ b \in Int
    BY <1>7
  <2>1. p = a \/ (a < p /\ p <= b) \/ p < a \/ b < p
    BY <2>0
  <2> QED
    BY <1>1, <1>2, <1>3, <1>4, <1>5, <2>1
<1>10. ASSUME NEW q \in Region(lo, n)
       PROVE  \E p \in Region(lo, n) : w[p] = v[q]
  <2>0. q \in Int /\ a \in Int /\ b \in Int
    BY <1>7
  <2>1. q = b \/ (a <= q /\ q < b) \/ q < a \/ b < q
    BY <2>0
  <2>2. ASSUME a <= q, q < b
        PROVE  w[q + 1] = v[q] /\ q + 1 \in Region(lo, n)
    <3>1. q + 1 \in Region(lo, n) /\ a < q + 1 /\ q + 1 <= b /\ q + 1 - 1 = q
      BY <1>6, <2>0, <2>2
    <3>2. q + 1 \in 0 .. m - 1
      BY <1>1, <3>1
    <3>3. \A p \in 0 .. m - 1 : a < p /\ p <= b => w[p] = v[p - 1]
      BY <1>3
    <3>4. w[q + 1] = v[q + 1 - 1]
      BY <2>0, <3>1, <3>2, <3>3
    <3> QED
      BY <3>1, <3>4
  <2> QED
    BY <1>1, <1>2, <1>4, <2>1, <2>2
<1>11. Rearranged(v, w, m, lo, n)
  BY <1>8, <1>9, <1>10 DEF Rearranged
<1> QED
  BY <1>11 DEF v, w

-----------------------------------------------------------------------------
(* The order *)

LEMMA PrecedesTrans ==
  ASSUME NEW m \in Nat, NEW r \in [1 .. m -> Nat],
         NEW p \in 0 .. m - 1, NEW q \in 0 .. m - 1, NEW s \in 0 .. m - 1,
         Precedes(r, p, q), Precedes(r, q, s)
  PROVE  Precedes(r, p, s)
<1>1. r[p + 1] \in Nat /\ r[q + 1] \in Nat /\ r[s + 1] \in Nat
  OBVIOUS
<1> QED
  BY <1>1 DEF Precedes

LEMMA PrecedesLess ==
  ASSUME NEW m \in Nat, NEW r \in [1 .. m -> Nat],
         NEW p \in 0 .. m - 1, NEW q \in 0 .. m - 1
  PROVE  /\ r[p + 1] <= r[q + 1] /\ p < q => Precedes(r, p, q)
         /\ ~(r[p + 1] <= r[q + 1]) => Precedes(r, q, p)
         /\ Precedes(r, p, q) => r[p + 1] <= r[q + 1]
<1>1. r[p + 1] \in Nat /\ r[q + 1] \in Nat
  OBVIOUS
<1> QED
  BY <1>1 DEF Precedes

(* The first x + 1 places from lo on are sorted but for the free place h,  *)
(* and what is behind it comes after e.                                    *)
Inserted(r, s, lo, x, h, e) ==
    /\ \A p, q \in Region(lo, x + 1) \ {h} : p < q => Precedes(r, s[p], s[q])
    /\ \A q \in Region(lo, x + 1) : q > h => Precedes(r, e, s[q])

LEMMA Neighbours ==
  ASSUME NEW y \in Int, NEW z \in Int
  PROVE  /\ y < z /\ y # z - 1 => y < z - 1
         /\ z - 1 < y <=> y = z \/ z < y
         /\ z < y => z - 1 < y
OBVIOUS

LEMMA InsertedShift ==
  ASSUME NEW m \in Nat, NEW r \in [1 .. m -> Nat], NEW lo \in Nat, NEW x \in Nat, lo + x + 1 <= m,
         NEW s \in [0 .. m - 1 -> 0 .. m - 1], NEW h \in Region(lo, x + 1), h # lo,
         NEW e \in 0 .. m - 1, Inserted(r, s, lo, x, h, e), Precedes(r, e, s[h - 1]),
         NEW t, t = [s EXCEPT ![h] = s[h - 1]]
  PROVE  Inserted(r, t, lo, x, h - 1, e)
<1>1. h \in 0 .. m - 1 /\ h - 1 \in Region(lo, x + 1) /\ h - 1 # h /\ Region(lo, x + 1) \subseteq 0 .. m - 1
  BY DEF Region
<1>2. t[h] = s[h - 1] /\ \A p \in 0 .. m - 1 : p # h => t[p] = s[p]
  BY <1>1
<1>4. h \in Int /\ h - 1 \in Int /\ \A p \in Region(lo, x + 1) : p \in Int
  BY DEF Region
<1>3. ASSUME NEW p \in Region(lo, x + 1)
      PROVE  /\ p \in Int /\ (p < h /\ p # h - 1 => p < h - 1)
             /\ (h - 1 < p <=> p = h \/ h < p) /\ (h < p => h - 1 < p)
  <2>1. p \in Int
    BY <1>4
  <2> QED
    BY <1>4, <2>1, Neighbours
<1>5. ASSUME NEW p \in Region(lo, x + 1) \ {h - 1}, NEW q \in Region(lo, x + 1) \ {h - 1}, p < q
      PROVE  Precedes(r, t[p], t[q])
  <2>1. CASE p = h
    <3>1. q # h /\ h < q
      BY <1>3, <1>5, <2>1
    <3>2. Precedes(r, s[h - 1], s[q])
      BY <1>1, <1>3, <3>1 DEF Inserted
    <3> QED
      BY <1>1, <1>2, <2>1, <3>1, <3>2
  <2>2. CASE q = h
    <3>1. p # h /\ p < h - 1
      BY <1>3, <1>5, <2>2
    <3>2. Precedes(r, s[p], s[h - 1])
      BY <1>1, <3>1 DEF Inserted
    <3> QED
      BY <1>1, <1>2, <2>2, <3>1, <3>2
  <2>3. CASE p # h /\ q # h
    <3>1. Precedes(r, s[p], s[q])
      BY <1>5, <2>3 DEF Inserted
    <3> QED
      BY <1>1, <1>2, <2>3, <3>1
  <2> QED
    BY <2>1, <2>2, <2>3
<1>6. ASSUME NEW q \in Region(lo, x + 1), q > h - 1
      PROVE  Precedes(r, e, t[q])
  <2>1. CASE q = h
    BY <1>2, <2>1
  <2>2. CASE q # h
    <3>1. q > h
      BY <1>3, <1>4, <1>6, <2>2
    <3>2. Precedes(r, e, s[q])
      BY <3>1 DEF Inserted
    <3> QED
      BY <1>1, <1>2, <2>2, <3>2
  <2> QED
    BY <2>1, <2>2
<1> QED
  BY <1>5, <1>6 DEF Inserted

LEMMA InsertedPlace ==
  ASSUME NEW m \in Nat, NEW r \in [1 .. m -> Nat], NEW lo \in Nat, NEW x \in Nat, lo + x + 1 <= m,
         NEW s \in [0 .. m - 1 -> 0 .. m - 1], NEW h \in Region(lo, x + 1),
         NEW e \in 0 .. m - 1, Inserted(r, s, lo, x, h, e), h # lo => Precedes(r, s[h - 1], e),
         NEW t, t = [s EXCEPT ![h] = e]
  PROVE  SortedOn(r, t, lo, x + 1)
<1>1. h \in 0 .. m - 1 /\ Region(lo, x + 1) \subseteq 0 .. m - 1
  <2>1. \A p \in Region(lo, x + 1) : p \in 0 .. m - 1
    BY SMTT(30) DEF Region
  <2> QED
    BY <2>1
<1>2. t[h] = e /\ \A p \in 0 .. m - 1 : p # h => t[p] = s[p]
  BY <1>1
<1>3. \A p \in Region(lo, x + 1) : p \in Int /\ lo <= p /\ (p < h => h # lo /\ h - 1 \in Region(lo, x + 1) /\ (p = h - 1 \/ p < h - 1))
  BY DEF Region
<1> SUFFICES ASSUME NEW p \in Region(lo, x + 1), NEW q \in Region(lo, x + 1), p < q
             PROVE  Precedes(r, t[p], t[q])
  BY DEF SortedOn
<1>4. CASE p = h
  <2>1. q > h /\ q # h
    BY <1>3, <1>4
  <2> QED
    BY <1>1, <1>2, <1>4, <2>1 DEF Inserted
<1>5. CASE q = h
  <2>1. p # h /\ h # lo /\ h - 1 \in Region(lo, x + 1) /\ (p = h - 1 \/ p < h - 1) /\ h - 1 # h
    <3>1. h \in Int /\ p \in Int
      BY <1>3
    <3> QED
      BY <1>3, <1>5, <3>1
  <2>2. Precedes(r, s[h - 1], e)
    BY <2>1
  <2>3. CASE p = h - 1
    BY <1>1, <1>2, <1>5, <2>1, <2>2, <2>3
  <2>4. CASE p < h - 1
    <3>1. Precedes(r, s[p], s[h - 1])
      BY <2>1, <2>4 DEF Inserted
    <3>2. s[p] \in 0 .. m - 1 /\ s[h - 1] \in 0 .. m - 1
      BY <1>1, <2>1
    <3>3. Precedes(r, s[p], e)
      BY <2>2, <3>1, <3>2, PrecedesTrans
    <3> QED
      BY <1>1, <1>2, <1>5, <2>1, <3>3
  <2> QED
    BY <2>1, <2>3, <2>4
<1>6. CASE p # h /\ q # h
  BY <1>1, <1>2, <1>6 DEF Inserted
<1> QED
  BY <1>4, <1>5, <1>6

(* The next element is at its own place, which becomes the free one. *)
LEMMA InsertedPick ==
  ASSUME NEW r, NEW s, NEW lo \in Nat, NEW x \in Nat, NEW e, SortedOn(r, s, lo, x)
  PROVE  Inserted(r, s, lo, x, lo + x, e)
<1>1. \A p \in Region(lo, x + 1) : ~(p > lo + x) /\ (p # lo + x => p \in Region(lo, x))
  BY DEF Region
<1> QED
  BY <1>1 DEF Inserted, SortedOn

(* The first k places of t from lo on are sorted and come before what f    *)
(* has at the places in S.                                                 *)
Ahead(r, t, f, lo, k, S) ==
    /\ SortedOn(r, t, lo, k)
    /\ \A p \in Region(lo, k) : \A q \in S : Precedes(r, t[p], f[q])

LEMMA AheadTakes ==
  ASSUME NEW m \in Nat, NEW r, NEW lo \in Nat, NEW k \in Nat, lo + k < m,
         NEW t \in [0 .. m - 1 -> 0 .. m - 1], NEW f, NEW S, NEW S2, S2 \subseteq S, NEW q \in S,
         NEW u, u = [t EXCEPT ![lo + k] = f[q]],
         Ahead(r, t, f, lo, k, S), \A z \in S2 : Precedes(r, f[q], f[z])
  PROVE  Ahead(r, u, f, lo, k + 1, S2)
<1> DEFINE b == lo + k
<1>1. b \in 0 .. m - 1 /\ Region(lo, k + 1) \subseteq 0 .. m - 1
  BY DEF Region
<1>2. u[b] = f[q] /\ \A p \in 0 .. m - 1 : p # b => u[p] = t[p]
  BY <1>1
<1>3. \A p \in Region(lo, k + 1) : p \in Int /\ p <= b /\ (p # b => p < b /\ p \in Region(lo, k))
  BY DEF Region
<1>4. b \in Int
  OBVIOUS
<1> HIDE DEF b
<1>5. ASSUME NEW p \in Region(lo, k + 1), NEW z \in Region(lo, k + 1), p < z
      PROVE  Precedes(r, u[p], u[z])
  <2>1. p # b /\ p \in Region(lo, k)
    <3>1. p \in Int /\ z \in Int /\ z <= b
      BY <1>3
    <3>2. p # b
      BY <1>4, <1>5, <3>1
    <3> QED
      BY <1>3, <3>2
  <2>2. CASE z = b
    BY <1>1, <1>2, <2>1, <2>2 DEF Ahead
  <2>3. CASE z # b
    BY <1>1, <1>2, <1>3, <1>5, <2>1, <2>3 DEF Ahead, SortedOn
  <2> QED
    BY <2>2, <2>3
<1>6. ASSUME NEW p \in Region(lo, k + 1), NEW z \in S2
      PROVE  Precedes(r, u[p], f[z])
  <2>1. CASE p = b
    BY <1>2, <2>1
  <2>2. CASE p # b
    BY <1>1, <1>2, <1>3, <2>2 DEF Ahead
  <2> QED
    BY <2>1, <2>2
<1> QED
  BY <1>5, <1>6 DEF Ahead, SortedOn

(* What is left of the two halves when x and y elements are merged. *)
LeftOver(lo, n, mid, x, y) == Region(lo + x, mid - x) \cup Region(lo + mid + y, n - mid - y)

LEMMA TakesA ==
  ASSUME NEW lo \in Nat, NEW n \in Nat, NEW mid \in Nat, mid <= n,
         NEW x \in Nat, NEW y \in Nat, x < mid, y <= n - mid
  PROVE  lo + x \in LeftOver(lo, n, mid, x, y) /\ LeftOver(lo, n, mid, x + 1, y) \subseteq LeftOver(lo, n, mid, x, y)
<1>1. lo + x \in Region(lo + x, mid - x)
  BY DEF Region
<1>2. Region(lo + (x + 1), mid - (x + 1)) \subseteq Region(lo + x, mid - x)
  BY DEF Region
<1> QED
  BY <1>1, <1>2 DEF LeftOver

LEMMA TakesB ==
  ASSUME NEW lo \in Nat, NEW n \in Nat, NEW mid \in Nat, mid <= n,
         NEW x \in Nat, NEW y \in Nat, x <= mid, y < n - mid
  PROVE  lo + mid + y \in LeftOver(lo, n, mid, x, y) /\ LeftOver(lo, n, mid, x, y + 1) \subseteq LeftOver(lo, n, mid, x, y)
<1>1. lo + mid + y \in Region(lo + mid + y, n - mid - y)
  BY DEF Region
<1>2. Region(lo + mid + (y + 1), n - mid - (y + 1)) \subseteq Region(lo + mid + y, n - mid - y)
  BY DEF Region
<1> QED
  BY <1>1, <1>2 DEF LeftOver

(* The element to be merged next is the first of one half; it comes before *)
(* the rest of its own, and if it comes before the first of the other one, *)
(* before the rest of that.                                                *)
LEMMA FirstPrecedes ==
  ASSUME NEW m \in Nat, NEW r \in [1 .. m -> Nat], NEW f \in [0 .. m - 1 -> 0 .. m - 1],
         NEW e \in 0 .. m - 1, NEW lo \in Nat, NEW n \in Nat, lo + n <= m, SortedOn(r, f, lo, n),
         NEW x \in Nat, x < n, Precedes(r, e, f[lo + x])
  PROVE  \A z \in Region(lo + x, n - x) : Precedes(r, e, f[z])
<1> SUFFICES ASSUME NEW z \in Region(lo + x, n - x)
             PROVE  Precedes(r, e, f[z])
  OBVIOUS
<1>0. z \in Int /\ lo + x <= z /\ z <= lo + n - 1
  BY DEF Region
<1>1. lo + x \in Region(lo, n) /\ z \in Region(lo, n) /\ (z = lo + x \/ lo + x < z) /\ Region(lo, n) \subseteq 0 .. m - 1
  <2>1. lo + x \in Region(lo, n)
    BY DEF Region
  <2>2. z \in Region(lo, n)
    BY <1>0 DEF Region
  <2>3. Region(lo, n) \subseteq 0 .. m - 1
    BY DEF Region
  <2>4. z = lo + x \/ lo + x < z
    <3>1. \A c, d \in Int : c <= d => d = c \/ c < d
      OBVIOUS
    <3>2. lo + x \in Int
      OBVIOUS
    <3> QED
      BY <1>0, <3>1, <3>2
  <2> QED
    BY <2>1, <2>2, <2>3, <2>4
<1>2. CASE z = lo + x
  BY <1>2
<1>3. CASE lo + x < z
  <2>1. Precedes(r, f[lo + x], f[z])
    BY <1>1, <1>3 DEF SortedOn
  <2>2. f[lo + x] \in 0 .. m - 1 /\ f[z] \in 0 .. m - 1
    BY <1>1
  <2> QED
    BY <2>1, <2>2, PrecedesTrans
<1> QED
  BY <1>1, <1>2, <1>3

(* When one half is used up, the rest of the other completes the order. *)
LEMMA MergedSorted ==
  ASSUME NEW m \in Nat, NEW r, NEW lo \in Nat, NEW n \in Nat, lo + n <= m, NEW mid \in Nat, mid <= n,
         NEW t, NEW f,
         NEW x \in Nat, NEW y \in Nat, x <= mid, y <= n - mid, x = mid \/ y = n - mid,
         SortedOn(r, f, lo, mid), SortedOn(r, f, lo + mid, n - mid),
         Ahead(r, t, f, lo, x + y, LeftOver(lo, n, mid, x, y))
  PROVE  SortedOn(r, Merged(t, f, m, lo, n, mid, x, y), lo, n)
<1> DEFINE v == Merged(t, f, m, lo, n, mid, x, y)
           k == lo + x + y
<1>0. k \in Int
  OBVIOUS
<1>1. \A p \in Region(lo, n) : p \in Int /\ p \in 0 .. m - 1 /\ (p < k => p \in Region(lo, x + y))
  BY DEF Region
<1>2. \A p \in Region(lo, n) : p < k => v[p] = t[p]
  BY <1>1 DEF Merged
<1>3. CASE y = n - mid
  <2>1. ASSUME NEW p \in Region(lo, n), ~(p < k)
        PROVE  v[p] = f[p - y] /\ p - y \in Region(lo + x, mid - x) /\ p - y \in Region(lo, mid)
    <3>1. p \in 0 .. m - 1 /\ ~(p < lo + x + y) /\ ~(lo + n <= p) /\ p < lo + mid + y
      BY <1>3, <2>1 DEF Region
    <3>2. v[p] = f[p - y]
      BY <3>1 DEF Merged
    <3>3. p - y \in Region(lo + x, mid - x)
      BY <3>1 DEF Region
    <3>4. p - y \in Region(lo, mid)
      BY <3>1 DEF Region
    <3> QED
      BY <3>2, <3>3, <3>4
  <2>2. \A p, q \in Int : p < q => p - y < q - y
    OBVIOUS
  <2> HIDE DEF v, k
  <2> SUFFICES ASSUME NEW p \in Region(lo, n), NEW q \in Region(lo, n), p < q
               PROVE  Precedes(r, v[p], v[q])
    BY DEF SortedOn, v
  <2>3. CASE q < k
    <3>1. p < k
      BY <1>0, <1>1, <2>3
    <3> QED
      BY <1>1, <1>2, <2>3, <3>1 DEF Ahead, LeftOver, SortedOn
  <2>4. CASE p < k /\ ~(q < k)
    BY <1>1, <1>2, <2>1, <2>4 DEF Ahead, LeftOver
  <2>5. CASE ~(p < k)
    <3>1. ~(q < k)
      BY <1>0, <1>1, <2>5
    <3>2. p - y < q - y
      BY <1>1, <2>2
    <3> QED
      BY <2>1, <2>5, <3>1, <3>2 DEF SortedOn
  <2> QED
    BY <2>3, <2>4, <2>5
<1>4. CASE x = mid
  <2>1. ASSUME NEW p \in Region(lo, n), ~(p < k)
        PROVE  v[p] = f[p] /\ p \in Region(lo + mid + y, n - mid - y) /\ p \in Region(lo + mid, n - mid)
    <3>1. p \in 0 .. m - 1 /\ ~(p < lo + x + y) /\ ~(lo + n <= p) /\ ~(p < lo + mid + y)
      BY <1>4, <2>1 DEF Region
    <3>2. v[p] = f[p]
      BY <3>1 DEF Merged
    <3>3. p \in Region(lo + mid + y, n - mid - y)
      BY <3>1 DEF Region
    <3>4. p \in Region(lo + mid, n - mid)
      BY <3>1 DEF Region
    <3> QED
      BY <3>2, <3>3, <3>4
  <2> HIDE DEF v, k
  <2> SUFFICES ASSUME NEW p \in Region(lo, n), NEW q \in Region(lo, n), p < q
               PROVE  Precedes(r, v[p], v[q])
    BY DEF SortedOn, v
  <2>3. CASE q < k
    <3>1. p < k
      BY <1>0, <1>1, <2>3
    <3> QED
      BY <1>1, <1>2, <2>3, <3>1 DEF Ahead, LeftOver, SortedOn
  <2>4. CASE p < k /\ ~(q < k)
    BY <1>1, <1>2, <2>1, <2>4 DEF Ahead, LeftOver
  <2>5. CASE ~(p < k)
    <3>1. ~(q < k)
      BY <1>0, <1>1, <2>5
    <3> QED
      BY <2>1, <2>5, <3>1 DEF SortedOn
  <2> QED
    BY <2>3, <2>4, <2>5
<1> QED
  BY <1>3, <1>4

LEMMA Below ==
  ASSUME NEW p \in Int, NEW b \in Int, NEW q \in Int, p < b, b <= q
  PROVE  p < q /\ ~(q < p)
OBVIOUS

(* Two sorted halves, the last of A not above the first of B: A holds what *)
(* was in front of B.                                                      *)
LEMMA SkippedSorted ==
  ASSUME NEW m \in Nat, NEW r \in [1 .. m -> Nat], NEW f \in [0 .. m - 1 -> 0 .. m - 1],
         NEW lo \in Nat, NEW n \in Nat, lo + n <= m, NEW mid \in Nat, 0 < mid, mid < n,
         SortedOn(r, f, lo, mid), SortedOn(r, f, lo + mid, n - mid),
         \A p \in Region(lo, mid) : f[p] \in Region(lo, mid),
         \A p \in Region(lo + mid, n - mid) : f[p] \in Region(lo + mid, n - mid),
         r[f[lo + mid - 1] + 1] <= r[f[lo + mid] + 1]
  PROVE  SortedOn(r, f, lo, n)
<1> DEFINE a == lo + mid - 1
           b == lo + mid
<1>0. /\ \A p \in Region(lo, mid) : p \in Int /\ lo <= p /\ p < lo + mid
      /\ \A q \in Region(lo + mid, n - mid) : q \in Int /\ lo + mid <= q /\ q < lo + n
  <2>1. \A p \in Region(lo, mid) : p \in Int /\ lo <= p /\ p < lo + mid
    BY DEF Region
  <2>2. \A q \in Region(lo + mid, n - mid) : q \in Int /\ lo + mid <= q /\ q < lo + n
    BY DEF Region
  <2> QED
    BY <2>1, <2>2
<1>1. a \in Region(lo, mid) /\ b \in Region(lo + mid, n - mid) /\ Region(lo, n) \subseteq 0 .. m - 1
      /\ Region(lo, mid) \subseteq Region(lo, n) /\ Region(lo + mid, n - mid) \subseteq Region(lo, n)
  <2>1. a \in Region(lo, mid)
    BY DEF Region
  <2>2. b \in Region(lo + mid, n - mid)
    BY DEF Region
  <2>3. Region(lo, n) \subseteq 0 .. m - 1
    BY DEF Region
  <2>4. Region(lo, mid) \subseteq Region(lo, n)
    BY DEF Region
  <2>5. Region(lo + mid, n - mid) \subseteq Region(lo, n)
    BY DEF Region
  <2> QED
    BY <2>1, <2>2, <2>3, <2>4, <2>5
<1>2. ASSUME NEW p \in Region(lo, n)
      PROVE  p \in Region(lo, mid) \/ p \in Region(lo + mid, n - mid)
  <2>1. p \in Int /\ lo <= p /\ p <= lo + n - 1
    BY DEF Region
  <2>2. CASE p <= lo + mid - 1
    BY <2>1, <2>2 DEF Region
  <2>3. CASE lo + mid <= p
    BY <2>1, <2>3 DEF Region
  <2> QED
    BY <2>1, <2>2, <2>3
<1>3. ASSUME NEW p \in Region(lo, mid), NEW q \in Region(lo + mid, n - mid)
      PROVE  p < q /\ ~(q < p)
  <2>1. p \in Int /\ q \in Int /\ b \in Int /\ p < b /\ b <= q
    BY <1>0
  <2> HIDE DEF b
  <2> QED
    BY <2>1, Below
<1>4. (\A p \in Region(lo, mid) : p < a \/ p = a) /\ (\A q \in Region(lo + mid, n - mid) : b < q \/ b = q)
  <2>1. ASSUME NEW p \in Region(lo, mid)
        PROVE  p < a \/ p = a
    <3>1. p \in Int /\ b \in Int /\ p < b /\ a = b - 1
      BY <1>0
    <3> HIDE DEF a, b
    <3> QED
      BY <3>1
  <2>2. ASSUME NEW q \in Region(lo + mid, n - mid)
        PROVE  b < q \/ b = q
    <3>1. q \in Int /\ b \in Int /\ b <= q
      BY <1>0
    <3> HIDE DEF b
    <3> QED
      BY <3>1
  <2> QED
    BY <2>1, <2>2
<1> HIDE DEF a, b
<1>5. ASSUME NEW p \in Region(lo, mid), NEW q \in Region(lo + mid, n - mid)
      PROVE  Precedes(r, f[p], f[q])
  <2>1. f[p] \in 0 .. m - 1 /\ f[q] \in 0 .. m - 1 /\ f[a] \in 0 .. m - 1 /\ f[b] \in 0 .. m - 1
    BY <1>1
  <2>0. r[f[p] + 1] \in Nat /\ r[f[a] + 1] \in Nat /\ r[f[b] + 1] \in Nat /\ r[f[q] + 1] \in Nat
    <3>1. \A z \in 0 .. m - 1 : z + 1 \in 1 .. m
      OBVIOUS
    <3> QED
      BY <2>1, <3>1
  <2>6. \A c \in Nat : c <= c
    OBVIOUS
  <2>2. r[f[p] + 1] <= r[f[a] + 1]
    <3>1. CASE p < a
      <4>1. Precedes(r, f[p], f[a])
        BY <1>1, <3>1 DEF SortedOn
      <4> QED
        BY <2>1, <4>1, PrecedesLess
    <3>2. CASE p = a
      <4>1. r[f[a] + 1] <= r[f[a] + 1]
        BY <2>0, <2>6
      <4> QED
        BY <3>2, <4>1
    <3> QED
      BY <1>4, <3>1, <3>2
  <2>3. r[f[b] + 1] <= r[f[q] + 1]
    <3>1. CASE b < q
      <4>1. Precedes(r, f[b], f[q])
        BY <1>1, <3>1 DEF SortedOn
      <4> QED
        BY <2>1, <4>1, PrecedesLess
    <3>2. CASE b = q
      <4>1. r[f[b] + 1] <= r[f[b] + 1]
        BY <2>0, <2>6
      <4> QED
        BY <3>2, <4>1
    <3> QED
      BY <1>4, <3>1, <3>2
  <2>4. r[f[p] + 1] <= r[f[q] + 1]
    <3>2. r[f[a] + 1] <= r[f[b] + 1]
      BY DEF a, b
    <3>3. \A c, d, g, h \in Nat : c <= d /\ d <= g /\ g <= h => c <= h
      OBVIOUS
    <3> QED
      BY <2>0, <2>2, <2>3, <3>2, <3>3
  <2>5. f[p] < f[q]
    BY <1>3
  <2> QED
    BY <2>1, <2>4, <2>5, PrecedesLess
<1> SUFFICES ASSUME NEW p \in Region(lo, n), NEW q \in Region(lo, n), p < q
             PROVE  Precedes(r, f[p], f[q])
  BY DEF SortedOn
<1> QED
  BY <1>2, <1>3, <1>5 DEF SortedOn

-----------------------------------------------------------------------------
(* The stack of calls *)

CallType == [do : {"sort", "merge"}, lo : Nat, n : Nat, to : Arrays]

Half(c) == c.n \div 2

(* A call is for places apart from those of a later one, or for some of a  *)
(* half of what the later one merges.                                      *)
Under(c, d) ==
    \/ Apart(c.lo, c.n, d.lo, d.n)
    \/ /\ d.do = "merge"
       /\ \/ Within(c.lo, c.n, d.lo, Half(d))
          \/ Within(c.lo, c.n, d.lo + Half(d), d.n - Half(d))

Nested(s, m) ==
    /\ \A k \in 1 .. Len(s) : s[k].lo + s[k].n <= m /\ (s[k].do = "merge" => s[k].n > 1)
    /\ \A k, l \in 1 .. Len(s) : k < l => Under(s[k], s[l])

LEMMA Halved ==
  ASSUME NEW n \in Nat, n > 1
  PROVE  n \div 2 \in Nat /\ 0 < n \div 2 /\ n \div 2 < n
OBVIOUS

LEMMA Popped ==
  ASSUME NEW s \in Seq(CallType), s # <<>>
  PROVE  /\ Head(s) = s[1] /\ s[1] \in CallType /\ 1 \in 1 .. Len(s)
         /\ Tail(s) \in Seq(CallType) /\ Len(s) \in Nat /\ Len(Tail(s)) = Len(s) - 1
         /\ \A k \in 1 .. Len(Tail(s)) : k + 1 \in 1 .. Len(s) /\ Tail(s)[k] = s[k + 1]
OBVIOUS

LEMMA Joined ==
  ASSUME NEW a \in Seq(CallType), NEW b \in Seq(CallType)
  PROVE  a \o b \in Seq(CallType)
OBVIOUS

(* u is a, b and c on top of t. *)
Above(u, a, b, c, t) ==
    /\ u \in Seq(CallType) /\ Len(u) \in Nat /\ Len(u) = Len(t) + 3 /\ u # <<>>
    /\ u[1] = a /\ u[2] = b /\ u[3] = c
    /\ \A k \in 4 .. Len(u) : k - 3 \in 1 .. Len(t) /\ u[k] = t[k - 3]

LEMMA Pushed ==
  ASSUME NEW a \in CallType, NEW b \in CallType, NEW c \in CallType, NEW t \in Seq(CallType),
         NEW u, u = <<a, b, c>> \o t
  PROVE  Above(u, a, b, c, t)
<1>1. Len(u) = Len(t) + 3 /\ Len(t) \in Nat
  OBVIOUS
<1>2. u \in Seq(CallType) /\ u # <<>>
  OBVIOUS
<1>3. u[1] = a /\ u[2] = b /\ u[3] = c
  OBVIOUS
<1>4. ASSUME NEW k \in 4 .. Len(u)
      PROVE  k - 3 \in 1 .. Len(t) /\ u[k] = t[k - 3]
  BY <1>1
<1> QED
  BY <1>1, <1>2, <1>3, <1>4 DEF Above

LEMMA Fields ==
  ASSUME NEW c \in CallType
  PROVE  c.do \in {"sort", "merge"} /\ c.lo \in Nat /\ c.n \in Nat /\ c.to \in Arrays
BY DEF CallType

LEMMA HalfWithin ==
  ASSUME NEW l1 \in Nat, NEW n1 \in Nat, NEW l2 \in Nat, NEW n2 \in Nat, NEW h \in Nat, h < n2,
         Within(l1, n1, l2, h) \/ Within(l1, n1, l2 + h, n2 - h)
  PROVE  Within(l1, n1, l2, n2)
BY DEF Within

LEMMA UnderRegion ==
  ASSUME NEW c \in CallType, NEW d \in CallType, Under(c, d), d.do = "merge" => d.n > 1
  PROVE  Apart(c.lo, c.n, d.lo, d.n) \/ Within(c.lo, c.n, d.lo, d.n)
BY Fields, Halved, HalfWithin DEF Under, Half

LEMMA WithinPart ==
  ASSUME NEW l0 \in Nat, NEW n0 \in Nat, NEW l1 \in Nat, NEW n1 \in Nat, NEW l2 \in Nat, NEW n2 \in Nat,
         Within(l0, n0, l1, n1)
  PROVE  /\ Within(l1, n1, l2, n2) => Within(l0, n0, l2, n2)
         /\ Apart(l1, n1, l2, n2) => Apart(l0, n0, l2, n2)
BY DEF Within, Apart

LEMMA UnderPart ==
  ASSUME NEW b \in CallType, NEW c \in CallType, NEW d \in CallType, Under(c, d),
         Within(b.lo, b.n, c.lo, c.n), d.do = "merge" => d.n > 1
  PROVE  Under(b, d)
<1>1. /\ b.lo \in Nat /\ b.n \in Nat /\ c.lo \in Nat /\ c.n \in Nat /\ d.lo \in Nat /\ d.n \in Nat
  BY Fields
<1>2. CASE Apart(c.lo, c.n, d.lo, d.n)
  BY <1>1, <1>2, WithinPart DEF Under
<1>3. CASE d.do = "merge"
  <2>1. Half(d) \in Nat /\ d.lo + Half(d) \in Nat /\ d.n - Half(d) \in Nat
    BY <1>1, <1>3, Halved DEF Half
  <2>2. CASE Within(c.lo, c.n, d.lo, Half(d))
    BY <1>1, <1>3, <2>1, <2>2, WithinPart DEF Under
  <2>3. CASE Within(c.lo, c.n, d.lo + Half(d), d.n - Half(d))
    <3> DEFINE x == d.lo + Half(d)
               y == d.n - Half(d)
    <3>1. x \in Nat /\ y \in Nat /\ Within(c.lo, c.n, x, y)
      BY <2>1, <2>3
    <3> HIDE DEF x, y
    <3>2. Within(b.lo, b.n, x, y)
      BY <1>1, <3>1, WithinPart
    <3> QED
      BY <1>3, <3>2 DEF Under, x, y
  <2>4. CASE Apart(c.lo, c.n, d.lo, d.n)
    BY <1>2, <2>4
  <2> QED
    BY <2>2, <2>3, <2>4 DEF Under
<1> QED
  BY <1>2, <1>3 DEF Under

LEMMA NestedPop ==
  ASSUME NEW s \in Seq(CallType), s # <<>>, NEW m \in Nat, Nested(s, m)
  PROVE  Nested(Tail(s), m)
<1> DEFINE t == Tail(s)
<1>1. Len(t) \in Nat /\ \A k \in 1 .. Len(t) : k + 1 \in 1 .. Len(s) /\ t[k] = s[k + 1]
  BY Popped
<1> HIDE DEF t
<1>2. \A k \in 1 .. Len(t) : t[k].lo + t[k].n <= m /\ (t[k].do = "merge" => t[k].n > 1)
  BY <1>1 DEF Nested
<1>3. ASSUME NEW k \in 1 .. Len(t), NEW l \in 1 .. Len(t), k < l
      PROVE  Under(t[k], t[l])
  <2>1. k + 1 < l + 1
    BY <1>1, <1>3
  <2> QED
    BY <1>1, <2>1 DEF Nested
<1>4. Nested(t, m)
  BY <1>2, <1>3 DEF Nested
<1> QED
  BY <1>4 DEF t

(* What Divide pushes for the call c. *)
Divided(c) == <<Sorting(c.lo, Half(c), Other(c.to)),
                Sorting(c.lo + Half(c), c.n - Half(c), Other(c.to)),
                Merging(c.lo, c.n, c.to)>>

LEMMA Dividing ==
  ASSUME NEW s \in Seq(CallType), s # <<>>, Head(s).n > 1,
         NEW u, u = Divided(Head(s)) \o Tail(s)
  PROVE  /\ u \in Seq(CallType) /\ Len(u) \in Nat /\ Len(u) = Len(s) + 2 /\ u # <<>>
         /\ u[1] = Sorting(s[1].lo, Half(s[1]), Other(s[1].to))
         /\ u[2] = Sorting(s[1].lo + Half(s[1]), s[1].n - Half(s[1]), Other(s[1].to))
         /\ u[3] = Merging(s[1].lo, s[1].n, s[1].to)
         /\ \A k \in 4 .. Len(u) : k - 2 \in 2 .. Len(s) /\ u[k] = s[k - 2]
<1> DEFINE c == Head(s)
           a1 == Sorting(c.lo, Half(c), Other(c.to))
           a2 == Sorting(c.lo + Half(c), c.n - Half(c), Other(c.to))
           a3 == Merging(c.lo, c.n, c.to)
           t == Tail(s)
<1>1. /\ c = s[1] /\ c \in CallType /\ t \in Seq(CallType) /\ Len(s) \in Nat /\ Len(t) = Len(s) - 1
      /\ \A k \in 1 .. Len(t) : k + 1 \in 1 .. Len(s) /\ t[k] = s[k + 1]
  BY Popped
<1>2. c.lo \in Nat /\ c.n \in Nat /\ c.to \in Arrays /\ Other(c.to) \in Arrays
  BY <1>1, Fields DEF Other, Arrays
<1>3. Half(c) \in Nat /\ c.lo + Half(c) \in Nat /\ c.n - Half(c) \in Nat
  <2>1. c.n > 1
    BY <1>1
  <2>2. PICK h : h = Half(c)
    OBVIOUS
  <2>3. h \in Nat /\ 0 < h /\ h < c.n
    BY <1>2, <2>1, <2>2, Halved DEF Half
  <2> QED
    BY <1>2, <2>2, <2>3
<1>4. a1 \in CallType /\ a2 \in CallType /\ a3 \in CallType
  BY <1>2, <1>3 DEF CallType, Sorting, Merging
<1>5. u = <<a1, a2, a3>> \o t
  BY DEF Divided
<1> HIDE DEF c, a1, a2, a3, t
<1>6. /\ u \in Seq(CallType) /\ Len(u) \in Nat /\ Len(u) = Len(t) + 3 /\ u # <<>>
      /\ u[1] = a1 /\ u[2] = a2 /\ u[3] = a3
      /\ \A k \in 4 .. Len(u) : k - 3 \in 1 .. Len(t) /\ u[k] = t[k - 3]
  <2>1. Above(u, a1, a2, a3, t)
    BY <1>1, <1>4, <1>5, Pushed
  <2> QED
    BY <2>1 DEF Above
<1>7. ASSUME NEW k \in 4 .. Len(u)
      PROVE  k - 2 \in 2 .. Len(s) /\ u[k] = s[k - 2]
  <2>1. k - 3 \in 1 .. Len(t) /\ u[k] = t[k - 3]
    BY <1>6
  <2>2. PICK p \in 1 .. Len(t) : p = k - 3
    BY <2>1
  <2>3. p + 1 \in 1 .. Len(s) /\ t[p] = s[p + 1]
    BY <1>1
  <2>4. p + 1 = k - 2 /\ p + 1 \in 2 .. Len(s)
    <3>1. Len(s) \in Nat /\ p \in Int /\ 1 <= p /\ k \in Int
      BY <1>1, <1>6
    <3> QED
      BY <2>2, <2>3, <3>1
  <2> QED
    BY <2>1, <2>2, <2>3, <2>4
<1>8. Len(u) = Len(s) + 2
  BY <1>1, <1>6
<1> QED
  BY <1>1, <1>6, <1>7, <1>8 DEF a1, a2, a3

LEMMA Parts ==
  ASSUME NEW lo \in Nat, NEW n \in Nat, NEW h \in Nat, h < n
  PROVE  /\ Within(lo, h, lo, n) /\ Within(lo + h, n - h, lo, n) /\ Within(lo, n, lo, n)
         /\ Apart(lo, h, lo + h, n - h)
         /\ Within(lo, h, lo, h) /\ Within(lo + h, n - h, lo + h, n - h)
BY DEF Within, Apart

LEMMA NestedDivide ==
  ASSUME NEW s \in Seq(CallType), s # <<>>, NEW m \in Nat, Nested(s, m), Head(s).n > 1,
         NEW u, u = Divided(Head(s)) \o Tail(s)
  PROVE  Nested(u, m)
<1> DEFINE lo == s[1].lo
           n == s[1].n
           h == Half(s[1])
<1>1. s[1] \in CallType /\ Head(s) = s[1] /\ 1 \in 1 .. Len(s) /\ Len(s) \in Nat
  BY Popped
<1>2. lo \in Nat /\ n \in Nat /\ lo + n <= m /\ n > 1
  BY <1>1, Fields DEF Nested
<1>3. h \in Nat /\ 0 < h /\ h < n
  BY <1>2, Halved DEF Half
<1>4. /\ u \in Seq(CallType) /\ Len(u) \in Nat /\ Len(u) = Len(s) + 2
      /\ u[1] = Sorting(lo, h, Other(s[1].to)) /\ u[2] = Sorting(lo + h, n - h, Other(s[1].to))
      /\ u[3] = Merging(lo, n, s[1].to)
      /\ \A k \in 4 .. Len(u) : k - 2 \in 2 .. Len(s) /\ u[k] = s[k - 2]
  BY Dividing
<1>5. /\ u[1].lo = lo /\ u[1].n = h /\ u[1].do = "sort"
      /\ u[2].lo = lo + h /\ u[2].n = n - h /\ u[2].do = "sort"
      /\ u[3].lo = lo /\ u[3].n = n /\ u[3].do = "merge" /\ Half(u[3]) = h
  BY <1>4 DEF Sorting, Merging, Half
<1>6. Within(u[1].lo, u[1].n, lo, n) /\ Within(u[2].lo, u[2].n, lo, n) /\ Within(u[3].lo, u[3].n, lo, n)
  <2>1. Within(lo, h, lo, n) /\ Within(lo + h, n - h, lo, n) /\ Within(lo, n, lo, n)
    BY <1>2, <1>3, Parts
  <2> QED
    BY <1>5, <2>1
<1>7. \A k \in 1 .. Len(u) : k \in {1, 2, 3} \/ k \in 4 .. Len(u)
  <2>1. Len(u) \in Nat
    BY <1>4
  <2> QED
    BY <2>1
<1>8. \A k \in 2 .. Len(s) : k \in 1 .. Len(s) /\ 1 < k
  BY <1>1
<1>9. \A k \in 1 .. Len(u) : u[k] \in CallType
  BY <1>4
<1>10. ASSUME NEW k \in 1 .. Len(u)
       PROVE  u[k].lo + u[k].n <= m /\ (u[k].do = "merge" => u[k].n > 1)
  <2>1. CASE k \in {1, 2, 3}
    <3>1. u[k].do = "merge" => u[k].n > 1
      BY <1>2, <1>5, <2>1, SMTT(30)
    <3>2. Within(u[k].lo, u[k].n, lo, n) /\ u[k].lo \in Nat /\ u[k].n \in Nat
      BY <1>6, <1>9, <2>1, Fields
    <3> HIDE DEF lo, n
    <3>3. PICK p, q : p = u[k].lo /\ q = u[k].n
      OBVIOUS
    <3>4. u[k].lo + u[k].n <= m
      <4>1. Within(p, q, lo, n) /\ p \in Nat /\ q \in Nat
        BY <3>2, <3>3
      <4>2. p + q <= m
        BY <1>2, <4>1 DEF Within
      <4> QED
        BY <3>3, <4>2
    <3> QED
      BY <3>1, <3>4
  <2>2. CASE k \in 4 .. Len(u)
    BY <1>4, <1>8, <2>2 DEF Nested
  <2> QED
    BY <1>7, <2>1, <2>2
<1>11. ASSUME NEW k \in 1 .. Len(u), NEW l \in 1 .. Len(u), k < l
       PROVE  Under(u[k], u[l])
  <2>1. CASE l \in 4 .. Len(u)
    <3>1. l - 2 \in 1 .. Len(s) /\ 1 < l - 2 /\ u[l] = s[l - 2]
      BY <1>4, <1>8, <2>1
    <3>2. CASE k \in {1, 2, 3}
      <4>1. Under(s[1], u[l]) /\ (u[l].do = "merge" => u[l].n > 1)
        BY <1>1, <3>1 DEF Nested
      <4> QED
        BY <1>1, <1>6, <1>9, <3>2, <4>1, UnderPart
    <3>3. CASE k \in 4 .. Len(u)
      <4>1. k - 2 \in 1 .. Len(s) /\ u[k] = s[k - 2]
        BY <1>4, <1>8, <3>3
      <4>2. k - 2 < l - 2
        BY <1>11
      <4> QED
        BY <3>1, <4>1, <4>2 DEF Nested
    <3> QED
      BY <1>7, <3>2, <3>3
  <2>2. CASE l \in {1, 2, 3}
    <3>1. (k = 1 /\ l = 2) \/ (k = 1 /\ l = 3) \/ (k = 2 /\ l = 3)
      BY <1>11, <2>2
    <3>2. Apart(u[1].lo, u[1].n, u[2].lo, u[2].n)
      <4>1. Apart(lo, h, lo + h, n - h)
        BY <1>2, <1>3, Parts
      <4> QED
        BY <1>5, <4>1
    <3>3. Within(u[1].lo, u[1].n, lo, h) /\ Within(u[2].lo, u[2].n, lo + h, n - h)
      <4>1. Within(lo, h, lo, h) /\ Within(lo + h, n - h, lo + h, n - h)
        BY <1>2, <1>3, Parts
      <4> QED
        BY <1>5, <4>1
    <3> QED
      BY <1>5, <3>1, <3>2, <3>3 DEF Under
  <2> QED
    BY <1>7, <2>1, <2>2
<1> QED
  BY <1>10, <1>11 DEF Nested

-----------------------------------------------------------------------------
(* What is sorted already *)

(* The part is left to one of the first mm calls. *)
Pending(s, mm, lo, n, a) == \E k \in 1 .. mm : s[k].lo = lo /\ s[k].n = n /\ s[k].to = a

(* None of the first mm calls is for some of the part. *)
Free(s, mm, lo, n) == \A k \in 1 .. mm : Apart(s[k].lo, s[k].n, lo, n)

Finished(r, v, ok, lo, n) ==
    /\ \A p \in Region(lo, n) : v[p] \in Region(lo, n)
    /\ ok => SortedOn(r, v, lo, n)

Seen(s, mm, r, v, ok, lo, n, a) ==
    Pending(s, mm, lo, n, a) \/ (Free(s, mm, lo, n) /\ Finished(r, v[a], ok, lo, n))

(* The list, and the halves of each merge, are sorted or are going to be   *)
(* before they are needed.                                                 *)
AllSeen(s, r, v, ok, m) ==
    /\ Seen(s, Len(s), r, v, ok, 0, m, "main")
    /\ \A l \in 1 .. Len(s) : s[l].do = "merge" =>
          /\ Seen(s, l - 1, r, v, ok, s[l].lo, Half(s[l]), Other(s[l].to))
          /\ Seen(s, l - 1, r, v, ok, s[l].lo + Half(s[l]), s[l].n - Half(s[l]), Other(s[l].to))

(* A step writes only to the places of the call c, in its array. *)
WritesOnly(c, m, v, w) ==
    /\ \A p \in 0 .. m - 1 : p \notin Region(c.lo, c.n) => \A a \in Arrays : w[a][p] = v[a][p]
    /\ w[Other(c.to)] = v[Other(c.to)]

LEMMA FinishedKept ==
  ASSUME NEW r, NEW v, NEW w, NEW ok, NEW ok2, ok2 => ok, NEW lo, NEW n,
         \A p \in Region(lo, n) : w[p] = v[p], Finished(r, v, ok, lo, n)
  PROVE  Finished(r, w, ok2, lo, n)
BY DEF Finished, SortedOn

LEMMA ApartRegion ==
  ASSUME NEW l1 \in Nat, NEW n1 \in Nat, NEW l2 \in Nat, NEW n2 \in Nat, Apart(l1, n1, l2, n2)
  PROVE  \A p \in Region(l2, n2) : p \in Int /\ p \notin Region(l1, n1)
BY DEF Apart, Region

LEMMA SeenStays ==
  ASSUME NEW s \in Seq(CallType), s # <<>>, NEW m \in Nat, NEW mm \in 1 .. Len(s), NEW r, NEW v, NEW w,
         NEW ok, NEW ok2, ok2 => ok, WritesOnly(s[1], m, v, w),
         NEW lo \in Nat, NEW n \in Nat, lo + n <= m, NEW a \in Arrays, Seen(s, mm, r, v, ok, lo, n, a)
  PROVE  Seen(s, mm, r, w, ok2, lo, n, a)
<1>1. CASE Pending(s, mm, lo, n, a)
  BY <1>1 DEF Seen
<1>2. CASE Free(s, mm, lo, n) /\ Finished(r, v[a], ok, lo, n)
  <2>1. s[1] \in CallType /\ 1 \in 1 .. mm
    BY Popped
  <2>2. Apart(s[1].lo, s[1].n, lo, n)
    BY <1>2, <2>1 DEF Free
  <2>3. ASSUME NEW p \in Region(lo, n)
        PROVE  w[a][p] = v[a][p]
    <3>1. p \in 0 .. m - 1
      BY DEF Region
    <3>2. p \notin Region(s[1].lo, s[1].n)
      BY <2>1, <2>2, ApartRegion, Fields
    <3> QED
      BY <3>1, <3>2 DEF WritesOnly
  <2>4. Finished(r, w[a], ok2, lo, n)
    BY <1>2, <2>3, FinishedKept
  <2> QED
    BY <1>2, <2>4 DEF Seen
<1> QED
  BY <1>1, <1>2 DEF Seen

LEMMA SeenPop ==
  ASSUME NEW s \in Seq(CallType), s # <<>>, NEW m \in Nat, NEW mm \in 1 .. Len(s), NEW r, NEW v, NEW w,
         NEW ok, NEW ok2, ok2 => ok, WritesOnly(s[1], m, v, w),
         Finished(r, w[s[1].to], ok2, s[1].lo, s[1].n),
         NEW lo \in Nat, NEW n \in Nat, lo + n <= m, NEW a \in Arrays, Seen(s, mm, r, v, ok, lo, n, a),
         s[1].lo = lo /\ s[1].n = n => \A k \in 2 .. mm : Apart(s[k].lo, s[k].n, lo, n)
  PROVE  Seen(Tail(s), mm - 1, r, w, ok2, lo, n, a)
<1> DEFINE t == Tail(s)
<1>1. /\ 1 \in 1 .. Len(s) /\ Len(s) \in Nat /\ Len(t) = Len(s) - 1
      /\ \A k \in 1 .. Len(t) : k + 1 \in 1 .. Len(s) /\ t[k] = s[k + 1]
  BY Popped
<1> HIDE DEF t
<1>2. \A k \in 1 .. mm - 1 : k + 1 \in 2 .. mm /\ k + 1 \in 1 .. mm /\ t[k] = s[k + 1]
  BY <1>1
<1>3. \A k \in 2 .. mm : k - 1 \in 1 .. mm - 1 /\ t[k - 1] = s[k]
  <2> SUFFICES ASSUME NEW k \in 2 .. mm
               PROVE  k - 1 \in 1 .. mm - 1 /\ t[k - 1] = s[k]
    OBVIOUS
  <2>1. k - 1 \in 1 .. mm - 1
    OBVIOUS
  <2>2. t[k - 1] = s[(k - 1) + 1] /\ (k - 1) + 1 = k
    BY <1>2, <2>1
  <2> QED
    BY <2>1, <2>2
<1>4. CASE Free(s, mm, lo, n) /\ Finished(r, v[a], ok, lo, n)
  <2>1. Free(t, mm - 1, lo, n)
    BY <1>2, <1>4 DEF Free
  <2>2. Seen(s, mm, r, w, ok2, lo, n, a)
    BY SeenStays
  <2>3. CASE Finished(r, w[a], ok2, lo, n)
    BY <2>1, <2>3 DEF Seen, t
  <2>4. CASE Pending(s, mm, lo, n, a)
    <3>1. PICK k \in 1 .. mm : s[k].lo = lo /\ s[k].n = n /\ s[k].to = a
      BY <2>4 DEF Pending
    <3>2. CASE k = 1
      BY <2>1, <3>1, <3>2 DEF Seen, t
    <3>3. CASE k # 1
      <4>1. k \in 2 .. mm
        BY <3>3
      <4>2. Pending(t, mm - 1, lo, n, a)
        BY <1>3, <3>1, <4>1 DEF Pending
      <4> QED
        BY <4>2 DEF Seen, t
    <3> QED
      BY <3>2, <3>3
  <2> QED
    BY <2>2, <2>3, <2>4 DEF Seen
<1>5. CASE Pending(s, mm, lo, n, a)
  <2>1. PICK k \in 1 .. mm : s[k].lo = lo /\ s[k].n = n /\ s[k].to = a
    BY <1>5 DEF Pending
  <2>2. CASE k = 1
    <3>1. Free(t, mm - 1, lo, n)
      BY <1>2, <2>1, <2>2 DEF Free
    <3> QED
      BY <2>1, <2>2, <3>1 DEF Seen, t
  <2>3. CASE k # 1
    <3>1. k \in 2 .. mm
      BY <2>3
    <3>2. Pending(t, mm - 1, lo, n, a)
      BY <1>3, <2>1, <3>1 DEF Pending
    <3> QED
      BY <3>2 DEF Seen, t
  <2> QED
    BY <2>2, <2>3
<1> QED
  BY <1>4, <1>5 DEF Seen

(* Of the calls between a merge and the sort of one of its halves none is  *)
(* for some of that half.                                                  *)
LEMMA HalfAlone ==
  ASSUME NEW c \in CallType, NEW d \in CallType, NEW e \in CallType, Under(c, d), Under(d, e),
         d.do = "merge" => d.n > 1, e.n > 1,
         (c.lo = e.lo /\ c.n = Half(e)) \/ (c.lo = e.lo + Half(e) /\ c.n = e.n - Half(e))
  PROVE  Apart(d.lo, d.n, c.lo, c.n)
<1>1. /\ c.lo \in Nat /\ c.n \in Nat /\ d.lo \in Nat /\ d.n \in Nat /\ e.lo \in Nat /\ e.n \in Nat
  BY Fields
<1>2. Half(e) \in Nat /\ 0 < Half(e) /\ Half(e) < e.n
  BY <1>1, Halved DEF Half
<1>3. CASE Apart(c.lo, c.n, d.lo, d.n)
  BY <1>3 DEF Apart
<1>4. CASE ~Apart(c.lo, c.n, d.lo, d.n)
  <2>1. d.n > 1 /\ (\/ Within(c.lo, c.n, d.lo, Half(d))
                    \/ Within(c.lo, c.n, d.lo + Half(d), d.n - Half(d)))
    BY <1>4 DEF Under
  <2>2. Half(d) \in Nat /\ 0 < Half(d) /\ Half(d) < d.n
    BY <1>1, <2>1, Halved DEF Half
  <2>3. d.lo <= c.lo /\ c.lo + c.n <= d.lo + d.n /\ c.n < d.n
    BY <1>1, <2>1, <2>2 DEF Within
  <2>4. CASE Apart(d.lo, d.n, e.lo, e.n)
    <3>1. 0 < c.n /\ e.lo <= c.lo /\ c.lo + c.n <= e.lo + e.n
      BY <1>1, <1>2
    <3> QED
      BY <1>1, <2>3, <2>4, <3>1 DEF Apart
  <2>5. CASE Within(d.lo, d.n, e.lo, Half(e))
    BY <1>1, <1>2, <2>3, <2>5 DEF Within
  <2>6. CASE Within(d.lo, d.n, e.lo + Half(e), e.n - Half(e))
    BY <1>1, <1>2, <2>3, <2>6 DEF Within
  <2> QED
    BY <2>4, <2>5, <2>6 DEF Under
<1> QED
  BY <1>3, <1>4

LEMMA WholeAlone ==
  ASSUME NEW c \in CallType, NEW d \in CallType, Under(c, d), d.do = "merge" => d.n > 1,
         d.lo + d.n <= c.n, c.lo = 0
  PROVE  Apart(d.lo, d.n, c.lo, c.n)
<1>1. c.n \in Nat /\ d.lo \in Nat /\ d.n \in Nat
  BY Fields
<1>2. CASE Apart(c.lo, c.n, d.lo, d.n)
  BY <1>2 DEF Apart
<1>3. CASE ~Apart(c.lo, c.n, d.lo, d.n)
  <2>1. d.n > 1 /\ (\/ Within(0, c.n, d.lo, Half(d))
                    \/ Within(0, c.n, d.lo + Half(d), d.n - Half(d)))
    BY <1>3 DEF Under
  <2>2. Half(d) \in Nat /\ 0 < Half(d) /\ Half(d) < d.n
    BY <1>1, <2>1, Halved DEF Half
  <2> QED
    BY <1>1, <2>1, <2>2 DEF Within
<1> QED
  BY <1>2, <1>3

LEMMA PartsFit ==
  ASSUME NEW s \in Seq(CallType), NEW m \in Nat, Nested(s, m),
         NEW l \in 1 .. Len(s), s[l].do = "merge"
  PROVE  /\ s[l].lo \in Nat /\ Half(s[l]) \in Nat
         /\ s[l].lo + Half(s[l]) \in Nat /\ s[l].n - Half(s[l]) \in Nat
         /\ s[l].lo + Half(s[l]) <= m /\ (s[l].lo + Half(s[l])) + (s[l].n - Half(s[l])) <= m
<1>1. s[l].lo \in Nat /\ s[l].n \in Nat /\ s[l].n > 1 /\ s[l].lo + s[l].n <= m
  <2>1. s[l] \in CallType
    OBVIOUS
  <2>2. s[l].n > 1 /\ s[l].lo + s[l].n <= m
    BY DEF Nested
  <2> QED
    BY <2>1, <2>2, Fields
<1>2. Half(s[l]) \in Nat /\ Half(s[l]) < s[l].n
  BY <1>1, Halved DEF Half
<1> QED
  BY <1>1, <1>2

LEMMA AllSeenStays ==
  ASSUME NEW s \in Seq(CallType), s # <<>>, NEW m \in Nat, Nested(s, m), NEW r, NEW v, NEW w,
         NEW ok, NEW ok2, ok2 => ok, WritesOnly(s[1], m, v, w), AllSeen(s, r, v, ok, m)
  PROVE  AllSeen(s, r, w, ok2, m)
<1>1. Len(s) \in Nat /\ 1 \in 1 .. Len(s) /\ Len(s) \in 1 .. Len(s)
  <2>1. Len(s) \in Nat /\ 1 \in 1 .. Len(s)
    BY Popped
  <2> QED
    BY <2>1
<1>2. Seen(s, Len(s), r, w, ok2, 0, m, "main")
  <2>1. Seen(s, Len(s), r, v, ok, 0, m, "main") /\ "main" \in Arrays /\ 0 \in Nat /\ 0 + m <= m
    BY DEF AllSeen, Arrays
  <2> QED
    BY <1>1, <2>1, SeenStays
<1>3. ASSUME NEW l \in 1 .. Len(s), s[l].do = "merge", NEW lo \in Nat, NEW n \in Nat, lo + n <= m,
             Seen(s, l - 1, r, v, ok, lo, n, Other(s[l].to))
      PROVE  Seen(s, l - 1, r, w, ok2, lo, n, Other(s[l].to))
  <2>1. CASE l = 1
    <3>1. l - 1 = 0 /\ ~Pending(s, 0, lo, n, Other(s[l].to)) /\ Free(s, 0, lo, n)
      BY <2>1 DEF Pending, Free
    <3>2. Finished(r, v[Other(s[l].to)], ok, lo, n)
      BY <1>3, <3>1 DEF Seen
    <3>3. w[Other(s[l].to)] = v[Other(s[l].to)]
      BY <2>1 DEF WritesOnly
    <3>4. Finished(r, w[Other(s[l].to)], ok2, lo, n)
      BY <3>2, <3>3, FinishedKept
    <3> QED
      BY <3>1, <3>4 DEF Seen
  <2>2. CASE l # 1
    <3>1. l - 1 \in 1 .. Len(s)
      BY <2>2
    <3>2. Other(s[l].to) \in Arrays
      BY DEF Other, Arrays
    <3> QED
      BY <1>3, <3>1, <3>2, SeenStays
  <2> QED
    BY <2>1, <2>2
<1>4. ASSUME NEW l \in 1 .. Len(s), s[l].do = "merge"
      PROVE  /\ s[l].lo \in Nat /\ Half(s[l]) \in Nat
             /\ s[l].lo + Half(s[l]) \in Nat /\ s[l].n - Half(s[l]) \in Nat
             /\ s[l].lo + Half(s[l]) <= m /\ (s[l].lo + Half(s[l])) + (s[l].n - Half(s[l])) <= m
  BY <1>4, PartsFit
<1> QED
  BY <1>2, <1>3, <1>4 DEF AllSeen

LEMMA AllSeenPop ==
  ASSUME NEW s \in Seq(CallType), s # <<>>, NEW m \in Nat, Nested(s, m), NEW r, NEW v, NEW w,
         NEW ok, NEW ok2, ok2 => ok, WritesOnly(s[1], m, v, w), AllSeen(s, r, v, ok, m),
         Finished(r, w[s[1].to], ok2, s[1].lo, s[1].n)
  PROVE  AllSeen(Tail(s), r, w, ok2, m)
<1> DEFINE t == Tail(s)
<1>1. /\ 1 \in 1 .. Len(s) /\ Len(s) \in Nat /\ Len(t) = Len(s) - 1 /\ s[1] \in CallType
      /\ \A k \in 1 .. Len(t) : k + 1 \in 1 .. Len(s) /\ t[k] = s[k + 1]
  BY Popped
<1>2. Seen(t, Len(t), r, w, ok2, 0, m, "main")
  <2>1. Seen(s, Len(s), r, v, ok, 0, m, "main") /\ "main" \in Arrays /\ 0 \in Nat /\ 0 + m <= m
    BY DEF AllSeen, Arrays
  <2>2. ASSUME s[1].lo = 0, s[1].n = m, NEW k \in 2 .. Len(s)
        PROVE  Apart(s[k].lo, s[k].n, 0, m)
    <3>1. k \in 1 .. Len(s) /\ 1 < k
      BY <1>1
    <3>2. Under(s[1], s[k]) /\ s[k].lo + s[k].n <= m /\ (s[k].do = "merge" => s[k].n > 1) /\ s[k] \in CallType
      BY <1>1, <3>1 DEF Nested
    <3> QED
      BY <1>1, <2>2, <3>2, WholeAlone
  <2>3. Len(s) \in 1 .. Len(s)
    BY <1>1
  <2>4. Seen(Tail(s), Len(s) - 1, r, w, ok2, 0, m, "main")
    BY <2>1, <2>2, <2>3, SeenPop
  <2> QED
    BY <1>1, <2>4
<1>3. ASSUME NEW l \in 2 .. Len(s), s[l].do = "merge"
      PROVE  /\ s[l].lo \in Nat /\ Half(s[l]) \in Nat /\ s[l].n > 1
             /\ s[l].lo + Half(s[l]) \in Nat /\ s[l].n - Half(s[l]) \in Nat
             /\ s[l].lo + Half(s[l]) <= m /\ (s[l].lo + Half(s[l])) + (s[l].n - Half(s[l])) <= m
             /\ s[l] \in CallType
  <2>1. l \in 1 .. Len(s)
    BY <1>1
  <2>2. s[l].n > 1 /\ s[l] \in CallType
    BY <1>3, <2>1 DEF Nested
  <2> QED
    BY <1>3, <2>1, <2>2, PartsFit
<1>4. ASSUME NEW l \in 2 .. Len(s), s[l].do = "merge", NEW lo \in Nat, NEW n \in Nat, lo + n <= m,
             (lo = s[l].lo /\ n = Half(s[l])) \/ (lo = s[l].lo + Half(s[l]) /\ n = s[l].n - Half(s[l])),
             Seen(s, l - 1, r, v, ok, lo, n, Other(s[l].to))
      PROVE  Seen(t, l - 1 - 1, r, w, ok2, lo, n, Other(s[l].to))
  <2>1. l \in 1 .. Len(s) /\ l - 1 \in 1 .. Len(s) /\ Other(s[l].to) \in Arrays
    BY <1>1 DEF Other, Arrays
  <2>2. ASSUME s[1].lo = lo, s[1].n = n, NEW k \in 2 .. l - 1
        PROVE  Apart(s[k].lo, s[k].n, lo, n)
    <3>1. k \in 1 .. Len(s) /\ 1 < k /\ k < l
      BY <1>1, <2>1
    <3>2. Under(s[1], s[k]) /\ Under(s[k], s[l]) /\ (s[k].do = "merge" => s[k].n > 1) /\ s[k] \in CallType
      BY <1>1, <2>1, <3>1 DEF Nested
    <3>3. s[l] \in CallType /\ s[l].n > 1
      BY <1>3, <1>4
    <3>4. (s[1].lo = s[l].lo /\ s[1].n = Half(s[l])) \/ (s[1].lo = s[l].lo + Half(s[l]) /\ s[1].n = s[l].n - Half(s[l]))
      BY <1>4, <2>2
    <3>5. Apart(s[k].lo, s[k].n, s[1].lo, s[1].n)
      BY <1>1, <3>2, <3>3, <3>4, HalfAlone
    <3> QED
      BY <2>2, <3>5
  <2>3. Seen(Tail(s), l - 1 - 1, r, w, ok2, lo, n, Other(s[l].to))
    BY <1>4, <2>1, <2>2, SeenPop
  <2> QED
    BY <2>3
<1> HIDE DEF t
<1>5. ASSUME NEW k \in 1 .. Len(t), t[k].do = "merge"
      PROVE  /\ Seen(t, k - 1, r, w, ok2, t[k].lo, Half(t[k]), Other(t[k].to))
             /\ Seen(t, k - 1, r, w, ok2, t[k].lo + Half(t[k]), t[k].n - Half(t[k]), Other(t[k].to))
  <2> DEFINE l == k + 1
  <2>1. l \in 2 .. Len(s) /\ l \in 1 .. Len(s) /\ t[k] = s[l] /\ l - 1 - 1 = k - 1
    BY <1>1
  <2> HIDE DEF l
  <2>2. s[l].do = "merge"
    BY <1>5, <2>1
  <2>3. /\ Seen(s, l - 1, r, v, ok, s[l].lo, Half(s[l]), Other(s[l].to))
        /\ Seen(s, l - 1, r, v, ok, s[l].lo + Half(s[l]), s[l].n - Half(s[l]), Other(s[l].to))
    BY <2>1, <2>2 DEF AllSeen
  <2>4. Seen(t, l - 1 - 1, r, w, ok2, s[l].lo, Half(s[l]), Other(s[l].to))
    BY <1>3, <1>4, <2>1, <2>2, <2>3
  <2>5. Seen(t, l - 1 - 1, r, w, ok2, s[l].lo + Half(s[l]), s[l].n - Half(s[l]), Other(s[l].to))
    BY <1>3, <1>4, <2>1, <2>2, <2>3
  <2> QED
    BY <2>1, <2>4, <2>5
<1>6. AllSeen(t, r, w, ok2, m)
  BY <1>2, <1>5 DEF AllSeen
<1> QED
  BY <1>6 DEF t

LEMMA SeenDivide ==
  ASSUME NEW s \in Seq(CallType), s # <<>>, Head(s).n > 1,
         NEW u, u = Divided(Head(s)) \o Tail(s), NEW mm \in 1 .. Len(s), NEW r, NEW v, NEW ok,
         NEW lo \in Nat, NEW n \in Nat, NEW a, Seen(s, mm, r, v, ok, lo, n, a)
  PROVE  Seen(u, mm + 2, r, v, ok, lo, n, a)
<1> DEFINE c == s[1]
           h == Half(s[1])
<1>1. c \in CallType /\ Head(s) = c /\ 1 \in 1 .. Len(s) /\ Len(s) \in Nat
  BY Popped
<1>2. c.lo \in Nat /\ c.n \in Nat /\ c.n > 1
  BY <1>1, Fields
<1>3. h \in Nat /\ 0 < h /\ h < c.n
  BY <1>2, Halved DEF Half
<1>4. /\ u[1] = Sorting(c.lo, h, Other(c.to)) /\ u[2] = Sorting(c.lo + h, c.n - h, Other(c.to))
      /\ u[3] = Merging(c.lo, c.n, c.to) /\ Len(u) = Len(s) + 2
      /\ \A k \in 4 .. Len(u) : k - 2 \in 2 .. Len(s) /\ u[k] = s[k - 2]
  BY Dividing
<1>5. /\ u[1].lo = c.lo /\ u[1].n = h
      /\ u[2].lo = c.lo + h /\ u[2].n = c.n - h
      /\ u[3].lo = c.lo /\ u[3].n = c.n /\ u[3].to = c.to
  BY <1>4 DEF Sorting, Merging
<1>6. /\ Within(c.lo, h, c.lo, c.n) /\ Within(c.lo + h, c.n - h, c.lo, c.n)
      /\ c.lo + h \in Nat /\ c.n - h \in Nat
  <2>1. c.lo + h \in Nat /\ c.n - h \in Nat
    BY <1>2, <1>3
  <2> HIDE DEF c, h
  <2>2. Within(c.lo, h, c.lo, c.n) /\ Within(c.lo + h, c.n - h, c.lo, c.n)
    BY <1>2, <1>3, Parts
  <2> QED
    BY <2>1, <2>2
<1> HIDE DEF c, h
<1>7. CASE Pending(s, mm, lo, n, a)
  <2>1. PICK k \in 1 .. mm : s[k].lo = lo /\ s[k].n = n /\ s[k].to = a
    BY <1>7 DEF Pending
  <2>2. CASE k = 1
    <3>1. 3 \in 1 .. mm + 2
      OBVIOUS
    <3> QED
      BY <1>5, <2>1, <2>2, <3>1 DEF Seen, Pending, c
  <2>3. CASE k # 1
    <3>1. k + 2 \in 1 .. mm + 2 /\ k + 2 \in 4 .. Len(u) /\ (k + 2) - 2 = k
      BY <1>1, <1>4, <2>3
    <3>2. u[k + 2] = s[k]
      BY <1>4, <3>1
    <3> QED
      BY <2>1, <3>1, <3>2 DEF Seen, Pending
  <2> QED
    BY <2>2, <2>3
<1>8. CASE Free(s, mm, lo, n) /\ Finished(r, v[a], ok, lo, n)
  <2>1. Apart(c.lo, c.n, lo, n)
    BY <1>8 DEF Free, c
  <2>2. Apart(c.lo, h, lo, n) /\ Apart(c.lo + h, c.n - h, lo, n)
    BY <1>2, <1>3, <1>6, <2>1, WithinPart
  <2>3. ASSUME NEW k \in 1 .. mm + 2
        PROVE  Apart(u[k].lo, u[k].n, lo, n)
    <3>1. CASE k \in {1, 2, 3}
      BY <1>5, <2>1, <2>2, <3>1
    <3>2. CASE k \in 4 .. mm + 2
      <4>1. k \in 4 .. Len(u) /\ k - 2 \in 1 .. mm
        BY <1>1, <1>4, <3>2
      <4> QED
        BY <1>4, <1>8, <4>1 DEF Free
    <3>3. k \in {1, 2, 3} \/ k \in 4 .. mm + 2
      BY <1>1
    <3> QED
      BY <3>1, <3>2, <3>3
  <2> QED
    BY <1>8, <2>3 DEF Seen, Free
<1> QED
  BY <1>7, <1>8 DEF Seen

LEMMA AllSeenDivide ==
  ASSUME NEW s \in Seq(CallType), s # <<>>, NEW m \in Nat, Nested(s, m), Head(s).n > 1,
         NEW u, u = Divided(Head(s)) \o Tail(s), NEW r, NEW v, NEW ok, AllSeen(s, r, v, ok, m)
  PROVE  AllSeen(u, r, v, ok, m)
<1> DEFINE c == s[1]
           h == Half(s[1])
<1>1. c \in CallType /\ Head(s) = c /\ 1 \in 1 .. Len(s) /\ Len(s) \in Nat
  BY Popped
<1>4. /\ u[1] = Sorting(c.lo, h, Other(c.to)) /\ u[2] = Sorting(c.lo + h, c.n - h, Other(c.to))
      /\ u[3] = Merging(c.lo, c.n, c.to) /\ Len(u) = Len(s) + 2
      /\ \A k \in 4 .. Len(u) : k - 2 \in 2 .. Len(s) /\ u[k] = s[k - 2]
  BY Dividing
<1>5. /\ u[1].lo = c.lo /\ u[1].n = h /\ u[1].to = Other(c.to) /\ u[1].do = "sort"
      /\ u[2].lo = c.lo + h /\ u[2].n = c.n - h /\ u[2].to = Other(c.to) /\ u[2].do = "sort"
      /\ u[3].lo = c.lo /\ u[3].n = c.n /\ u[3].to = c.to /\ Half(u[3]) = h
  BY <1>4 DEF Sorting, Merging, Half
<1>6. Seen(u, Len(u), r, v, ok, 0, m, "main")
  <2>1. Seen(s, Len(s), r, v, ok, 0, m, "main") /\ 0 \in Nat /\ Len(s) \in 1 .. Len(s)
    BY <1>1 DEF AllSeen
  <2>2. Seen(u, Len(s) + 2, r, v, ok, 0, m, "main")
    BY <2>1, SeenDivide
  <2> QED
    BY <1>4, <2>2
<1>7. ASSUME NEW k \in 1 .. Len(u), u[k].do = "merge"
      PROVE  /\ Seen(u, k - 1, r, v, ok, u[k].lo, Half(u[k]), Other(u[k].to))
             /\ Seen(u, k - 1, r, v, ok, u[k].lo + Half(u[k]), u[k].n - Half(u[k]), Other(u[k].to))
  <2>1. CASE k \in {1, 2}
    BY <1>5, <1>7, <2>1
  <2>2. CASE k = 3
    <3>1. 1 \in 1 .. k - 1 /\ 2 \in 1 .. k - 1
      BY <2>2
    <3> HIDE DEF c, h
    <3> QED
      BY <1>5, <2>2, <3>1 DEF Seen, Pending
  <2>3. CASE k \in 4 .. Len(u)
    <3> DEFINE l == k - 2
    <3>1. l \in 1 .. Len(s) /\ u[k] = s[l] /\ l - 1 \in 1 .. Len(s) /\ (l - 1) + 2 = k - 1
      BY <1>1, <1>4, <2>3
    <3> HIDE DEF l
    <3>2. /\ Seen(s, l - 1, r, v, ok, s[l].lo, Half(s[l]), Other(s[l].to))
          /\ Seen(s, l - 1, r, v, ok, s[l].lo + Half(s[l]), s[l].n - Half(s[l]), Other(s[l].to))
      BY <1>7, <3>1 DEF AllSeen
    <3>3. s[l].lo \in Nat /\ s[l].n \in Nat /\ s[l].n > 1
      <4>1. s[l] \in CallType
        BY <1>1, <3>1
      <4>2. s[l].n > 1
        BY <1>7, <3>1 DEF Nested
      <4> QED
        BY <4>1, <4>2, Fields
    <3>4. Half(s[l]) \in Nat /\ s[l].lo + Half(s[l]) \in Nat /\ s[l].n - Half(s[l]) \in Nat
      <4>1. Half(s[l]) \in Nat /\ Half(s[l]) < s[l].n
        BY <3>3, Halved DEF Half
      <4> QED
        BY <3>3, <4>1
    <3>5. Seen(u, (l - 1) + 2, r, v, ok, s[l].lo, Half(s[l]), Other(s[l].to))
      BY <3>1, <3>2, <3>3, <3>4, SeenDivide
    <3>6. Seen(u, (l - 1) + 2, r, v, ok, s[l].lo + Half(s[l]), s[l].n - Half(s[l]), Other(s[l].to))
      BY <3>1, <3>2, <3>3, <3>4, SeenDivide
    <3> QED
      BY <3>1, <3>5, <3>6
  <2>4. k \in {1, 2} \/ k = 3 \/ k \in 4 .. Len(u)
    BY <1>1, <1>4
  <2> QED
    BY <2>1, <2>2, <2>3, <2>4
<1> QED
  BY <1>6, <1>7 DEF AllSeen

-----------------------------------------------------------------------------
(* What the arrays hold *)

(* The array holds every place once, and what belongs to a pending call is *)
(* where that call expects it.                                             *)
Kept(v, m, s) == Onto(v, m) /\ \A k \in 1 .. Len(s) : Respects(v, m, s[k].lo, s[k].n)

Fresh(v, lo, n) == \A p \in Region(lo, n) : v[p] = p

(* What is still to be sorted is as it was in the beginning, in both       *)
(* arrays.  The first call counts only before it has begun.                *)
AllFresh(s, v, first) ==
    \A k \in 1 .. Len(s) : s[k].do = "sort" /\ (k > 1 \/ first) =>
        \A a \in Arrays : Fresh(v[a], s[k].lo, s[k].n)

LEMMA KeptStays ==
  ASSUME NEW s \in Seq(CallType), s # <<>>, NEW m \in Nat, Nested(s, m),
         NEW v, NEW w, Kept(v, m, s), Rearranged(v, w, m, s[1].lo, s[1].n)
  PROVE  Kept(w, m, s)
<1>1. s[1] \in CallType /\ 1 \in 1 .. Len(s) /\ Len(s) \in Nat
  BY Popped
<1>2. s[1].lo \in Nat /\ s[1].n \in Nat
  BY <1>1, Fields
<1>3. s[1].lo + s[1].n <= m
  BY <1>1 DEF Nested
<1>4. Onto(w, m)
  BY <1>2, <1>3, RearrangedOnto DEF Kept
<1>5. ASSUME NEW k \in 1 .. Len(s)
      PROVE  Respects(w, m, s[k].lo, s[k].n)
  <2>1. s[k] \in CallType /\ s[k].lo \in Nat /\ s[k].n \in Nat
    BY Fields
  <2>2. Apart(s[1].lo, s[1].n, s[k].lo, s[k].n) \/ Within(s[1].lo, s[1].n, s[k].lo, s[k].n)
    <3>1. CASE k = 1
      BY <1>2, <3>1 DEF Within
    <3>2. CASE k # 1
      <4>1. 1 < k
        BY <3>2
      <4>2. Under(s[1], s[k]) /\ (s[k].do = "merge" => s[k].n > 1)
        BY <1>1, <4>1 DEF Nested
      <4> QED
        BY <1>1, <2>1, <4>2, UnderRegion
    <3> QED
      BY <3>1, <3>2
  <2>3. Respects(v, m, s[k].lo, s[k].n)
    BY DEF Kept
  <2> QED
    BY <1>2, <1>3, <2>1, <2>2, <2>3, RearrangedRespects
<1> QED
  BY <1>4, <1>5 DEF Kept

LEMMA KeptPop ==
  ASSUME NEW s \in Seq(CallType), s # <<>>, NEW m, NEW v, Kept(v, m, s)
  PROVE  Kept(v, m, Tail(s))
<1>1. \A k \in 1 .. Len(Tail(s)) : k + 1 \in 1 .. Len(s) /\ Tail(s)[k] = s[k + 1]
  BY Popped
<1> QED
  BY <1>1 DEF Kept

LEMMA RegionPart ==
  ASSUME NEW l1 \in Nat, NEW n1 \in Nat, NEW l2 \in Nat, NEW n2 \in Nat, Within(l1, n1, l2, n2)
  PROVE  Region(l1, n1) \subseteq Region(l2, n2)
BY DEF Region, Within

LEMMA FreshRespects ==
  ASSUME NEW m \in Nat, NEW lo \in Nat, NEW n \in Nat, NEW v,
         Respects(v, m, lo, n), Fresh(v, lo, n), NEW l2 \in Nat, NEW n2 \in Nat, Within(l2, n2, lo, n)
  PROVE  Respects(v, m, l2, n2) /\ Fresh(v, l2, n2)
<1>1. Region(l2, n2) \subseteq Region(lo, n)
  BY DEF Region, Within
<1> QED
  BY <1>1 DEF Respects, Fresh

LEMMA FreshDivide ==
  ASSUME NEW s \in Seq(CallType), s # <<>>, NEW m \in Nat, Nested(s, m),
         Head(s).n > 1, Head(s).do = "sort",
         NEW u, u = Divided(Head(s)) \o Tail(s), NEW v, AllFresh(s, v, TRUE)
  PROVE  /\ AllFresh(u, v, TRUE)
         /\ \A a \in Arrays : Kept(v[a], m, s) => Kept(v[a], m, u)
<1> DEFINE c == s[1]
           h == Half(s[1])
<1>1. c \in CallType /\ Head(s) = c /\ 1 \in 1 .. Len(s) /\ Len(s) \in Nat
  BY Popped
<1>2. c.lo \in Nat /\ c.n \in Nat /\ c.n > 1 /\ c.do = "sort"
  BY <1>1, Fields
<1>3. h \in Nat /\ 0 < h /\ h < c.n
  BY <1>2, Halved DEF Half
<1>4. /\ u[1] = Sorting(c.lo, h, Other(c.to)) /\ u[2] = Sorting(c.lo + h, c.n - h, Other(c.to))
      /\ u[3] = Merging(c.lo, c.n, c.to) /\ Len(u) = Len(s) + 2
      /\ \A k \in 4 .. Len(u) : k - 2 \in 2 .. Len(s) /\ u[k] = s[k - 2]
  BY Dividing
<1>5. /\ u[1].lo = c.lo /\ u[1].n = h
      /\ u[2].lo = c.lo + h /\ u[2].n = c.n - h
      /\ u[3].lo = c.lo /\ u[3].n = c.n
  BY <1>4 DEF Sorting, Merging
<1>6. c.lo + h \in Nat /\ c.n - h \in Nat
  BY <1>2, <1>3
<1>7. \A a \in Arrays : Fresh(v[a], c.lo, c.n)
  BY <1>1, <1>2 DEF AllFresh
<1>8. \A k \in 1 .. Len(u) : k \in {1, 2, 3} \/ k \in 4 .. Len(u)
  <2>1. Len(u) \in Nat
    BY <1>1, <1>4
  <2> QED
    BY <2>1
<1>9. \A k \in 4 .. Len(u) : k - 2 \in 1 .. Len(s) /\ k - 2 > 1 /\ u[k] = s[k - 2]
  <2>1. \A x \in 2 .. Len(s) : x \in 1 .. Len(s) /\ x > 1
    BY <1>1
  <2> QED
    BY <1>4, <2>1
<1> HIDE DEF c, h
<1>10. \A k \in {1, 2, 3} : u[k].lo \in Nat /\ u[k].n \in Nat /\ Within(u[k].lo, u[k].n, c.lo, c.n)
  <2>1. Within(c.lo, h, c.lo, c.n) /\ Within(c.lo + h, c.n - h, c.lo, c.n) /\ Within(c.lo, c.n, c.lo, c.n)
    BY <1>2, <1>3, Parts
  <2> QED
    BY <1>2, <1>3, <1>5, <1>6, <2>1
<1>11. ASSUME NEW k \in {1, 2, 3}, NEW a \in Arrays
       PROVE  Fresh(v[a], u[k].lo, u[k].n)
  <2>1. Region(u[k].lo, u[k].n) \subseteq Region(c.lo, c.n)
    <3> DEFINE l1 == u[k].lo
               n1 == u[k].n
               l2 == c.lo
               n2 == c.n
    <3>1. l1 \in Nat /\ n1 \in Nat /\ l2 \in Nat /\ n2 \in Nat /\ Within(l1, n1, l2, n2)
      BY <1>2, <1>10
    <3> HIDE DEF l1, n1, l2, n2
    <3>2. Region(l1, n1) \subseteq Region(l2, n2)
      BY <3>1, RegionPart
    <3> QED
      BY <3>2 DEF l1, n1, l2, n2
  <2> QED
    BY <1>7, <2>1 DEF Fresh
<1>12. AllFresh(u, v, TRUE)
  <2> SUFFICES ASSUME NEW k \in 1 .. Len(u), u[k].do = "sort", NEW a \in Arrays
               PROVE  Fresh(v[a], u[k].lo, u[k].n)
    BY DEF AllFresh
  <2>1. CASE k \in {1, 2, 3}
    BY <1>11, <2>1
  <2>2. CASE k \in 4 .. Len(u)
    BY <1>9, <2>2 DEF AllFresh
  <2> QED
    BY <1>8, <2>1, <2>2
<1>13. ASSUME NEW a \in Arrays, Kept(v[a], m, s)
       PROVE  Kept(v[a], m, u)
  <2> SUFFICES ASSUME NEW k \in 1 .. Len(u)
               PROVE  Respects(v[a], m, u[k].lo, u[k].n)
    BY <1>13 DEF Kept
  <2>1. CASE k \in {1, 2, 3}
    <3>1. Respects(v[a], m, c.lo, c.n)
      BY <1>1, <1>13 DEF Kept, c
    <3> QED
      BY <1>2, <1>7, <1>10, <2>1, <3>1, FreshRespects
  <2>2. CASE k \in 4 .. Len(u)
    BY <1>9, <1>13, <2>2 DEF Kept
  <2> QED
    BY <1>8, <2>1, <2>2
<1> QED
  BY <1>12, <1>13

LEMMA FreshStays ==
  ASSUME NEW s \in Seq(CallType), s # <<>>, NEW m \in Nat, Nested(s, m),
         NEW v, NEW w, NEW first, AllFresh(s, v, first), WritesOnly(s[1], m, v, w)
  PROVE  AllFresh(s, w, FALSE)
<1> SUFFICES ASSUME NEW k \in 1 .. Len(s), s[k].do = "sort", k > 1, NEW a \in Arrays,
                    NEW p \in Region(s[k].lo, s[k].n)
             PROVE  w[a][p] = p
  BY DEF AllFresh, Fresh
<1>1. s[1] \in CallType /\ 1 \in 1 .. Len(s) /\ s[k] \in CallType
  BY Popped
<1>2. s[1].lo \in Nat /\ s[1].n \in Nat /\ s[k].lo \in Nat /\ s[k].n \in Nat
  BY <1>1, Fields
<1>3. Under(s[1], s[k]) /\ s[k].lo + s[k].n <= m
  BY <1>1 DEF Nested
<1>4. Apart(s[1].lo, s[1].n, s[k].lo, s[k].n)
  BY <1>3 DEF Under
<1>5. p \in 0 .. m - 1
  BY <1>2, <1>3 DEF Region
<1>6. p \notin Region(s[1].lo, s[1].n)
  BY <1>2, <1>4, ApartRegion
<1>7. v[a][p] = p
  BY DEF AllFresh, Fresh
<1> QED
  BY <1>5, <1>6, <1>7 DEF WritesOnly

LEMMA FreshPop ==
  ASSUME NEW s \in Seq(CallType), s # <<>>, NEW v, AllFresh(s, v, FALSE)
  PROVE  AllFresh(Tail(s), v, TRUE)
<1>1. \A k \in 1 .. Len(Tail(s)) : k + 1 \in 1 .. Len(s) /\ k + 1 > 1 /\ Tail(s)[k] = s[k + 1]
  BY Popped
<1> QED
  BY <1>1 DEF AllFresh

-----------------------------------------------------------------------------
(* The invariant *)

Ok == honest /\ ~skipped

Types ==
    /\ rank \in Lists /\ honest \in BOOLEAN /\ skipped \in BOOLEAN
    /\ elems \in [Arrays -> [Places -> Places]]
    /\ pc \in Pcs
    /\ todo \in Seq(CallType)
    /\ i \in Int /\ j \in Int

Together == keys = elems /\ held.k = held.e

Loops ==
    /\ pc \notin {"next", "sorted"} => todo # <<>>
    /\ pc \in {"next", "check", "sorted"} => i = 0 /\ j = 0
    /\ pc = "sorted" => todo = <<>>
    /\ pc = "insert" => Call.do = "sort"
    /\ pc \in {"check", "merge"} => Call.do = "merge"
    /\ InInsertion => 0 < i /\ i < Call.n /\ -1 <= j /\ j < i /\ held.e = Call.lo + i
    /\ InMerge => 0 <= i /\ i <= An /\ 0 <= j /\ j <= Bn

(* An array, with the element an insertion holds in the free place, or     *)
(* with what a merge is still to write.                                    *)
Virtual(a) ==
    IF InInsertion /\ a = To THEN [elems[a] EXCEPT ![Call.lo + j + 1] = held.e]
    ELSE IF pc = "merge" /\ a = To THEN Merged(elems[a], elems[From], N, Call.lo, Call.n, An, i, j)
    ELSE elems[a]

AllKept ==
    \A a \in Arrays : (pc = "threw" /\ Call.do = "merge" => a # To) => Kept(Virtual(a), N, todo)

ToDo ==
    /\ Nested(todo, N)
    /\ AllFresh(todo, elems, FALSE)
    /\ pc = "next" => AllFresh(todo, elems, TRUE)
    /\ AllSeen(todo, rank, elems, Ok, N)

Inserting ==
    pc = "insert" =>
        /\ \A p \in Region(Call.lo, Call.n) : p > Call.lo + i => elems[To][p] = p
        /\ \A p \in Region(Call.lo, i + 1) : p # Call.lo + j + 1 => elems[To][p] \in Region(Call.lo, i)
        /\ honest => Inserted(rank, elems[To], Call.lo, i, Call.lo + j + 1, held.e)

Merges ==
    pc = "merge" /\ Ok => Ahead(rank, elems[To], elems[From], Call.lo, i + j, LeftOver(Call.lo, Call.n, An, i, j))

IInv == Types /\ Together /\ Loops /\ AllKept /\ ToDo /\ Inserting /\ Merges

-----------------------------------------------------------------------------
(* What every step needs *)

LEMMA Sizes ==
  ASSUME Types
  PROVE  N \in Nat /\ rank \in [1 .. N -> Nat] /\ Places = 0 .. N - 1
<1>1. rank \in Seq(Nat)
  BY ListsAssumption DEF Types
<1> QED
  BY <1>1 DEF N, Places

LEMMA Current ==
  ASSUME Types, Nested(todo, N), todo # <<>>
  PROVE  /\ Call = todo[1] /\ Call \in CallType /\ 1 \in 1 .. Len(todo)
         /\ Call.do \in {"sort", "merge"} /\ Call.lo \in Nat /\ Call.n \in Nat /\ Call.lo + Call.n <= N
         /\ To = Call.to /\ From = Other(Call.to) /\ To \in Arrays /\ From \in Arrays /\ To # From
         /\ Arrays = {To, From}
         /\ elems[To] \in [0 .. N - 1 -> 0 .. N - 1] /\ elems[From] \in [0 .. N - 1 -> 0 .. N - 1]
<1>1. Call = todo[1] /\ Call \in CallType /\ 1 \in 1 .. Len(todo)
  BY Popped DEF Types, Call
<1>2. Call.do \in {"sort", "merge"} /\ Call.lo \in Nat /\ Call.n \in Nat /\ Call.to \in Arrays
  BY <1>1, Fields
<1>3. Call.lo + Call.n <= N
  BY <1>1 DEF Nested
<1>4. To = Call.to /\ From = Other(Call.to) /\ To \in Arrays /\ From \in Arrays /\ To # From
      /\ Arrays = {To, From}
  BY <1>2 DEF To, From, Other, Arrays
<1>5. elems[To] \in [0 .. N - 1 -> 0 .. N - 1] /\ elems[From] \in [0 .. N - 1 -> 0 .. N - 1]
  BY <1>4 DEF Types, Places
<1> QED
  BY <1>1, <1>2, <1>3, <1>4, <1>5

LEMMA CurrentHalves ==
  ASSUME Types, Nested(todo, N), todo # <<>>, Call.do = "merge"
  PROVE  /\ An \in Nat /\ Bn \in Nat /\ 0 < An /\ 0 < Bn /\ An < Call.n /\ Bn = Call.n - An
         /\ Call.n > 1 /\ Half(todo[1]) = An
<1>1. Call = todo[1] /\ Call.n \in Nat /\ 1 \in 1 .. Len(todo)
  BY Current
<1>2. Call.n > 1
  BY <1>1 DEF Nested
<1>3. An \in Nat /\ 0 < An /\ An < Call.n
  BY <1>1, <1>2, Halved DEF An
<1>4. Bn = Call.n - An
  BY DEF Bn
<1>5. Bn \in Nat /\ 0 < Bn
  BY <1>1, <1>3, <1>4
<1>6. Half(todo[1]) = An
  BY <1>1 DEF Half, An
<1> QED
  BY <1>2, <1>3, <1>4, <1>5, <1>6

LEMMA RearrangedSame ==
  ASSUME NEW s, NEW m, NEW lo, NEW n
  PROVE  Rearranged(s, s, m, lo, n)
BY DEF Rearranged

LEMMA SameWrites ==
  ASSUME NEW c, NEW m, NEW v
  PROVE  WritesOnly(c, m, v, v)
BY DEF WritesOnly

Written(c, m, v, w, g) ==
    w \in [Arrays -> [0 .. m - 1 -> 0 .. m - 1]] /\ w[c.to] = g /\ WritesOnly(c, m, v, w)

LEMMA ArrayWrites ==
  ASSUME NEW m, NEW c, c.to \in Arrays, NEW v \in [Arrays -> [0 .. m - 1 -> 0 .. m - 1]],
         NEW g \in [0 .. m - 1 -> 0 .. m - 1],
         \A p \in 0 .. m - 1 : p \notin Region(c.lo, c.n) => g[p] = v[c.to][p],
         NEW w, w = [v EXCEPT ![c.to] = g]
  PROVE  Written(c, m, v, w, g)
<1>1. w \in [Arrays -> [0 .. m - 1 -> 0 .. m - 1]] /\ w[c.to] = g
  OBVIOUS
<1>2. \A a \in Arrays : a # c.to => w[a] = v[a]
  OBVIOUS
<1>3. Other(c.to) \in Arrays /\ Other(c.to) # c.to
  BY DEF Other, Arrays
<1> QED
  BY <1>1, <1>2, <1>3 DEF Written, WritesOnly

(* A step of a call that has not returned yet. *)
LEMMA Stays ==
  ASSUME IInv, todo # <<>>, UNCHANGED <<rank, honest, todo, skipped>>,
         pc' \notin {"next", "sorted"}, WritesOnly(Call, N, elems, elems'),
         pc # "threw",
         (pc' = "threw" /\ Call.do = "merge") \/ Rearranged(Virtual(To), Virtual(To)', N, Call.lo, Call.n)
  PROVE  AllKept' /\ ToDo'
<1>1. N \in Nat /\ N' = N /\ To' = To /\ From' = From /\ Call' = Call
  BY Sizes DEF IInv, N, To, From, Call
<1>2. Call = todo[1] /\ From = Other(Call.to) /\ Arrays = {To, From} /\ To # From
  BY Current DEF IInv, ToDo
<1>3. todo \in Seq(CallType) /\ Nested(todo, N)
  BY DEF IInv, Types, ToDo
<1>4. AllFresh(todo, elems', FALSE)
  BY <1>1, <1>2, <1>3, FreshStays DEF IInv, ToDo
<1>5. AllSeen(todo, rank, elems', Ok, N)
  BY <1>1, <1>2, <1>3, AllSeenStays DEF IInv, ToDo
<1>6. ToDo'
  BY <1>1, <1>3, <1>4, <1>5 DEF ToDo, Ok
<1>7. ASSUME NEW a \in Arrays, pc' = "threw" /\ Call.do = "merge" => a # To
      PROVE  Kept(Virtual(a)', N, todo)
  <2>1. Kept(Virtual(a), N, todo)
    BY DEF IInv, AllKept
  <2>2. CASE a = To
    BY <1>1, <1>2, <1>3, <1>7, <2>1, <2>2, KeptStays
  <2>3. CASE a = From
    <3>1. Virtual(a)' = Virtual(a)
      BY <1>1, <1>2, <2>3 DEF Virtual, WritesOnly
    <3> QED
      BY <2>1, <3>1
  <2> QED
    BY <1>2, <2>2, <2>3
<1>8. AllKept'
  BY <1>1, <1>7 DEF AllKept
<1> QED
  BY <1>6, <1>8

(* The step with which a call returns. *)
LEMMA Returns ==
  ASSUME IInv, todo # <<>>, UNCHANGED <<rank, honest>>, pc # "threw",
         pc' = "next", todo' = Tail(todo), i' = 0, j' = 0, skipped' \in BOOLEAN, Ok' => Ok,
         elems' \in [Arrays -> [Places -> Places]], keys' = elems', held'.k = held'.e,
         WritesOnly(Call, N, elems, elems'),
         Finished(rank, elems'[To], Ok', Call.lo, Call.n),
         Rearranged(Virtual(To), elems'[To], N, Call.lo, Call.n)
  PROVE  IInv'
<1>1. N \in Nat /\ N' = N /\ Places' = Places
  BY Sizes DEF IInv, N, Places
<1>2. Call = todo[1] /\ To = Call.to /\ From = Other(Call.to) /\ Arrays = {To, From} /\ To # From
  BY Current DEF IInv, ToDo
<1>3. todo \in Seq(CallType) /\ Nested(todo, N)
  BY DEF IInv, Types, ToDo
<1>4. Tail(todo) \in Seq(CallType)
  BY <1>3, Popped
<1>5. Types'
  BY <1>1, <1>4 DEF IInv, Types, Pcs
<1>6. Loops'
  BY DEF Loops, InInsertion, InMerge
<1>7. AllFresh(Tail(todo), elems', TRUE)
  BY <1>1, <1>2, <1>3, FreshStays, FreshPop DEF IInv, ToDo
<1>8. AllFresh(Tail(todo), elems', FALSE)
  BY <1>7 DEF AllFresh
<1>9. AllSeen(Tail(todo), rank, elems', Ok', N)
  BY <1>1, <1>2, <1>3, AllSeenPop DEF IInv, ToDo
<1>10. Nested(Tail(todo), N)
  BY <1>1, <1>3, NestedPop
<1>11. ToDo'
  BY <1>1, <1>7, <1>8, <1>9, <1>10 DEF ToDo
<1>12. ASSUME NEW a \in Arrays
       PROVE  Kept(elems'[a], N, Tail(todo))
  <2>1. Kept(Virtual(a), N, todo)
    BY DEF IInv, AllKept
  <2>2. Kept(elems'[a], N, todo)
    <3>1. CASE a = To
      BY <1>1, <1>2, <1>3, <2>1, <3>1, KeptStays
    <3>2. CASE a = From
      BY <1>2, <2>1, <3>2 DEF Virtual, WritesOnly
    <3> QED
      BY <1>2, <3>1, <3>2
  <2> QED
    BY <1>3, <2>2, KeptPop
<1>13. AllKept'
  BY <1>1, <1>12 DEF AllKept, Virtual, InInsertion
<1> QED
  BY <1>5, <1>6, <1>11, <1>13 DEF IInv, Together, Inserting, Merges

-----------------------------------------------------------------------------
(* The steps *)

LEMMA Initially ==
  Init => IInv
<1> SUFFICES ASSUME Init
             PROVE  IInv
  OBVIOUS
<1> DEFINE c == Sorting(0, N, "main")
<1>1. rank \in Seq(Nat)
  BY ListsAssumption DEF Init
<1>2. N \in Nat /\ rank \in Lists /\ honest \in BOOLEAN
  BY <1>1 DEF N, Init
<1>3. c \in CallType /\ c.lo = 0 /\ c.n = N /\ c.to = "main" /\ c.do = "sort"
  BY <1>2 DEF CallType, Sorting, Arrays
<1>4. todo \in Seq(CallType) /\ todo # <<>> /\ Len(todo) = 1 /\ todo[1] = c
  <2>1. todo = <<c>>
    BY DEF Init
  <2> HIDE DEF c
  <2> QED
    BY <1>3, <2>1
<1>5. \A k \in 1 .. Len(todo) : k = 1
  BY <1>4
<1>6. elems = [a \in Arrays |-> [p \in 0 .. N - 1 |-> p]] /\ pc = "next" /\ i = 0 /\ j = 0 /\ keys = elems
  BY DEF Init, Places
<1> HIDE DEF c
<1>7. Types
  <2>1. elems \in [Arrays -> [Places -> Places]]
    BY <1>6 DEF Places
  <2>2. pc \in Pcs /\ skipped \in BOOLEAN /\ i \in Int /\ j \in Int
    <3>1. skipped = FALSE
      BY DEF Init
    <3>2. skipped \in BOOLEAN
      BY <3>1
    <3>3. pc \in Pcs
      BY <1>6 DEF Pcs
    <3>4. i \in Int /\ j \in Int
      BY <1>6
    <3> QED
      BY <3>2, <3>3, <3>4
  <2> QED
    BY <1>2, <1>4, <2>1, <2>2 DEF Types
<1>8. Together
  BY DEF Together, Init
<1>9. Loops
  BY <1>4, <1>6 DEF Loops, InInsertion, InMerge
<1>10. \A a \in Arrays : \A p \in 0 .. N - 1 : elems[a][p] = p
  BY <1>6
<1>11. ASSUME NEW a \in Arrays
       PROVE  Kept(Virtual(a), N, todo)
  <2>1. Virtual(a) = elems[a]
    BY <1>6 DEF Virtual, InInsertion
  <2>2. Onto(elems[a], N)
    BY <1>10 DEF Onto
  <2>3. Respects(elems[a], N, c.lo, c.n)
    BY <1>10 DEF Respects
  <2> QED
    BY <1>4, <1>5, <2>1, <2>2, <2>3 DEF Kept
<1>12. AllKept
  BY <1>11 DEF AllKept
<1>13. Nested(todo, N)
  BY <1>2, <1>3, <1>4, <1>5 DEF Nested
<1>14. AllFresh(todo, elems, TRUE)
  <2>1. \A a \in Arrays : Fresh(elems[a], 0, N)
    BY <1>2, <1>10 DEF Fresh, Region
  <2> QED
    BY <1>3, <1>4, <1>5, <2>1 DEF AllFresh
<1>15. AllSeen(todo, rank, elems, Ok, N)
  <2>1. Pending(todo, Len(todo), 0, N, "main")
    BY <1>3, <1>4 DEF Pending
  <2> QED
    BY <1>3, <1>4, <1>5, <2>1 DEF AllSeen, Seen
<1>16. ToDo
  BY <1>13, <1>14, <1>15 DEF ToDo, AllFresh
<1> QED
  BY <1>6, <1>7, <1>8, <1>9, <1>12, <1>16 DEF IInv, Inserting, Merges

LEMMA CallFresh ==
  ASSUME IInv, Calls("sort"), NEW a \in Arrays
  PROVE  /\ todo # <<>> /\ pc = "next" /\ Virtual(a) = elems[a]
         /\ \A p \in Region(Call.lo, Call.n) : elems[a][p] = p
<1>1. todo # <<>> /\ pc = "next" /\ Call.do = "sort"
  BY DEF Calls
<1>2. Call = todo[1] /\ 1 \in 1 .. Len(todo)
  BY <1>1, Current DEF IInv, ToDo
<1>3. Fresh(elems[a], Call.lo, Call.n)
  BY <1>1, <1>2 DEF IInv, ToDo, AllFresh
<1> QED
  BY <1>1, <1>3 DEF Fresh, Virtual, InInsertion

LEMMA ShortStep ==
  ASSUME IInv, Short
  PROVE  IInv'
<1>1. /\ todo # <<>> /\ pc = "next" /\ Virtual(To) = elems[To] /\ To \in Arrays
      /\ \A p \in Region(Call.lo, Call.n) : elems[To][p] = p
  <2>1. Calls("sort") /\ todo # <<>>
    BY DEF Short, Calls
  <2>2. To \in Arrays
    BY <2>1, Current DEF IInv, ToDo
  <2> QED
    BY <2>1, <2>2, CallFresh
<1>2. Call.lo \in Nat /\ Call.n \in Nat /\ Call.n <= 1
  BY <1>1, Current DEF IInv, ToDo, Short
<1>3. \A p, q \in Region(Call.lo, Call.n) : ~(p < q)
  BY <1>2 DEF Region
<1>4. Finished(rank, elems[To], Ok', Call.lo, Call.n)
  BY <1>1, <1>3 DEF Finished, SortedOn
<1>5. UNCHANGED <<rank, honest, elems, keys, pc, i, j, held, skipped>> /\ todo' = Tail(todo)
  BY DEF Short, arrays, loop
<1>6. i = 0 /\ j = 0
  BY <1>1 DEF IInv, Loops
<1> QED
  BY <1>1, <1>4, <1>5, <1>6, Returns, RearrangedSame, SameWrites DEF IInv, Types, Together, Ok

LEMMA DivideStep ==
  ASSUME IInv, Divide
  PROVE  IInv'
<1>1. todo # <<>> /\ pc = "next" /\ Call.do = "sort" /\ Call.n > 1
  BY DEF Divide, Calls
<1>2. UNCHANGED <<rank, honest, elems, keys, pc, i, j, held, skipped>>
  BY DEF Divide, arrays, loop
<1>3. N \in Nat /\ N' = N /\ Places' = Places
  BY <1>2, Sizes DEF IInv, N, Places
<1>4. todo' = Divided(Head(todo)) \o Tail(todo)
  BY DEF Divide, Divided, Half, An, Bn, From, To, Call
<1>5. todo \in Seq(CallType) /\ Nested(todo, N) /\ Head(todo).n > 1 /\ Head(todo).do = "sort"
  BY <1>1 DEF IInv, Types, ToDo, Call
<1>6. todo' \in Seq(CallType)
  BY <1>1, <1>4, <1>5, Dividing
<1>7. Nested(todo', N)
  BY <1>1, <1>3, <1>4, <1>5, NestedDivide
<1>8. AllFresh(todo', elems, TRUE) /\ \A a \in Arrays : Kept(elems[a], N, todo) => Kept(elems[a], N, todo')
  <2>1. AllFresh(todo, elems, TRUE)
    BY <1>1 DEF IInv, ToDo
  <2> QED
    BY <1>1, <1>3, <1>4, <1>5, <2>1, FreshDivide
<1>9. AllSeen(todo', rank, elems, Ok, N)
  <2>1. AllSeen(todo, rank, elems, Ok, N)
    BY DEF IInv, ToDo
  <2> QED
    BY <1>1, <1>3, <1>4, <1>5, <2>1, AllSeenDivide
<1>10. ToDo'
  BY <1>2, <1>3, <1>7, <1>8, <1>9 DEF ToDo, AllFresh, Ok
<1>11. \A a \in Arrays : Kept(elems[a], N, todo')
  <2>1. \A a \in Arrays : Kept(elems[a], N, todo)
    BY <1>1 DEF IInv, AllKept, Virtual, InInsertion
  <2> QED
    BY <1>8, <2>1
<1>12. AllKept'
  BY <1>1, <1>2, <1>3, <1>11 DEF AllKept, Virtual, InInsertion
<1>13. Types'
  BY <1>2, <1>3, <1>6 DEF IInv, Types
<1>14. Loops' /\ Inserting' /\ Merges' /\ Together'
  BY <1>1, <1>2 DEF IInv, Loops, Inserting, Merges, Together, InInsertion, InMerge
<1> QED
  BY <1>10, <1>12, <1>13, <1>14 DEF IInv

LEMMA BeginInsertionStep ==
  ASSUME IInv, BeginInsertion
  PROVE  IInv'
<1> DEFINE lo == Call.lo
           n == Call.n
           T == elems[To]
<1>1. Calls("sort") /\ todo # <<>> /\ pc = "next" /\ Call.do = "sort" /\ 1 < n
  BY DEF BeginInsertion, Calls
<1>2. UNCHANGED <<rank, honest, elems, keys, todo, skipped>> /\ pc' = "insert" /\ i' = 1 /\ j' = 0
      /\ held' = [e |-> elems[To][Call.lo + 1], k |-> keys[To][Call.lo + 1]]
  BY <1>1 DEF BeginInsertion, Pick, arrays, To, Call
<1>3. /\ N \in Nat /\ lo \in Nat /\ n \in Nat /\ lo + n <= N /\ To \in Arrays /\ Call = todo[1]
      /\ T \in [0 .. N - 1 -> 0 .. N - 1] /\ rank \in [1 .. N -> Nat]
  BY <1>1, Current, Sizes DEF IInv, ToDo
<1>4. N' = N /\ Places' = Places /\ Call' = Call /\ To' = To /\ From' = From /\ Virtual(To) = T
  BY <1>1, <1>2, <1>3, CallFresh DEF N, Places, Call, To, From
<1>5. \A p \in Region(lo, n) : T[p] = p
  BY <1>1, <1>3, CallFresh
<1> HIDE DEF lo, n, T
<1>6. lo \in Region(lo, n) /\ lo + 1 \in Region(lo, n) /\ Region(lo, n) \subseteq 0 .. N - 1
  BY <1>1, <1>3 DEF Region
<1>7. held'.e = lo + 1 /\ held'.k = lo + 1
  BY <1>2, <1>5, <1>6 DEF IInv, Together, lo, T
<1>8. Virtual(To)' = T
  <2>1. Virtual(To)' = [T EXCEPT ![lo + 0 + 1] = lo + 1]
    BY <1>1, <1>2, <1>4, <1>7 DEF Virtual, InInsertion, lo, T
  <2>2. lo + 0 + 1 = lo + 1 /\ T[lo + 1] = lo + 1 /\ lo + 1 \in 0 .. N - 1
    BY <1>3, <1>5, <1>6
  <2> QED
    BY <1>3, <2>1, <2>2
<1>9. AllKept' /\ ToDo'
  <2>1. WritesOnly(Call, N, elems, elems') /\ Rearranged(Virtual(To), Virtual(To)', N, Call.lo, Call.n)
    BY <1>2, <1>4, <1>8, SameWrites, RearrangedSame
  <2> QED
    BY <1>1, <1>2, <2>1, Stays
<1>10. Types' /\ Together'
  BY <1>2, <1>4, <1>7 DEF IInv, Types, Together, Pcs
<1>11. Loops'
  BY <1>1, <1>2, <1>4, <1>7 DEF Loops, InInsertion, InMerge, lo, n
<1>12. Inserting'
  <2>1. \A p \in Region(lo, n) : p > lo + 1 => T[p] = p
    BY <1>5
  <2>2. \A p \in Region(lo, 1 + 1) : p # lo + 0 + 1 => T[p] \in Region(lo, 1)
    <3> SUFFICES ASSUME NEW p \in Region(lo, 1 + 1), p # lo + 0 + 1
                 PROVE  T[p] \in Region(lo, 1)
      OBVIOUS
    <3>1. p = lo
      BY <1>3 DEF Region
    <3> QED
      BY <1>3, <1>5, <1>6, <3>1 DEF Region
  <2>3. Inserted(rank, T, lo, 1, lo + 0 + 1, lo + 1)
    <3>1. SortedOn(rank, T, lo, 1)
      BY <1>3 DEF SortedOn, Region
    <3>2. lo + 0 + 1 = lo + 1
      BY <1>3
    <3> QED
      BY <1>3, <3>1, <3>2, InsertedPick
  <2> QED
    BY <1>2, <1>4, <1>7, <2>1, <2>2, <2>3 DEF Inserting, lo, n, T
<1>13. Merges'
  BY <1>2 DEF Merges
<1> QED
  BY <1>9, <1>10, <1>11, <1>12, <1>13 DEF IInv

LEMMA ThrowsStep ==
  ASSUME IInv, Throws
  PROVE  IInv'
<1>1. pc \in {"insert", "check", "merge"} /\ pc' = "threw" /\ todo # <<>>
  BY DEF Throws, IInv, Loops
<1>2. UNCHANGED <<rank, honest, elems, keys, todo, i, j, held, skipped>>
  BY DEF Throws, arrays, loop
<1>3. N' = N /\ Places' = Places /\ Call' = Call /\ To' = To /\ From' = From /\ An' = An /\ Bn' = Bn
  BY <1>2 DEF N, Places, Call, To, From, An, Bn
<1>4. Call.do = "merge" \/ Virtual(To)' = Virtual(To)
  BY <1>1, <1>2, <1>3 DEF Virtual, InInsertion, IInv, Loops
<1>5. AllKept' /\ ToDo'
  <2>1. WritesOnly(Call, N, elems, elems')
    BY <1>2, SameWrites
  <2>2. (pc' = "threw" /\ Call.do = "merge") \/ Rearranged(Virtual(To), Virtual(To)', N, Call.lo, Call.n)
    BY <1>1, <1>4, RearrangedSame
  <2> QED
    BY <1>1, <1>2, <2>1, <2>2, Stays
<1>6. Types' /\ Together'
  BY <1>1, <1>2, <1>3 DEF IInv, Types, Together, Pcs
<1>7. Loops'
  <2>1. InInsertion' <=> InInsertion
    BY <1>1, <1>2, <1>3 DEF IInv, Loops, InInsertion
  <2>2. InMerge' <=> InMerge
    BY <1>1, <1>2, <1>3 DEF IInv, Loops, InMerge
  <2> QED
    BY <1>1, <1>2, <1>3, <2>1, <2>2 DEF IInv, Loops
<1> QED
  BY <1>1, <1>5, <1>6, <1>7 DEF IInv, Inserting, Merges

LEMMA BeginMergeStep ==
  ASSUME IInv, BeginMerge
  PROVE  IInv'
<1>1. todo # <<>> /\ pc = "next" /\ pc' = "check" /\ Call.do = "merge"
  BY DEF BeginMerge, Calls
<1>2. UNCHANGED <<rank, honest, elems, keys, todo, i, j, held, skipped>>
  BY DEF BeginMerge, arrays, loop
<1>3. N' = N /\ Places' = Places /\ Call' = Call /\ To' = To /\ From' = From /\ An' = An /\ Bn' = Bn
  BY <1>2 DEF N, Places, Call, To, From, An, Bn
<1>4. Virtual(To)' = Virtual(To)
  BY <1>1, <1>2, <1>3 DEF Virtual, InInsertion
<1>5. AllKept' /\ ToDo'
  <2>1. WritesOnly(Call, N, elems, elems') /\ Rearranged(Virtual(To), Virtual(To)', N, Call.lo, Call.n)
    BY <1>2, <1>4, SameWrites, RearrangedSame
  <2> QED
    BY <1>1, <1>2, <2>1, Stays
<1>6. Types' /\ Together'
  BY <1>1, <1>2, <1>3 DEF IInv, Types, Together, Pcs
<1>7. Loops'
  <2>1. 0 < An /\ 0 < Bn /\ An \in Nat /\ Bn \in Nat /\ i = 0 /\ j = 0
    BY <1>1, CurrentHalves DEF IInv, Loops, ToDo
  <2> QED
    BY <1>1, <1>2, <1>3, <2>1 DEF Loops, InInsertion, InMerge
<1> QED
  BY <1>1, <1>5, <1>6, <1>7 DEF IInv, Inserting, Merges

LEMMA FreePlace ==
  ASSUME NEW m \in Nat, NEW lo \in Nat, NEW n \in Nat, lo + n <= m,
         NEW x \in Nat, x < n, NEW y \in Int, -1 <= y, y < x
  PROVE  /\ lo + y + 1 \in Region(lo, n) /\ lo + y + 1 \in Region(lo, x + 1)
         /\ lo + y + 1 \in 0 .. m - 1 /\ lo + y + 1 <= lo + x
         /\ lo + x \in Region(lo, n) /\ lo + x \in 0 .. m - 1 /\ lo + x + 1 <= m
         /\ ~(y >= 0) => lo + y + 1 = lo
BY DEF Region

LEMMA BelowFreePlace ==
  ASSUME NEW m \in Nat, NEW lo \in Nat, NEW n \in Nat, lo + n <= m,
         NEW x \in Nat, x < n, NEW y \in Nat, y < x
  PROVE  lo + y \in Region(lo, n) /\ lo + y \in Region(lo, x + 1) /\ lo + y \in 0 .. m - 1 /\ lo + y <= lo + x - 1
BY DEF Region

LEMMA DownOne ==
  ASSUME NEW lo \in Nat, NEW y \in Nat, NEW h, h = lo + y + 1
  PROVE  h \in Int /\ lo + y = h - 1 /\ lo + (y - 1) + 1 = h - 1 /\ h # lo /\ h - 1 # h
OBVIOUS

LEMMA ShiftStep ==
  ASSUME IInv, Shift
  PROVE  IInv'
<1> DEFINE lo == Call.lo
           n == Call.n
           T == elems[To]
           U == elems'[To]
           h == Call.lo + j + 1
<1>1. pc = "insert" /\ pc' = "insert" /\ j >= 0 /\ todo # <<>> /\ Call.do = "sort" /\ InInsertion
  BY DEF Shift, IInv, Loops, InInsertion
<1>2. UNCHANGED <<rank, honest, todo, i, held, skipped>> /\ j' = j - 1
  BY DEF Shift
<1>3. /\ N \in Nat /\ lo \in Nat /\ n \in Nat /\ lo + n <= N /\ To \in Arrays /\ Call = todo[1] /\ To = Call.to
      /\ T \in [0 .. N - 1 -> 0 .. N - 1] /\ rank \in [1 .. N -> Nat]
  BY <1>1, Current, Sizes DEF IInv, ToDo
<1>4. N' = N /\ Places' = Places /\ Call' = Call /\ To' = To /\ From' = From
  BY <1>2 DEF N, Places, Call, To, From
<1>5. i \in Nat /\ 0 < i /\ i < n /\ j \in Nat /\ j < i /\ held.e = lo + i /\ held.k = held.e
  BY <1>1 DEF IInv, Loops, Types, Together
<1>6. elems' = [elems EXCEPT ![To][h] = T[h - 1]] /\ keys' = elems'
  <2>1. h - 1 = Call.lo + j
    BY <1>3, <1>5
  <2> QED
    BY <2>1 DEF Shift, Put, IInv, Together
<1>7. /\ h \in Region(lo, n) /\ h - 1 \in Region(lo, n) /\ h \in 0 .. N - 1 /\ h - 1 \in 0 .. N - 1 /\ held.e \in 0 .. N - 1
      /\ h \in Region(lo, i + 1) /\ h - 1 \in Region(lo, i + 1) /\ h # lo /\ h - 1 # h /\ h - 1 <= lo + i - 1 /\ h <= lo + i
      /\ lo + (j - 1) + 1 = h - 1 /\ lo + j = h - 1
  <2>1. lo \in Nat /\ n \in Nat /\ N \in Nat /\ lo + n <= N /\ i \in Nat /\ i < n /\ j \in Int /\ -1 <= j /\ j < i /\ j >= 0
    BY <1>1, <1>3, <1>5
  <2>2. h = lo + j + 1
    OBVIOUS
  <2> HIDE DEF lo, n, h
  <2>5. /\ h \in Region(lo, n) /\ h \in Region(lo, i + 1) /\ h \in 0 .. N - 1 /\ h <= lo + i
        /\ lo + i \in Region(lo, n) /\ lo + i \in 0 .. N - 1
    BY <2>1, <2>2, FreePlace
  <2>6. h \in Int /\ lo + j = h - 1 /\ lo + (j - 1) + 1 = h - 1 /\ h # lo /\ h - 1 # h
    BY <1>5, <2>1, <2>2, DownOne
  <2>7. lo + j \in Region(lo, n) /\ lo + j \in Region(lo, i + 1) /\ lo + j \in 0 .. N - 1 /\ lo + j <= lo + i - 1
    BY <1>5, <2>1, BelowFreePlace
  <2>3. /\ h - 1 \in Region(lo, n) /\ h - 1 \in Region(lo, i + 1) /\ h - 1 \in 0 .. N - 1
        /\ h # lo /\ h - 1 # h /\ h - 1 <= lo + i - 1 /\ lo + j = h - 1 /\ lo + (j - 1) + 1 = h - 1
    BY <2>6, <2>7
  <2>4. held.e = lo + i
    BY <1>5
  <2> QED
    BY <2>3, <2>4, <2>5
<1>8. honest => ~(rank[T[h - 1] + 1] <= rank[held.e + 1])
  <2>1. FALSE \in Answers(keys[To][Call.lo + j], held.k) /\ Call.lo + j = h - 1 /\ keys = elems
    <3>1. Call.lo + j = h - 1
      BY <1>7
    <3> QED
      BY <3>1 DEF Shift, IInv, Together
  <2> QED
    BY <1>5, <2>1 DEF Answers, Rank
<1> HIDE DEF lo, n, T, U, h
<1>9. elems \in [Arrays -> [0 .. N - 1 -> 0 .. N - 1]] /\ T[h - 1] \in 0 .. N - 1
  BY <1>3, <1>7 DEF IInv, Types, Places
<1>10. /\ elems' \in [Arrays -> [0 .. N - 1 -> 0 .. N - 1]] /\ U = [T EXCEPT ![h] = T[h - 1]]
       /\ WritesOnly(Call, N, elems, elems')
  <2> DEFINE g == [T EXCEPT ![h] = T[h - 1]]
  <2>1. g \in [0 .. N - 1 -> 0 .. N - 1] /\ \A p \in 0 .. N - 1 : p \notin Region(Call.lo, Call.n) => g[p] = T[p]
    BY <1>3, <1>7, <1>9 DEF lo, n
  <2>2. elems' = [elems EXCEPT ![To] = g]
    BY <1>3, <1>6, <1>9 DEF T
  <2> HIDE DEF g
  <2>3. Call.to \in Arrays /\ elems \in [Arrays -> [0 .. N - 1 -> 0 .. N - 1]]
    BY <1>3, <1>9
  <2>4. \A p \in 0 .. N - 1 : p \notin Region(Call.lo, Call.n) => g[p] = elems[Call.to][p]
    BY <1>3, <2>1 DEF T
  <2>5. g \in [0 .. N - 1 -> 0 .. N - 1] /\ elems' = [elems EXCEPT ![Call.to] = g]
    BY <1>3, <2>1, <2>2
  <2>6. Written(Call, N, elems, elems', g)
    BY <2>3, <2>4, <2>5, ArrayWrites
  <2> QED
    BY <1>3, <2>6 DEF Written, U, g
<1>11. Rearranged(Virtual(To), Virtual(To)', N, Call.lo, Call.n)
  <2>1. Virtual(To) = [T EXCEPT ![h] = held.e]
    BY <1>1 DEF Virtual, T, h
  <2>2. Virtual(To)' = [U EXCEPT ![h - 1] = held.e]
    BY <1>1, <1>2, <1>4, <1>7 DEF Virtual, InInsertion, U, lo, h
  <2>3. Rearranged([T EXCEPT ![h] = held.e], [U EXCEPT ![h - 1] = held.e], N, lo, n)
    BY <1>3, <1>7, <1>10, Shifted
  <2> QED
    BY <2>1, <2>2, <2>3 DEF lo, n
<1>12. AllKept' /\ ToDo'
  BY <1>1, <1>2, <1>10, <1>11, Stays
<1>13. Types' /\ Together'
  BY <1>1, <1>2, <1>4, <1>5, <1>6, <1>10 DEF IInv, Types, Together, Places
<1>14. Loops'
  <2>1. -1 <= j - 1 /\ j - 1 < i
    BY <1>5
  <2> QED
    BY <1>1, <1>2, <1>4, <1>5, <2>1 DEF Loops, InInsertion, InMerge, lo, n
<1>15. Inserting'
  <2>0. \A p \in 0 .. N - 1 : p # h => U[p] = T[p]
    BY <1>3, <1>10
  <2>00. U[h] = T[h - 1]
    BY <1>3, <1>7, <1>10
  <2>1. ASSUME NEW p \in Region(lo, n), p > lo + i
        PROVE  U[p] = p
    <3>1. p \in 0 .. N - 1 /\ p # h
      BY <1>3, <1>5, <1>7, <2>1 DEF Region
    <3>2. T[p] = p
      BY <1>1, <2>1 DEF IInv, Inserting, lo, n, T
    <3> QED
      BY <2>0, <3>1, <3>2
  <2>2. ASSUME NEW p \in Region(lo, i + 1), p # h - 1
        PROVE  U[p] \in Region(lo, i)
    <3>1. \A q \in Region(lo, i + 1) : q # h => T[q] \in Region(lo, i)
      BY <1>1 DEF IInv, Inserting, lo, T, h
    <3>2. p \in 0 .. N - 1
      BY <1>3, <1>5 DEF Region
    <3>3. CASE p = h
      BY <1>7, <2>00, <3>1, <3>3
    <3>4. CASE p # h
      BY <2>0, <3>1, <3>2, <3>4
    <3> QED
      BY <3>3, <3>4
  <2>3. ASSUME honest
        PROVE  Inserted(rank, U, lo, i, h - 1, held.e)
    <3>1. Inserted(rank, T, lo, i, h, held.e)
      BY <1>1, <2>3 DEF IInv, Inserting, lo, T, h
    <3>2. Precedes(rank, held.e, T[h - 1])
      BY <1>3, <1>7, <1>8, <1>9, <2>3, PrecedesLess
    <3>3. lo + i + 1 <= N
      BY <1>3, <1>5
    <3> QED
      BY <1>3, <1>5, <1>7, <1>10, <3>1, <3>2, <3>3, InsertedShift
  <2> QED
    BY <1>1, <1>2, <1>4, <1>7, <2>1, <2>2, <2>3 DEF Inserting, lo, n, U
<1>16. Merges'
  BY <1>1 DEF Merges
<1> QED
  BY <1>12, <1>13, <1>14, <1>15, <1>16 DEF IInv

LEMMA PlaceStep ==
  ASSUME IInv, Place
  PROVE  IInv'
<1> DEFINE lo == Call.lo
           n == Call.n
           e == held.e
           T == elems[To]
           U == elems'[To]
           h == Call.lo + j + 1
<1>1. pc = "insert" /\ todo # <<>> /\ Call.do = "sort" /\ InInsertion
  BY DEF Place, IInv, Loops, InInsertion
<1>2. UNCHANGED <<rank, honest, skipped>>
  BY DEF Place
<1>3. /\ N \in Nat /\ lo \in Nat /\ n \in Nat /\ lo + n <= N /\ To \in Arrays /\ Call = todo[1] /\ To = Call.to
      /\ T \in [0 .. N - 1 -> 0 .. N - 1] /\ rank \in [1 .. N -> Nat]
  BY <1>1, Current, Sizes DEF IInv, ToDo
<1>4. N' = N /\ Places' = Places
  BY <1>2 DEF N, Places
<1>5. i \in Nat /\ 0 < i /\ i < n /\ j \in Int /\ -1 <= j /\ j < i /\ e = lo + i /\ held.k = e /\ keys = elems
  BY <1>1 DEF IInv, Loops, Types, Together
<1>6. elems' = [elems EXCEPT ![To][h] = e] /\ keys' = elems'
  BY <1>5 DEF Place, Put
<1>7. j >= 0 => TRUE \in Answers(T[lo + j], e)
  BY <1>5 DEF Place
<1>8. /\ i + 1 < n => /\ pc' = "insert" /\ i' = i + 1 /\ j' = i /\ todo' = todo
                      /\ held' = [e |-> elems'[To][lo + (i + 1)], k |-> keys'[To][lo + (i + 1)]]
      /\ ~(i + 1 < n) => pc' = "next" /\ todo' = Tail(todo) /\ i' = 0 /\ j' = 0 /\ held' = held
  <2>1. CASE i + 1 < n
    <3>1. Pick(i + 1) /\ i + 1 < Call.n
      BY <2>1 DEF Place
    <3>2. pc' = "insert" /\ todo' = todo
      BY <3>1 DEF Pick
    <3>4. i' = i + 1
      BY <3>1 DEF Pick
    <3>5. j' = i
      <4>1. j' = (i + 1) - 1
        BY <3>1 DEF Pick
      <4> QED
        BY <1>5, <4>1
    <3>3. held' = [e |-> elems'[To][Call.lo + (i + 1)], k |-> keys'[To][Call.lo + (i + 1)]]
      BY <3>1 DEF Pick, To, Call
    <3> QED
      BY <2>1, <3>2, <3>3, <3>4, <3>5
  <2>2. CASE ~(i + 1 < n)
    BY <2>2 DEF Place, Pick
  <2> QED
    BY <2>1, <2>2
<1>9. h = lo + j + 1
  OBVIOUS
<1> HIDE DEF lo, n, e, T, U, h
<1>10. /\ h \in Region(lo, n) /\ h \in Region(lo, i + 1) /\ h \in 0 .. N - 1 /\ h <= lo + i
       /\ e \in 0 .. N - 1 /\ lo + i + 1 <= N /\ (~(j >= 0) => h = lo)
  <2>1. /\ lo + j + 1 \in Region(lo, n) /\ lo + j + 1 \in Region(lo, i + 1)
        /\ lo + j + 1 \in 0 .. N - 1 /\ lo + j + 1 <= lo + i
        /\ lo + i \in 0 .. N - 1 /\ lo + i + 1 <= N
        /\ ~(j >= 0) => lo + j + 1 = lo
    <3>1. lo \in Nat /\ n \in Nat /\ N \in Nat /\ lo + n <= N /\ i \in Nat /\ i < n /\ j \in Int /\ -1 <= j /\ j < i
      BY <1>3, <1>5
    <3>2. /\ lo + j + 1 \in Region(lo, n) /\ lo + j + 1 \in Region(lo, i + 1)
          /\ lo + j + 1 \in 0 .. N - 1 /\ lo + j + 1 <= lo + i
          /\ lo + i \in 0 .. N - 1
      BY <3>1, FreePlace
    <3>3. lo + i + 1 <= N /\ (~(j >= 0) => lo + j + 1 = lo)
      BY <3>1
    <3> QED
      BY <3>2, <3>3
  <2> QED
    BY <1>5, <1>9, <2>1
<1>11. j >= 0 => lo + j = h - 1 /\ h - 1 \in Region(lo, i + 1) /\ h - 1 \in 0 .. N - 1 /\ h - 1 # h
  <2> SUFFICES ASSUME j >= 0
               PROVE  lo + j = h - 1 /\ h - 1 \in Region(lo, i + 1) /\ h - 1 \in 0 .. N - 1 /\ h - 1 # h
    OBVIOUS
  <2>1. j \in Nat
    BY <1>5
  <2>2. lo + j = h - 1 /\ h - 1 # h
    BY <1>3, <1>9, <2>1, DownOne
  <2>3. lo + j \in Region(lo, i + 1) /\ lo + j \in 0 .. N - 1
    BY <1>3, <1>5, <2>1, BelowFreePlace
  <2> QED
    BY <2>2, <2>3
<1>12. elems \in [Arrays -> [0 .. N - 1 -> 0 .. N - 1]]
  BY DEF IInv, Types, Places
<1>13. /\ elems' \in [Arrays -> [0 .. N - 1 -> 0 .. N - 1]] /\ U = [T EXCEPT ![h] = e]
       /\ WritesOnly(Call, N, elems, elems')
  <2> DEFINE g == [T EXCEPT ![h] = e]
  <2>1. g \in [0 .. N - 1 -> 0 .. N - 1] /\ \A p \in 0 .. N - 1 : p \notin Region(Call.lo, Call.n) => g[p] = T[p]
    BY <1>3, <1>10 DEF lo, n
  <2>2. elems' = [elems EXCEPT ![To] = g]
    BY <1>3, <1>6, <1>12 DEF T
  <2> HIDE DEF g
  <2>3. Call.to \in Arrays /\ elems \in [Arrays -> [0 .. N - 1 -> 0 .. N - 1]]
    BY <1>3, <1>12
  <2>4. \A p \in 0 .. N - 1 : p \notin Region(Call.lo, Call.n) => g[p] = elems[Call.to][p]
    BY <1>3, <2>1 DEF T
  <2>5. g \in [0 .. N - 1 -> 0 .. N - 1] /\ elems' = [elems EXCEPT ![Call.to] = g]
    BY <1>3, <2>1, <2>2
  <2>6. Written(Call, N, elems, elems', g)
    BY <2>3, <2>4, <2>5, ArrayWrites
  <2> QED
    BY <1>3, <2>6 DEF Written, U, g
<1>14. Virtual(To) = U
  BY <1>1, <1>13 DEF Virtual, T, U, h, e
<1>15. U[h] = e /\ \A p \in 0 .. N - 1 : p # h => U[p] = T[p]
  BY <1>3, <1>10, <1>13
<1>16. \A p \in Region(lo, n) : p > lo + i => U[p] = p
  <2>1. \A p \in Region(lo, n) : p > lo + i => T[p] = p
    BY <1>1 DEF IInv, Inserting, lo, n, T
  <2>2. \A p \in Region(lo, n) : p \in 0 .. N - 1 /\ (p > lo + i => p # h)
    BY <1>3, <1>5, <1>10 DEF Region
  <2> QED
    BY <1>15, <2>1, <2>2
<1>17. ASSUME NEW p \in Region(lo, i + 1)
       PROVE  U[p] \in Region(lo, i + 1)
  <2>1. \A q \in Region(lo, i + 1) : q # h => T[q] \in Region(lo, i)
    BY <1>1 DEF IInv, Inserting, lo, T, h
  <2>2. p \in 0 .. N - 1
    BY <1>3, <1>5 DEF Region
  <2>3. Region(lo, i) \subseteq Region(lo, i + 1) /\ e \in Region(lo, i + 1)
    BY <1>3, <1>5 DEF Region
  <2> QED
    BY <1>15, <2>1, <2>2, <2>3
<1>18. ASSUME honest
       PROVE  SortedOn(rank, U, lo, i + 1)
  <2>1. Inserted(rank, T, lo, i, h, e)
    BY <1>1, <1>18 DEF IInv, Inserting, lo, T, h, e
  <2>2. ASSUME h # lo
        PROVE  Precedes(rank, T[h - 1], e)
    <3>1. j >= 0 /\ lo + j = h - 1 /\ h - 1 \in Region(lo, i + 1) /\ h - 1 \in 0 .. N - 1 /\ h - 1 # h
      BY <1>10, <1>11, <2>2
    <3>2. rank[T[h - 1] + 1] <= rank[e + 1]
      BY <1>7, <1>18, <3>1 DEF Answers, Rank
    <3>3. T[h - 1] \in Region(lo, i)
      BY <1>1, <3>1 DEF IInv, Inserting, lo, T, h
    <3>4. T[h - 1] < e /\ T[h - 1] \in 0 .. N - 1
      <4>1. T[h - 1] \in 0 .. N - 1
        BY <1>3, <3>1
      <4>2. \A q \in Region(lo, i) : q < lo + i
        BY <1>3, <1>5 DEF Region
      <4> QED
        BY <1>5, <3>3, <4>1, <4>2
    <3> QED
      BY <1>3, <1>10, <3>2, <3>4, PrecedesLess
  <2> QED
    BY <1>3, <1>5, <1>10, <1>13, <2>1, <2>2, InsertedPlace
<1>19. CASE ~(i + 1 < n)
  <2>1. n = i + 1
    BY <1>3, <1>5, <1>19
  <2>2. Finished(rank, U, Ok', Call.lo, Call.n)
    BY <1>2, <1>17, <1>18, <2>1 DEF Finished, Ok, lo, n
  <2>3. pc' = "next" /\ todo' = Tail(todo) /\ i' = 0 /\ j' = 0 /\ held' = held
    BY <1>8, <1>19
  <2>4. elems' \in [Arrays -> [Places -> Places]] /\ skipped' \in BOOLEAN /\ (Ok' => Ok) /\ held'.k = held'.e
    BY <1>2, <1>5, <1>13, <2>3 DEF IInv, Types, Places, Ok, e
  <2> QED
    BY <1>1, <1>2, <1>6, <1>13, <1>14, <2>2, <2>3, <2>4, Returns, RearrangedSame DEF U
<1>20. CASE i + 1 < n
  <2>1. /\ pc' = "insert" /\ i' = i + 1 /\ j' = i /\ todo' = todo
        /\ held' = [e |-> U[lo + (i + 1)], k |-> U[lo + (i + 1)]]
    BY <1>5, <1>6, <1>8, <1>20 DEF U
  <2>2. Call' = Call /\ To' = To /\ From' = From
    BY <2>1 DEF Call, To, From
  <2>3. /\ lo + (i + 1) \in Region(lo, n) /\ lo + (i + 1) \in 0 .. N - 1 /\ lo + (i + 1) > lo + i
        /\ lo + i + 1 = lo + (i + 1)
    BY <1>3, <1>5, <1>20 DEF Region
  <2>4. U[lo + (i + 1)] = lo + (i + 1)
    BY <1>16, <2>3
  <2>5. held'.e = lo + (i + 1) /\ held'.k = lo + (i + 1)
    BY <2>1, <2>4
  <2>6. U \in [0 .. N - 1 -> 0 .. N - 1]
    BY <1>3, <1>13 DEF U
  <2>7. Virtual(To)' = U
    <3>1. Virtual(To)' = [U EXCEPT ![lo + i + 1] = lo + (i + 1)]
      BY <1>1, <2>1, <2>2, <2>5 DEF Virtual, InInsertion, U, lo
    <3> QED
      BY <2>3, <2>4, <2>6, <3>1
  <2>8. AllKept' /\ ToDo'
    <3>1. Rearranged(Virtual(To), Virtual(To)', N, Call.lo, Call.n)
      BY <1>14, <2>7, RearrangedSame
    <3> QED
      BY <1>1, <1>2, <1>13, <2>1, <3>1, Stays
  <2>9. Types' /\ Together'
    BY <1>2, <1>4, <1>5, <1>6, <1>13, <2>1, <2>5 DEF IInv, Types, Together, Places, Pcs
  <2>10. Loops'
    <3>1. 0 < i + 1 /\ -1 <= i /\ i < i + 1
      BY <1>5
    <3> QED
      BY <1>1, <1>20, <2>1, <2>2, <2>5, <3>1 DEF Loops, InInsertion, InMerge, lo, n
  <2>11. Inserting'
    <3>1. \A p \in Region(lo, n) : p > lo + (i + 1) => U[p] = p
      <4>1. \A p \in Region(lo, n) : p > lo + (i + 1) => p > lo + i
        BY <1>3, <1>5 DEF Region
      <4> QED
        BY <1>16, <4>1
    <3>2. \A p \in Region(lo, (i + 1) + 1) : p # lo + i + 1 => U[p] \in Region(lo, i + 1)
      <4>1. \A p \in Region(lo, (i + 1) + 1) : p # lo + i + 1 => p \in Region(lo, i + 1)
        BY <1>3, <1>5 DEF Region
      <4> QED
        BY <1>17, <4>1
    <3>3. honest => Inserted(rank, U, lo, i + 1, lo + i + 1, lo + (i + 1))
      <4>1. i + 1 \in Nat
        BY <1>5
      <4> QED
        BY <1>3, <1>18, <2>3, <4>1, InsertedPick
    <3> QED
      BY <1>2, <2>1, <2>2, <2>5, <3>1, <3>2, <3>3 DEF Inserting, lo, n, U
  <2>12. Merges'
    BY <2>1 DEF Merges
  <2> QED
    BY <2>8, <2>9, <2>10, <2>11, <2>12 DEF IInv
<1> QED
  BY <1>19, <1>20

LEMMA RankNat ==
  ASSUME NEW m \in Nat, NEW r \in [1 .. m -> Nat], NEW p \in 0 .. m - 1
  PROVE  r[p + 1] \in Nat
OBVIOUS

LEMMA AtMerge ==
  ASSUME IInv, pc \in {"check", "merge"}
  PROVE  /\ todo # <<>> /\ Call.do = "merge" /\ N \in Nat /\ rank \in [1 .. N -> Nat] /\ Places = 0 .. N - 1
         /\ Call.lo \in Nat /\ Call.n \in Nat /\ Call.lo + Call.n <= N
         /\ To \in Arrays /\ From \in Arrays /\ To = Call.to /\ To # From
         /\ elems \in [Arrays -> [0 .. N - 1 -> 0 .. N - 1]]
         /\ elems[To] \in [0 .. N - 1 -> 0 .. N - 1] /\ elems[From] \in [0 .. N - 1 -> 0 .. N - 1]
         /\ An \in Nat /\ 0 < An /\ An < Call.n /\ Bn = Call.n - An
         /\ Finished(rank, elems[From], Ok, Call.lo, An)
         /\ Finished(rank, elems[From], Ok, Call.lo + An, Call.n - An)
         /\ Onto(elems[From], N) /\ Respects(elems[From], N, Call.lo, Call.n)
         /\ Onto(Virtual(To), N) /\ Respects(Virtual(To), N, Call.lo, Call.n)
         /\ keys = elems
<1>1. todo # <<>> /\ Call.do = "merge" /\ Types /\ Nested(todo, N)
  BY DEF IInv, Loops, ToDo
<1>2. N \in Nat /\ rank \in [1 .. N -> Nat] /\ Places = 0 .. N - 1
  BY <1>1, Sizes
<1>3. /\ Call = todo[1] /\ 1 \in 1 .. Len(todo)
      /\ Call.lo \in Nat /\ Call.n \in Nat /\ Call.lo + Call.n <= N
      /\ To \in Arrays /\ From \in Arrays /\ To = Call.to /\ From = Other(Call.to) /\ To # From
      /\ elems[To] \in [0 .. N - 1 -> 0 .. N - 1] /\ elems[From] \in [0 .. N - 1 -> 0 .. N - 1]
  BY <1>1, Current
<1>4. An \in Nat /\ 0 < An /\ An < Call.n /\ Bn = Call.n - An /\ Half(todo[1]) = An
  BY <1>1, CurrentHalves
<1>5. /\ Seen(todo, 1 - 1, rank, elems, Ok, todo[1].lo, Half(todo[1]), Other(todo[1].to))
      /\ Seen(todo, 1 - 1, rank, elems, Ok, todo[1].lo + Half(todo[1]), todo[1].n - Half(todo[1]), Other(todo[1].to))
  BY <1>1, <1>3 DEF IInv, ToDo, AllSeen
<1>6. \A l, n, a : ~Pending(todo, 1 - 1, l, n, a)
  BY DEF Pending
<1>7. /\ Finished(rank, elems[From], Ok, Call.lo, An)
      /\ Finished(rank, elems[From], Ok, Call.lo + An, Call.n - An)
  BY <1>3, <1>4, <1>5, <1>6 DEF Seen
<1>8. Kept(Virtual(To), N, todo) /\ Kept(elems[From], N, todo)
  <2>1. Kept(Virtual(To), N, todo) /\ Kept(Virtual(From), N, todo)
    BY <1>3 DEF IInv, AllKept
  <2>2. Virtual(From) = elems[From]
    BY <1>3 DEF Virtual
  <2> QED
    BY <2>1, <2>2
<1>9. /\ Onto(elems[From], N) /\ Respects(elems[From], N, Call.lo, Call.n)
      /\ Onto(Virtual(To), N) /\ Respects(Virtual(To), N, Call.lo, Call.n)
  BY <1>3, <1>8 DEF Kept
<1>10. keys = elems /\ elems \in [Arrays -> [0 .. N - 1 -> 0 .. N - 1]]
  BY <1>1, <1>2 DEF IInv, Types, Together
<1> QED
  BY <1>1, <1>2, <1>3, <1>4, <1>7, <1>9, <1>10

LEMMA SkipStep ==
  ASSUME IInv, Skip
  PROVE  IInv'
<1> DEFINE lo == Call.lo
           n == Call.n
           T == elems[To]
           F == elems[From]
           g == [p \in 0 .. N - 1 |-> IF lo <= p /\ p < lo + n THEN F[p] ELSE T[p]]
<1>1. pc = "check"
  BY DEF Skip
<1>2. UNCHANGED <<rank, honest, i, j, held>> /\ pc' = "next" /\ todo' = Tail(todo)
      /\ elems' = Copied(elems) /\ keys' = Copied(keys)
  BY DEF Skip, loop
<1>3. skipped' = (skipped \/ FALSE \in Answers(keys[From][A(An - 1)], keys[From][B(0)]))
  BY DEF Skip
<1>4. /\ todo # <<>> /\ N \in Nat /\ rank \in [1 .. N -> Nat] /\ Places = 0 .. N - 1
      /\ lo \in Nat /\ n \in Nat /\ lo + n <= N /\ To \in Arrays /\ To = Call.to
      /\ T \in [0 .. N - 1 -> 0 .. N - 1] /\ F \in [0 .. N - 1 -> 0 .. N - 1]
      /\ elems \in [Arrays -> [0 .. N - 1 -> 0 .. N - 1]] /\ keys = elems
  BY <1>1, AtMerge
<1>5. /\ An \in Nat /\ 0 < An /\ An < n
      /\ Finished(rank, F, Ok, lo, An) /\ Finished(rank, F, Ok, lo + An, n - An)
      /\ Onto(F, N) /\ Respects(F, N, lo, n) /\ Onto(Virtual(To), N) /\ Respects(Virtual(To), N, lo, n)
  BY <1>1, AtMerge
<1>6. Virtual(To) = T
  BY <1>1 DEF Virtual, InInsertion
<1>7. elems' = [elems EXCEPT ![To] = g]
  BY <1>2, <1>4 DEF Copied
<1>8. Ok' => Ok /\ rank[F[lo + An - 1] + 1] <= rank[F[lo + An] + 1]
  <2>1. keys[From][A(An - 1)] = F[lo + An - 1] /\ keys[From][B(0)] = F[lo + An]
    <3>1. A(An - 1) = lo + An - 1 /\ B(0) = lo + An
      BY <1>4, <1>5 DEF A, B
    <3> QED
      BY <1>4, <3>1
  <2>2. Ok' => honest /\ ~skipped /\ ~(FALSE \in Answers(keys[From][A(An - 1)], keys[From][B(0)]))
    BY <1>2, <1>3 DEF Ok
  <2> HIDE DEF F, lo
  <2>3. Ok' => ~(FALSE \in Answers(F[lo + An - 1], F[lo + An]))
    BY <2>1, <2>2
  <2>4. honest /\ ~(FALSE \in Answers(F[lo + An - 1], F[lo + An])) => rank[F[lo + An - 1] + 1] <= rank[F[lo + An] + 1]
    <3> DEFINE x == rank[F[lo + An - 1] + 1]
               y == rank[F[lo + An] + 1]
    <3>1. F[lo + An - 1] \in 0 .. N - 1 /\ F[lo + An] \in 0 .. N - 1
      <4>1. lo \in Nat /\ n \in Nat /\ N \in Nat /\ An \in Nat /\ 0 < An /\ An < n /\ lo + n <= N
        BY <1>4, <1>5
      <4>2. lo + An - 1 \in 0 .. N - 1 /\ lo + An \in 0 .. N - 1
        BY <4>1
      <4>3. F \in [0 .. N - 1 -> 0 .. N - 1]
        BY <1>4
      <4> QED
        BY <4>2, <4>3
    <3>2. x \in Nat /\ y \in Nat
      BY <1>4, <3>1, RankNat
    <3>3. honest => Answers(F[lo + An - 1], F[lo + An]) = {x <= y}
      BY DEF Answers, Rank
    <3> HIDE DEF x, y
    <3>4. (x <= y) = TRUE \/ (x <= y) = FALSE
      BY <3>2
    <3> QED
      BY <3>3, <3>4 DEF x, y
  <2> QED
    BY <2>2, <2>3, <2>4 DEF Ok
<1>9. skipped' \in BOOLEAN
  BY <1>3
<1> HIDE DEF lo, n, T, F
<1>10. /\ \A p \in 0 .. N - 1 : p \in Region(lo, n) => g[p] = F[p]
       /\ \A p \in 0 .. N - 1 : p \notin Region(lo, n) => g[p] = T[p]
       /\ g \in [0 .. N - 1 -> 0 .. N - 1]
  <2>1. \A p \in 0 .. N - 1 : p \in Region(lo, n) <=> lo <= p /\ p < lo + n
    BY <1>4 DEF Region
  <2> QED
    BY <1>4, <2>1
<1> HIDE DEF g
<1>11. Region(lo, n) \subseteq 0 .. N - 1
  BY <1>4 DEF Region
<1>12. elems' \in [Arrays -> [0 .. N - 1 -> 0 .. N - 1]] /\ elems'[To] = g /\ WritesOnly(Call, N, elems, elems')
  BY <1>4, <1>7, <1>10, ArrayWrites DEF lo, n, T, Written
<1>13. Rearranged(Virtual(To), elems'[To], N, lo, n)
  <2>1. Rearranged(T, g, N, lo, n)
    BY <1>4, <1>5, <1>6, <1>10, <1>11, TakenOver
  <2> QED
    BY <1>6, <1>12, <2>1
<1>14. Finished(rank, elems'[To], Ok', lo, n)
  <2>1. \A p \in Region(lo, n) : F[p] \in Region(lo, n)
    BY <1>5, <1>11 DEF Respects
  <2>2. Ok' => SortedOn(rank, F, lo, n)
    <3>1. ASSUME Ok'
          PROVE  SortedOn(rank, F, lo, n)
      <4>1. Ok /\ rank[F[lo + An - 1] + 1] <= rank[F[lo + An] + 1]
        BY <1>8, <3>1
      <4>2. /\ SortedOn(rank, F, lo, An) /\ SortedOn(rank, F, lo + An, n - An)
            /\ \A p \in Region(lo, An) : F[p] \in Region(lo, An)
            /\ \A p \in Region(lo + An, n - An) : F[p] \in Region(lo + An, n - An)
        BY <1>5, <4>1 DEF Finished
      <4> QED
        BY <1>4, <1>5, <4>1, <4>2, SkippedSorted
    <3> QED
      BY <3>1
  <2>3. Finished(rank, F, Ok', lo, n)
    BY <2>1, <2>2 DEF Finished
  <2>4. \A p \in Region(lo, n) : g[p] = F[p]
    BY <1>10, <1>11
  <2>5. Finished(rank, g, Ok', lo, n)
    BY <2>3, <2>4, FinishedKept
  <2> QED
    BY <1>12, <2>5
<1>15. i' = 0 /\ j' = 0
  BY <1>1, <1>2 DEF IInv, Loops
<1>16. keys' = elems' /\ held'.k = held'.e
  BY <1>2, <1>4 DEF IInv, Together
<1>17. elems' \in [Arrays -> [Places -> Places]]
  BY <1>4, <1>12
<1>18. pc # "threw" /\ (Ok' => Ok)
  BY <1>1, <1>8
<1> QED
  BY <1>2, <1>4, <1>9, <1>12, <1>13, <1>14, <1>15, <1>16, <1>17, <1>18, Returns DEF lo, n

LEMMA CheckStep ==
  ASSUME IInv, Check
  PROVE  IInv'
<1> DEFINE lo == Call.lo
           n == Call.n
           T == elems[To]
           F == elems[From]
           g == Merged(T, F, N, lo, n, An, 0, 0)
<1>1. pc = "check" /\ pc' = "merge" /\ UNCHANGED <<rank, honest, elems, keys, i, j, held, todo, skipped>>
  BY DEF Check, arrays, loop
<1>2. /\ todo # <<>> /\ Call.do = "merge" /\ N \in Nat
      /\ lo \in Nat /\ n \in Nat /\ lo + n <= N
      /\ An \in Nat /\ 0 < An /\ An < n /\ Bn = n - An
      /\ Onto(F, N) /\ Respects(F, N, lo, n) /\ Onto(Virtual(To), N) /\ Respects(Virtual(To), N, lo, n)
  BY <1>1, AtMerge
<1>3. Virtual(To) = T
  BY <1>1 DEF Virtual, InInsertion
<1>4. i = 0 /\ j = 0
  BY <1>1 DEF IInv, Loops
<1>5. N' = N /\ Places' = Places /\ Call' = Call /\ To' = To /\ From' = From /\ An' = An /\ Bn' = Bn
  BY <1>1 DEF N, Places, Call, To, From, An, Bn
<1>6. Virtual(To)' = g
  BY <1>1, <1>4, <1>5 DEF Virtual, InInsertion
<1> HIDE DEF lo, n, T, F
<1>7. Rearranged(T, g, N, lo, n)
  <2>1. ASSUME NEW p \in 0 .. N - 1, p \notin Region(lo, n)
        PROVE  g[p] = T[p]
    <3>1. p < lo + 0 + 0 \/ lo + n <= p
      BY <1>2, <2>1 DEF Region
    <3> QED
      BY <3>1 DEF Merged
  <2>2. ASSUME NEW p \in Region(lo, n)
        PROVE  g[p] = F[p]
    <3>1. p \in 0 .. N - 1 /\ ~(p < lo + 0 + 0) /\ ~(lo + n <= p) /\ p - 0 = p
      BY <1>2 DEF Region
    <3> QED
      BY <3>1 DEF Merged
  <2> HIDE DEF g
  <2> QED
    BY <1>2, <1>3, <2>1, <2>2, TakenOver
<1>8. AllKept' /\ ToDo'
  <2>1. WritesOnly(Call, N, elems, elems') /\ Rearranged(Virtual(To), Virtual(To)', N, Call.lo, Call.n)
    BY <1>1, <1>3, <1>6, <1>7, SameWrites DEF lo, n
  <2> QED
    BY <1>1, <1>2, <2>1, Stays
<1>9. Types' /\ Together'
  BY <1>1, <1>5 DEF IInv, Types, Together, Pcs
<1>10. Loops'
  BY <1>1, <1>2, <1>4, <1>5 DEF Loops, InInsertion, InMerge, n
<1>11. Merges'
  <2>1. \A p \in Region(lo, 0 + 0) : FALSE
    BY <1>2 DEF Region
  <2>2. Ahead(rank, T, F, lo, 0 + 0, LeftOver(lo, n, An, 0, 0))
    BY <2>1 DEF Ahead, SortedOn
  <2> QED
    BY <1>1, <1>4, <1>5, <2>2 DEF Merges, lo, n, T, F
<1>12. Inserting'
  BY <1>1 DEF Inserting
<1> QED
  BY <1>8, <1>9, <1>10, <1>11, <1>12 DEF IInv

LEMMA MergePlace ==
  ASSUME NEW lo \in Nat, NEW n \in Nat, NEW x \in Nat, NEW y \in Nat, NEW a \in Nat, NEW b \in Nat,
         x < a, y < b, a + b = n
  PROVE  lo <= lo + x + y /\ lo + x + y <= lo + n - 1 /\ lo + x + y \in Int
OBVIOUS

LEMMA Remainder ==
  ASSUME NEW n \in Nat, NEW a \in Nat, a < n, NEW b, b = n - a
  PROVE  b \in Nat /\ 0 < b /\ a + b = n
OBVIOUS

LEMMA TakeWrites ==
  ASSUME IInv, pc = "merge", i < An, j < Bn, NEW q \in 0 .. N - 1, Take(q)
  PROVE  /\ elems' \in [Arrays -> [0 .. N - 1 -> 0 .. N - 1]] /\ keys' = elems'
         /\ elems'[To] = [elems[To] EXCEPT ![Call.lo + i + j] = elems[From][q]]
         /\ elems'[From] = elems[From]
         /\ WritesOnly(Call, N, elems, elems')
<1> DEFINE k == Call.lo + i + j
           g == [elems[To] EXCEPT ![k] = elems[From][q]]
<1>1. /\ todo # <<>> /\ N \in Nat /\ Call.lo \in Nat /\ Call.n \in Nat /\ Call.lo + Call.n <= N
      /\ To \in Arrays /\ To = Call.to /\ To # From /\ From \in Arrays
      /\ elems \in [Arrays -> [0 .. N - 1 -> 0 .. N - 1]]
      /\ elems[To] \in [0 .. N - 1 -> 0 .. N - 1] /\ elems[From] \in [0 .. N - 1 -> 0 .. N - 1]
      /\ An \in Nat /\ An < Call.n /\ Bn = Call.n - An /\ keys = elems
  BY AtMerge
<1>2. i \in Nat /\ j \in Nat
  BY DEF IInv, Loops, Types, InMerge
<1>3. k \in Region(Call.lo, Call.n) /\ k \in 0 .. N - 1
  <2>1. Call.lo <= k /\ k <= Call.lo + Call.n - 1 /\ k \in Int
    <3>1. /\ Call.lo \in Nat /\ Call.n \in Nat /\ i \in Nat /\ j \in Nat /\ An \in Nat /\ Bn \in Nat
          /\ i < An /\ j < Bn /\ An + Bn = Call.n
      <4>1. Call.n \in Nat /\ An \in Nat /\ An < Call.n /\ Bn = Call.n - An
        BY <1>1
      <4>2. Bn \in Nat /\ An + Bn = Call.n
        BY <4>1, Remainder
      <4>3. i < An /\ j < Bn
        OBVIOUS
      <4> QED
        BY <1>1, <1>2, <4>2, <4>3
    <3> QED
      BY <3>1, MergePlace
  <2>2. Call.lo \in Nat /\ Call.n \in Nat /\ N \in Nat /\ Call.lo + Call.n <= N
    BY <1>1
  <2> HIDE DEF k
  <2>3. PICK lo, n : lo = Call.lo /\ n = Call.n
    OBVIOUS
  <2>4. k \in Region(lo, n) /\ k \in 0 .. N - 1
    BY <2>1, <2>2, <2>3 DEF Region
  <2> QED
    BY <2>3, <2>4
<1>4. elems' = [elems EXCEPT ![To][k] = elems[From][q]] /\ keys' = elems'
  BY <1>1 DEF Take, Put
<1> HIDE DEF k
<1>5. g \in [0 .. N - 1 -> 0 .. N - 1] /\ \A p \in 0 .. N - 1 : p \notin Region(Call.lo, Call.n) => g[p] = elems[To][p]
  BY <1>1, <1>3
<1>6. elems' = [elems EXCEPT ![To] = g]
  BY <1>1, <1>4
<1> HIDE DEF g
<1>7. elems' \in [Arrays -> [0 .. N - 1 -> 0 .. N - 1]] /\ elems'[To] = g /\ WritesOnly(Call, N, elems, elems')
  BY <1>1, <1>5, <1>6, ArrayWrites DEF Written
<1>8. elems'[From] = elems[From]
  BY <1>1, <1>6
<1> QED
  BY <1>4, <1>7, <1>8 DEF g, k

LEMMA MergeMoves ==
  ASSUME IInv, pc = "merge", i < An, j < Bn, NEW q \in 0 .. N - 1, Take(q),
         UNCHANGED <<rank, honest, pc, todo, held, skipped>>,
         i' \in Nat, j' \in Nat, i' <= An, j' <= Bn,
         Rearranged(Virtual(To), Merged(elems'[To], elems[From], N, Call.lo, Call.n, An, i', j'), N, Call.lo, Call.n),
         Ok => Ahead(rank, elems'[To], elems[From], Call.lo, i' + j', LeftOver(Call.lo, Call.n, An, i', j'))
  PROVE  IInv'
<1>1. /\ elems' \in [Arrays -> [0 .. N - 1 -> 0 .. N - 1]] /\ keys' = elems'
      /\ elems'[From] = elems[From] /\ WritesOnly(Call, N, elems, elems')
  BY TakeWrites
<1>2. todo # <<>> /\ Call.do = "merge" /\ Places = 0 .. N - 1
  BY AtMerge
<1>3. N' = N /\ Places' = Places /\ Call' = Call /\ To' = To /\ From' = From /\ An' = An /\ Bn' = Bn
  BY DEF N, Places, Call, To, From, An, Bn
<1>4. AllKept' /\ ToDo'
  <2>1. Virtual(To)' = Merged(elems'[To], elems[From], N, Call.lo, Call.n, An, i', j')
    BY <1>1, <1>2, <1>3 DEF Virtual, InInsertion
  <2> QED
    BY <1>1, <1>2, <2>1, Stays
<1>5. Types' /\ Together'
  BY <1>1, <1>2, <1>3 DEF IInv, Types, Together
<1>6. Loops'
  BY <1>2, <1>3 DEF Loops, InInsertion, InMerge
<1>7. Merges' /\ Inserting'
  BY <1>1, <1>3 DEF Merges, Inserting, Ok
<1> QED
  BY <1>4, <1>5, <1>6, <1>7 DEF IInv

LEMMA MergeFits ==
  ASSUME NEW m \in Nat, NEW lo \in Nat, NEW n \in Nat, lo + n <= m,
         NEW x \in Nat, x < n
  PROVE  /\ lo + x \in 0 .. m - 1 /\ lo + x \in Region(lo + x, n - x) /\ lo + x \in Region(lo, n)
         /\ x + 1 <= n
BY DEF Region

LEMMA RegionsOrdered ==
  ASSUME NEW lo \in Nat, NEW a \in Nat, NEW n \in Nat,
         NEW x \in Region(lo, a), NEW y \in Region(lo + a, n - a)
  PROVE  x < y
BY DEF Region

(* What comes behind the first places of a sorted half. *)
LEMMA RestPrecedes ==
  ASSUME NEW r, NEW f, NEW lo \in Nat, NEW n \in Nat, NEW x \in Nat, x < n, SortedOn(r, f, lo, n)
  PROVE  \A z \in Region(lo + (x + 1), n - (x + 1)) : Precedes(r, f[lo + x], f[z])
<1>1. lo + x \in Region(lo, n)
  BY DEF Region
<1>2. \A z \in Region(lo + (x + 1), n - (x + 1)) : z \in Region(lo, n) /\ lo + x < z
  BY DEF Region
<1> QED
  BY <1>1, <1>2 DEF SortedOn

LEMMA MergeStep ==
  ASSUME IInv, Merge
  PROVE  IInv'
<1> DEFINE lo == Call.lo
           n == Call.n
           T == elems[To]
           F == elems[From]
           U == elems'[To]
           p == lo + i
           q == lo + An + j
<1>1. pc = "merge" /\ i < An /\ j < Bn /\ UNCHANGED <<rank, honest, pc, todo, held, skipped>>
  BY DEF Merge
<1>2. /\ N \in Nat /\ rank \in [1 .. N -> Nat] /\ lo \in Nat /\ n \in Nat /\ lo + n <= N
      /\ T \in [0 .. N - 1 -> 0 .. N - 1] /\ F \in [0 .. N - 1 -> 0 .. N - 1]
      /\ An \in Nat /\ 0 < An /\ An < n /\ Bn = n - An /\ keys = elems
  BY <1>1, AtMerge
<1>3. Finished(rank, F, Ok, lo, An) /\ Finished(rank, F, Ok, lo + An, n - An)
  BY <1>1, AtMerge
<1>4. i \in Nat /\ j \in Nat
  BY <1>1 DEF IInv, Loops, Types, InMerge
<1>5. Virtual(To) = Merged(T, F, N, lo, n, An, i, j)
  BY <1>1 DEF Virtual, InInsertion
<1>6. Ok => Ahead(rank, T, F, lo, i + j, LeftOver(lo, n, An, i, j))
  BY <1>1 DEF IInv, Merges
<1>7. \/ TRUE \in Answers(F[p], F[q]) /\ Take(p) /\ i' = i + 1 /\ j' = j
      \/ FALSE \in Answers(F[p], F[q]) /\ Take(q) /\ j' = j + 1 /\ i' = i
  <2>1. A(i) = p /\ B(j) = q
    BY DEF A, B
  <2> QED
    BY <1>2, <2>1 DEF Merge
<1>8. j < n - An /\ i <= An /\ j <= n - An
  BY <1>1, <1>2, <1>4
<1> HIDE DEF lo, n, T, F
<1>0. lo + An \in Nat /\ n - An \in Nat /\ (lo + An) + (n - An) <= N /\ lo + An <= N /\ An <= n
  BY <1>2
<1>9. /\ p \in 0 .. N - 1 /\ p \in Region(lo, An)
      /\ q \in 0 .. N - 1 /\ q \in Region(lo + An, n - An)
  <2>1. lo + i \in 0 .. N - 1 /\ lo + i \in Region(lo, An)
    BY <1>0, <1>1, <1>2, <1>4, MergeFits
  <2> DEFINE l == lo + An
             r == n - An
  <2>2. l \in Nat /\ r \in Nat /\ l + r <= N /\ N \in Nat /\ j < r
    BY <1>0, <1>2, <1>8
  <2> HIDE DEF l, r
  <2>3. l + j \in 0 .. N - 1 /\ l + j \in Region(l, r)
    BY <1>4, <2>2, MergeFits
  <2> QED
    BY <2>1, <2>3 DEF l, r
<1>10. F[p] \in Region(lo, An) /\ F[q] \in Region(lo + An, n - An) /\ F[p] \in 0 .. N - 1 /\ F[q] \in 0 .. N - 1
  BY <1>2, <1>3, <1>9 DEF Finished
<1> HIDE DEF p, q
<1>11. F[p] < F[q]
  BY <1>2, <1>10, RegionsOrdered
<1>14. i + j \in Nat /\ lo + (i + j) < N /\ lo + i + j = lo + (i + j)
       /\ (i + 1) + j = (i + j) + 1 /\ i + (j + 1) = (i + j) + 1
  BY <1>1, <1>2, <1>4, <1>8
<1>12. CASE TRUE \in Answers(F[p], F[q]) /\ Take(p) /\ i' = i + 1 /\ j' = j
  <2>1. U = [T EXCEPT ![lo + (i + j)] = F[p]]
    BY <1>1, <1>9, <1>12, <1>14, TakeWrites DEF lo, T, F
  <2> HIDE DEF U
  <2>2. Rearranged(Merged(T, F, N, lo, n, An, i, j), Merged(U, F, N, lo, n, An, i + 1, j), N, lo, n)
    <3>1. i < An /\ An <= n /\ j <= n - An /\ U = [T EXCEPT ![lo + i + j] = F[lo + i]]
      BY <1>0, <1>1, <1>8, <1>14, <2>1 DEF p
    <3> QED
      BY <1>2, <1>4, <3>1, MergedTakesA
  <2>3. ASSUME Ok
        PROVE  Ahead(rank, U, F, lo, (i + j) + 1, LeftOver(lo, n, An, i + 1, j))
    <3>1. SortedOn(rank, F, lo, An) /\ SortedOn(rank, F, lo + An, n - An)
      BY <1>3, <2>3 DEF Finished
    <3>2. rank[F[p] + 1] <= rank[F[q] + 1]
      BY <1>12, <2>3 DEF Ok, Answers, Rank
    <3>3. Precedes(rank, F[p], F[q])
      BY <1>2, <1>10, <1>11, <3>2, PrecedesLess
    <3>4. \A z \in Region(lo + (i + 1), An - (i + 1)) : Precedes(rank, F[p], F[z])
      BY <1>1, <1>2, <1>4, <3>1, RestPrecedes DEF p
    <3>5. \A z \in Region(lo + An + j, n - An - j) : Precedes(rank, F[p], F[z])
      BY <1>0, <1>2, <1>4, <1>8, <1>10, <3>1, <3>3, FirstPrecedes DEF q
    <3>6. Ahead(rank, T, F, lo, i + j, LeftOver(lo, n, An, i, j))
      BY <1>6, <2>3
    <3> QED
      <4> DEFINE S == LeftOver(lo, n, An, i, j)
                 S2 == LeftOver(lo, n, An, i + 1, j)
      <4>1. p \in S /\ S2 \subseteq S
        BY <1>0, <1>1, <1>2, <1>4, <1>8, TakesA DEF p
      <4>2. \A z \in S2 : Precedes(rank, F[p], F[z])
        BY <3>4, <3>5 DEF LeftOver
      <4> HIDE DEF S, S2
      <4>3. Ahead(rank, T, F, lo, i + j, S)
        BY <3>6 DEF S
      <4>4. Ahead(rank, U, F, lo, (i + j) + 1, S2)
        BY <1>2, <1>14, <2>1, <4>1, <4>2, <4>3, AheadTakes
      <4> QED
        BY <4>4 DEF S2
  <2>4. i' \in Nat /\ j' \in Nat /\ i' <= An /\ j' <= Bn
    BY <1>1, <1>2, <1>4, <1>8, <1>12
  <2>5. Rearranged(Virtual(To), Merged(U, F, N, lo, n, An, i', j'), N, lo, n)
    BY <1>5, <1>12, <2>2
  <2>6. Ok => Ahead(rank, U, F, lo, i' + j', LeftOver(lo, n, An, i', j'))
    BY <1>12, <1>14, <2>3
  <2> QED
    BY <1>1, <1>9, <1>12, <2>4, <2>5, <2>6, MergeMoves DEF lo, n, F, U
<1>13. CASE FALSE \in Answers(F[p], F[q]) /\ Take(q) /\ j' = j + 1 /\ i' = i
  <2>1. U = [T EXCEPT ![lo + (i + j)] = F[q]]
    BY <1>1, <1>9, <1>13, <1>14, TakeWrites DEF lo, T, F
  <2> HIDE DEF U
  <2>2. Rearranged(Merged(T, F, N, lo, n, An, i, j), Merged(U, F, N, lo, n, An, i, j + 1), N, lo, n)
    <3>1. i <= An /\ An <= n /\ j < n - An /\ U = [T EXCEPT ![lo + i + j] = F[lo + An + j]]
      BY <1>0, <1>1, <1>8, <1>14, <2>1 DEF q
    <3> QED
      BY <1>2, <1>4, <3>1, MergedTakesB
  <2>3. ASSUME Ok
        PROVE  Ahead(rank, U, F, lo, (i + j) + 1, LeftOver(lo, n, An, i, j + 1))
    <3>1. SortedOn(rank, F, lo, An) /\ SortedOn(rank, F, lo + An, n - An)
      BY <1>3, <2>3 DEF Finished
    <3>2. ~(rank[F[p] + 1] <= rank[F[q] + 1])
      BY <1>13, <2>3 DEF Ok, Answers, Rank
    <3>3. Precedes(rank, F[q], F[p])
      BY <1>2, <1>10, <3>2, PrecedesLess
    <3>4. \A z \in Region(lo + An + (j + 1), n - An - (j + 1)) : Precedes(rank, F[q], F[z])
      BY <1>0, <1>2, <1>4, <1>8, <3>1, RestPrecedes DEF q
    <3>5. \A z \in Region(lo + i, An - i) : Precedes(rank, F[q], F[z])
      BY <1>0, <1>1, <1>2, <1>4, <1>10, <3>1, <3>3, FirstPrecedes DEF p
    <3>6. Ahead(rank, T, F, lo, i + j, LeftOver(lo, n, An, i, j))
      BY <1>6, <2>3
    <3> QED
      <4> DEFINE S == LeftOver(lo, n, An, i, j)
                 S2 == LeftOver(lo, n, An, i, j + 1)
      <4>1. q \in S /\ S2 \subseteq S
        BY <1>0, <1>1, <1>2, <1>4, <1>8, TakesB DEF q
      <4>2. \A z \in S2 : Precedes(rank, F[q], F[z])
        BY <3>4, <3>5 DEF LeftOver
      <4> HIDE DEF S, S2
      <4>3. Ahead(rank, T, F, lo, i + j, S)
        BY <3>6 DEF S
      <4>4. Ahead(rank, U, F, lo, (i + j) + 1, S2)
        BY <1>2, <1>14, <2>1, <4>1, <4>2, <4>3, AheadTakes
      <4> QED
        BY <4>4 DEF S2
  <2>4. i' \in Nat /\ j' \in Nat /\ i' <= An /\ j' <= Bn
    BY <1>1, <1>2, <1>4, <1>8, <1>13
  <2>5. Rearranged(Virtual(To), Merged(U, F, N, lo, n, An, i', j'), N, lo, n)
    BY <1>5, <1>13, <2>2
  <2>6. Ok => Ahead(rank, U, F, lo, i' + j', LeftOver(lo, n, An, i', j'))
    BY <1>13, <1>14, <2>3
  <2> QED
    BY <1>1, <1>9, <1>13, <2>4, <2>5, <2>6, MergeMoves DEF lo, n, F, U
<1> QED
  BY <1>7, <1>12, <1>13

LEMMA MergeRestStep ==
  ASSUME IInv, MergeRest
  PROVE  IInv'
<1> DEFINE lo == Call.lo
           n == Call.n
           T == elems[To]
           F == elems[From]
           g == Merged(T, F, N, lo, n, An, i, j)
           f == [p \in Places |-> IF p < lo + i + j \/ p >= lo + n THEN T[p]
                                  ELSE IF i < An THEN F[p - j] ELSE F[p]]
<1>1. /\ pc = "merge" /\ (i = An \/ j = Bn) /\ UNCHANGED <<rank, honest, held, skipped>>
      /\ pc' = "next" /\ todo' = Tail(todo) /\ i' = 0 /\ j' = 0
  BY DEF MergeRest
<1>2. /\ todo # <<>> /\ N \in Nat /\ lo \in Nat /\ n \in Nat /\ lo + n <= N /\ Places = 0 .. N - 1
      /\ To \in Arrays /\ To = Call.to
      /\ elems \in [Arrays -> [0 .. N - 1 -> 0 .. N - 1]]
      /\ T \in [0 .. N - 1 -> 0 .. N - 1] /\ F \in [0 .. N - 1 -> 0 .. N - 1]
      /\ An \in Nat /\ 0 < An /\ An < n /\ Bn = n - An /\ keys = elems
  BY <1>1, AtMerge
<1>3. Finished(rank, F, Ok, lo, An) /\ Finished(rank, F, Ok, lo + An, n - An)
  BY <1>1, AtMerge
<1>4. i \in Nat /\ j \in Nat /\ i <= An /\ j <= Bn
  BY <1>1 DEF IInv, Loops, Types, InMerge
<1>5. Virtual(To) = g /\ Respects(g, N, lo, n)
  <2>1. Virtual(To) = g
    BY <1>1 DEF Virtual, InInsertion
  <2> QED
    BY <1>1, <2>1, AtMerge
<1>6. Ok => Ahead(rank, T, F, lo, i + j, LeftOver(lo, n, An, i, j))
  BY <1>1 DEF IInv, Merges
<1>7. elems' = [elems EXCEPT ![To] = f] /\ keys' = elems'
  BY <1>2 DEF MergeRest
<1> HIDE DEF lo, n, T, F
<1>8. f = g
  <2>1. ASSUME NEW p \in 0 .. N - 1
        PROVE  f[p] = g[p]
    <3>1. f[p] = IF p < lo + i + j \/ p >= lo + n THEN T[p] ELSE IF i < An THEN F[p - j] ELSE F[p]
      BY <1>2
    <3>2. CASE p < lo + i + j \/ lo + n <= p
      BY <1>2, <3>1, <3>2 DEF Merged
    <3>3. CASE ~(p < lo + i + j \/ lo + n <= p)
      <4>1. i < An <=> p < lo + An + j
        <5>1. CASE i = An
          BY <1>2, <1>4, <3>3, <5>1
        <5>2. CASE j = Bn /\ i # An
          BY <1>2, <1>4, <3>3, <5>2
        <5> QED
          BY <1>1, <5>1, <5>2
      <4>2. f[p] = IF i < An THEN F[p - j] ELSE F[p]
        BY <1>2, <3>1, <3>3
      <4>3. g[p] = IF p < lo + An + j THEN F[p - j] ELSE F[p]
        BY <3>3 DEF Merged
      <4> QED
        BY <4>1, <4>2, <4>3
    <3> QED
      BY <3>2, <3>3
  <2> QED
    BY <1>2, <2>1 DEF Merged
<1> HIDE DEF f
<1>9. /\ \A p \in 0 .. N - 1 : p \notin Region(lo, n) => g[p] = T[p]
      /\ g \in [0 .. N - 1 -> 0 .. N - 1]
  <2>1. ASSUME NEW p \in 0 .. N - 1, p \notin Region(lo, n)
        PROVE  g[p] = T[p]
    <3>1. p < lo + i + j \/ lo + n <= p
      BY <1>2, <1>4, <2>1 DEF Region
    <3> QED
      BY <3>1 DEF Merged
  <2>2. ASSUME NEW p \in 0 .. N - 1
        PROVE  g[p] \in 0 .. N - 1
    <3>1. CASE p < lo + i + j \/ lo + n <= p
      BY <1>2, <3>1 DEF Merged
    <3>2. CASE ~(p < lo + i + j \/ lo + n <= p)
      <4>1. g[p] = IF p < lo + An + j THEN F[p - j] ELSE F[p]
        BY <3>2 DEF Merged
      <4>2. p - j \in 0 .. N - 1
        BY <1>2, <1>4, <3>2
      <4> QED
        BY <1>2, <4>1, <4>2
    <3> QED
      BY <3>1, <3>2
  <2> QED
    BY <2>1, <2>2 DEF Merged
<1> HIDE DEF g
<1>10. elems' \in [Arrays -> [0 .. N - 1 -> 0 .. N - 1]] /\ elems'[To] = g /\ WritesOnly(Call, N, elems, elems')
  BY <1>2, <1>7, <1>8, <1>9, ArrayWrites DEF lo, n, T, Written
<1>11. Ok' => Ok
  BY <1>1 DEF Ok
<1>12. Finished(rank, elems'[To], Ok', lo, n)
  <2>1. ASSUME NEW p \in Region(lo, n)
        PROVE  g[p] \in Region(lo, n)
    <3>1. p \in 0 .. N - 1
      BY <1>2 DEF Region
    <3> QED
      BY <1>5, <3>1 DEF Respects
  <2>2. ASSUME Ok
        PROVE  SortedOn(rank, g, lo, n)
    <3>1. SortedOn(rank, F, lo, An) /\ SortedOn(rank, F, lo + An, n - An) /\ Ahead(rank, T, F, lo, i + j, LeftOver(lo, n, An, i, j))
      BY <1>3, <1>6, <2>2 DEF Finished
    <3>2. An <= n /\ j <= n - An /\ (i = An \/ j = n - An)
      BY <1>1, <1>2, <1>4
    <3> QED
      BY <1>2, <1>4, <3>1, <3>2, MergedSorted DEF g
  <2> QED
    BY <1>10, <1>11, <2>1, <2>2 DEF Finished
<1>13. elems' \in [Arrays -> [Places -> Places]] /\ skipped' \in BOOLEAN /\ held'.k = held'.e
  BY <1>1, <1>2, <1>10 DEF IInv, Types, Together
<1>14. Rearranged(Virtual(To), elems'[To], N, lo, n)
  BY <1>5, <1>10, RearrangedSame
<1> QED
  BY <1>1, <1>2, <1>7, <1>10, <1>11, <1>12, <1>13, <1>14, Returns DEF lo, n

LEMMA ReturnStep ==
  ASSUME IInv, Return
  PROVE  IInv'
<1>1. pc = "next" /\ todo = <<>> /\ pc' = "sorted"
  BY DEF Return
<1>2. UNCHANGED <<rank, honest, elems, keys, todo, i, j, held, skipped>>
  BY DEF Return, arrays, loop
<1>3. N' = N /\ Places' = Places /\ Call' = Call /\ To' = To /\ From' = From
  BY <1>2 DEF N, Places, Call, To, From
<1>4. \A a \in Arrays : Virtual(a)' = Virtual(a)
  BY <1>1, <1>2, <1>3 DEF Virtual, InInsertion
<1>5. AllKept'
  BY <1>1, <1>2, <1>3, <1>4 DEF IInv, AllKept
<1>6. ToDo'
  BY <1>1, <1>2, <1>3 DEF IInv, ToDo, Ok
<1>7. Types' /\ Together'
  BY <1>1, <1>2, <1>3 DEF IInv, Types, Together, Pcs
<1>8. Loops'
  BY <1>1, <1>2 DEF IInv, Loops, InInsertion, InMerge
<1> QED
  BY <1>1, <1>5, <1>6, <1>7, <1>8 DEF IInv, Inserting, Merges

LEMMA Stutters ==
  ASSUME IInv, UNCHANGED vars
  PROVE  IInv'
<1>1. UNCHANGED <<rank, honest, elems, keys, pc, todo, i, j, held, skipped>>
  BY DEF vars, arrays, loop
<1>2. N' = N /\ Places' = Places /\ Call' = Call /\ To' = To /\ From' = From /\ An' = An /\ Bn' = Bn
  BY <1>1 DEF N, Places, Call, To, From, An, Bn
<1>3. InInsertion' = InInsertion /\ InMerge' = InMerge
  BY <1>1, <1>2 DEF InInsertion, InMerge
<1>4. \A a \in Arrays : Virtual(a)' = Virtual(a)
  BY <1>1, <1>2, <1>3 DEF Virtual
<1>5. AllKept'
  BY <1>1, <1>2, <1>4 DEF IInv, AllKept
<1>6. ToDo' /\ Types' /\ Together'
  BY <1>1, <1>2 DEF IInv, ToDo, Ok, Types, Together
<1>7. Loops'
  BY <1>1, <1>2, <1>3 DEF IInv, Loops
<1>8. Inserting' /\ Merges'
  BY <1>1, <1>2 DEF IInv, Inserting, Merges, Ok
<1> QED
  BY <1>5, <1>6, <1>7, <1>8 DEF IInv

-----------------------------------------------------------------------------
(* The invariant holds of every state: whatever the comparisons answer and *)
(* wherever one throws, the calls of my_mergesort and my_merge that have   *)
(* not returned divide the list, both arrays hold every element once, and  *)
(* what a call is given is as it expects it.                               *)
THEOREM Invariant == Spec => []IInv
<1>1. Init => IInv
  BY Initially
<1>2. IInv /\ [Next]_vars => IInv'
  <2> SUFFICES ASSUME IInv, [Next]_vars
               PROVE  IInv'
    OBVIOUS
  <2>1. CASE Return
    BY <2>1, ReturnStep
  <2>2. CASE Short
    BY <2>2, ShortStep
  <2>3. CASE Divide
    BY <2>3, DivideStep
  <2>4. CASE BeginInsertion
    BY <2>4, BeginInsertionStep
  <2>5. CASE Place
    BY <2>5, PlaceStep
  <2>6. CASE Shift
    BY <2>6, ShiftStep
  <2>7. CASE BeginMerge
    BY <2>7, BeginMergeStep
  <2>8. CASE Skip
    BY <2>8, SkipStep
  <2>9. CASE Check
    BY <2>9, CheckStep
  <2>10. CASE Merge
    BY <2>10, MergeStep
  <2>11. CASE MergeRest
    BY <2>11, MergeRestStep
  <2>12. CASE Throws
    BY <2>12, ThrowsStep
  <2>13. CASE UNCHANGED vars
    BY <2>13, Stutters
  <2> QED
    BY <2>1, <2>2, <2>3, <2>4, <2>5, <2>6, <2>7, <2>8, <2>9, <2>10, <2>11, <2>12, <2>13
    DEF Next, Progress, Ended
<1> QED
  BY <1>1, <1>2, PTL DEF Spec

LEMMA Typed ==
  ASSUME IInv
  PROVE  TypeOK
<1>1. N \in Nat /\ Places = 0 .. N - 1
  BY Sizes DEF IInv
<1>2. /\ rank \in Lists /\ honest \in BOOLEAN /\ skipped \in BOOLEAN
      /\ elems \in [Arrays -> [Places -> Places]]
      /\ keys \in [Arrays -> [Places -> Places]]
      /\ pc \in Pcs
      /\ todo \in Seq([do : {"sort", "merge"}, lo : Nat, n : Nat, to : Arrays])
  BY DEF IInv, Types, Together, CallType
<1>3. \A k \in DOMAIN todo : todo[k].lo + todo[k].n <= N
  <2>1. DOMAIN todo = 1 .. Len(todo)
    BY <1>2
  <2> QED
    BY <2>1 DEF IInv, ToDo, Nested
<1>4. pc \notin {"next", "sorted"} => todo # <<>>
  BY DEF IInv, Loops
<1>5. CASE pc \in {"next", "check", "sorted"}
  <2>1. i = 0 /\ j = 0
    BY <1>5 DEF IInv, Loops
  <2>2. i \in 0 .. N /\ j \in -1 .. N
    BY <1>1, <2>1
  <2> QED
    BY <1>2, <1>3, <1>4, <1>5, <2>2 DEF TypeOK
<1>6. CASE pc \in {"insert", "merge", "threw"}
  <2>1. Call.do \in {"sort", "merge"} /\ Call.lo \in Nat /\ Call.n \in Nat /\ Call.lo + Call.n <= N
    BY <1>4, <1>6, Current DEF IInv, ToDo
  <2>2. i \in Int /\ j \in Int
    BY DEF IInv, Types
  <2>3. CASE InInsertion
    <3>1. 0 < i /\ i < Call.n /\ -1 <= j /\ j < i /\ held.e = Call.lo + i /\ held.k = held.e
      BY <2>3 DEF IInv, Loops, Together
    <3>2. i \in 0 .. N /\ j \in -1 .. N /\ held.e \in Places /\ held.k \in Places /\ j < i
      BY <1>1, <2>1, <2>2, <3>1
    <3>3. pc # "merge"
      BY <2>3 DEF InInsertion
    <3> QED
      BY <1>2, <1>3, <1>4, <3>2, <3>3 DEF TypeOK
  <2>4. CASE InMerge
    <3>1. 0 <= i /\ i <= An /\ 0 <= j /\ j <= Bn
      BY <2>4 DEF IInv, Loops
    <3>2. An \in Nat /\ Bn = Call.n - An
      BY <2>1 DEF An, Bn
    <3>3. i \in 0 .. N /\ j \in -1 .. N /\ i + j <= Call.n
      BY <1>1, <2>1, <2>2, <3>1, <3>2
    <3>4. pc # "insert"
      BY <2>4 DEF InMerge
    <3> QED
      BY <1>2, <1>3, <1>4, <3>1, <3>3, <3>4 DEF TypeOK
  <2> QED
    BY <1>6, <2>1, <2>3, <2>4 DEF InInsertion, InMerge, IInv, Loops
<1> QED
  BY <1>2, <1>5, <1>6 DEF Pcs

LEMMA OntoWhole ==
  ASSUME Types, NEW s \in [Places -> Places], Onto(s, N)
  PROVE  Whole(s)
BY Sizes DEF Onto, Whole

(* Whatever the comparisons answer, and wherever one throws, no loop       *)
(* leaves its array, no element is lost or doubled, and each keeps its key,*)
(* but for what the insertion sort holds and the array a merge writes to.  *)
THEOREM Keeping == Spec => []NothingLost
<1>1. IInv => NothingLost
  <2> SUFFICES ASSUME IInv
               PROVE  NothingLost
    OBVIOUS
  <2> DEFINE Filled(a, s, x) == IF InInsertion /\ a = To THEN [s[a] EXCEPT ![Call.lo + j + 1] = x] ELSE s[a]
  <2>1. TypeOK
    BY Typed
  <2>2. ASSUME NEW a \in Arrays \ {IF InMerge THEN To ELSE "none"}
        PROVE  Whole(Filled(a, elems, held.e)) /\ Filled(a, elems, held.e) = Filled(a, keys, held.k)
    <3>1. Filled(a, elems, held.e) = Filled(a, keys, held.k)
      BY DEF IInv, Together
    <3>2. Virtual(a) = Filled(a, elems, held.e)
      BY <2>2 DEF Virtual, InMerge, IInv, Loops
    <3>3. Onto(Virtual(a), N)
      BY <2>2 DEF IInv, AllKept, Kept, InMerge
    <3>4. Filled(a, elems, held.e) \in [Places -> Places]
      <4>1. elems[a] \in [Places -> Places]
        BY <2>1, <2>2 DEF TypeOK
      <4>2. CASE InInsertion /\ a = To
        <5>1. held.e \in Places
          <6>1. todo # <<>> /\ i \in Int /\ 0 < i /\ i < Call.n /\ held.e = Call.lo + i
            BY <4>2 DEF IInv, Loops, Types, InInsertion
          <6> QED
            BY <6>1, Current, Sizes DEF IInv, ToDo
        <5> QED
          BY <4>1, <4>2, <5>1
      <4> QED
        BY <4>1, <4>2
    <3> QED
      BY <3>1, <3>2, <3>3, <3>4, OntoWhole DEF IInv
  <2> QED
    BY <2>1, <2>2 DEF NothingLost
<1> QED
  BY <1>1, Invariant, PTL

(* When sort returns without an exception, the comparisons having followed *)
(* the order of the keys, the list is sorted and equal keys are in the     *)
(* order they had, unless a merge was skipped that was needed.             *)
THEOREM Sorted == Spec => []SortedUnlessSkipped
<1>1. IInv => SortedUnlessSkipped
  <2> SUFFICES ASSUME IInv, pc = "sorted", honest, ~skipped,
                      NEW p \in Places, NEW q \in Places, p < q
               PROVE  Before(elems["main"][p], elems["main"][q])
    BY DEF SortedUnlessSkipped
  <2>1. todo = <<>> /\ Len(todo) = 0
    BY DEF IInv, Loops
  <2>2. Seen(todo, Len(todo), rank, elems, Ok, 0, N, "main")
    BY DEF IInv, ToDo, AllSeen
  <2>3. Finished(rank, elems["main"], Ok, 0, N)
    BY <2>1, <2>2 DEF Seen, Pending
  <2>4. SortedOn(rank, elems["main"], 0, N)
    BY <2>3 DEF Finished, Ok
  <2>5. p \in Region(0, N) /\ q \in Region(0, N)
    BY Sizes DEF IInv, Region
  <2> QED
    BY <2>4, <2>5 DEF SortedOn, Precedes, Before, Rank
<1> QED
  BY <1>1, Invariant, PTL
=============================================================================
