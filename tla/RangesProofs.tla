---------------------------- MODULE RangesProofs ----------------------------
(***************************************************************************)
(* Proofs about range and its iterator, for any width of C's integers, and *)
(* any bounds and steps.                                                   *)
(***************************************************************************)
EXTENDS Ranges, FiniteSetTheorems, TLAPS

Widths == Half \in Nat \ {0} /\ Beyond \in Nat /\ MaxStride \in Nat

Bound == -Half - Beyond .. Half + Beyond

Type ==
    /\ range \in [start : Bound, end : Bound, step : Int \ {0}]
    /\ use_ci \in BOOLEAN
    /\ use_ci <=> \A f \in {"start", "end", "step"} : range[f] \in CInts
    /\ counter \in Int
    /\ done \in BOOLEAN
    /\ yielded \in Seq(Int)

-----------------------------------------------------------------------------
(* Numbers *)

LEMMA Product ==
  ASSUME NEW a \in Int, NEW b \in Int
  PROVE  a * b \in Int
  OBVIOUS

LEMMA More ==
  ASSUME NEW m \in Nat, NEW a \in Int, NEW b \in Int, a < b
  PROVE  a * m + m <= b * m
<1>1. PICK c \in Nat : b = a + 1 + c
  <2>1. b - a - 1 \in Nat /\ b = a + 1 + (b - a - 1)
    OBVIOUS
  <2> QED
    BY <2>1
<1>2. (a + 1 + c) * m = a * m + m + c * m
  OBVIOUS
<1>3. c * m \in Nat /\ a * m \in Int /\ b * m \in Int
  BY <1>1
<1> QED
  BY <1>1, <1>2, <1>3

LEMMA Negative ==
  ASSUME NEW a \in Int, NEW b \in Int
  PROVE  a * (-b) = -(a * b)
  OBVIOUS

(* A multiple leaves no remainder, and what leaves none is a multiple. *)
LEMMA Multiples ==
  ASSUME NEW m \in Nat \ {0}, NEW x \in Int
  PROVE  x % m = 0 <=> \E q \in Int : x = q * m
<1> DEFINE p == x \div m
           s == x % m
<1>1. p \in Int /\ s \in 0 .. m - 1 /\ x = p * m + s
  OBVIOUS
<1> HIDE DEF p, s
<1>2. ASSUME NEW q \in Int, x = q * m
      PROVE  s = 0
  <2>1. p * m \in Int /\ q * m \in Int
    BY <1>1
  <2>2. p < q => p * m + m <= q * m
    BY <1>1, More
  <2>3. q < p => q * m + m <= p * m
    BY <1>1, More
  <2>4. p = q
    BY <1>1, <1>2, <2>1, <2>2, <2>3
  <2> QED
    BY <1>1, <1>2, <2>1, <2>4
<1>3. s = 0 => x = p * m
  BY <1>1
<1> QED
  BY <1>1, <1>2, <1>3 DEF s

LEMMA Quotient ==
  ASSUME NEW m \in Nat \ {0}, NEW q \in Int
  PROVE  (q * m) \div m = q
<1> DEFINE x == q * m
           p == x \div m
           s == x % m
<1>1. x \in Int
  OBVIOUS
<1>2. x = q * m
  OBVIOUS
<1> HIDE DEF x
<1>3. p \in Int /\ s \in 0 .. m - 1 /\ x = p * m + s
  BY <1>1
<1>4. s = 0
  BY <1>1, <1>2, Multiples
<1> HIDE DEF p, s
<1>5. p * m \in Int /\ x = p * m
  BY <1>3, <1>4
<1>6. p < q => p * m + m <= q * m
  BY <1>3, More
<1>7. q < p => q * m + m <= p * m
  BY <1>3, More
<1>8. p = q
  BY <1>1, <1>2, <1>3, <1>5, <1>6, <1>7
<1> QED
  BY <1>8 DEF p, x

(* The quotient of a negative number is rounded down to a negative one. *)
LEMMA BelowZero ==
  ASSUME NEW m \in Nat \ {0}, NEW x \in Int, x < 0
  PROVE  x \div m < 0
<1> DEFINE p == x \div m
           s == x % m
<1>1. p \in Int /\ s \in 0 .. m - 1 /\ x = p * m + s
  OBVIOUS
<1> HIDE DEF p, s
<1>2. 0 <= p => 0 <= p * m
  BY <1>1
<1>3. p * m \in Int
  BY <1>1
<1> QED
  BY <1>1, <1>2, <1>3 DEF p

LEMMA WrappedIs ==
  ASSUME Widths, NEW i \in CInts
  PROVE  Wrapped(i) = i
<1>1. i + Half \in 0 .. 2 * Half - 1
  BY DEF CInts, Widths
<1>2. (i + Half) % (2 * Half) = i + Half
  BY <1>1 DEF Widths
<1> QED
  BY <1>2 DEF Wrapped, CInts, Widths

LEMMA WrappedType ==
  ASSUME Widths, NEW i \in Int
  PROVE  Wrapped(i) \in CInts
<1> DEFINE s == (i + Half) % (2 * Half)
<1>1. s \in 0 .. 2 * Half - 1
  BY DEF Widths
<1> HIDE DEF s
<1>2. s - Half \in CInts
  BY <1>1 DEF CInts, Widths
<1> QED
  BY <1>2 DEF Wrapped, s

LEMMA AtLeast ==
  ASSUME NEW a \in Nat, NEW m \in Nat \ {0}
  PROVE  a <= a * m
<1>1. a * (m - 1) \in Nat
  OBVIOUS
<1>2. a * m = a * (m - 1) + a
  OBVIOUS
<1>3. a * m \in Nat
  OBVIOUS
<1> QED
  BY <1>1, <1>2, <1>3

-----------------------------------------------------------------------------
(* Terms *)

LEMMA RangeType ==
  ASSUME Type
  PROVE  /\ range.start \in Bound /\ range.end \in Bound /\ range.step \in Int \ {0}
         /\ range.start \in Int /\ range.end \in Int
  BY DEF Type, Bound

LEMMA TermType ==
  ASSUME Type, NEW k \in Int
  PROVE  Term(k) \in Int
<1>1. (k - 1) * range.step \in Int
  BY RangeType
<1> QED
  BY <1>1, RangeType DEF Term

LEMMA FirstTerm ==
  ASSUME Type
  PROVE  Term(1) = range.start
<1>1. (1 - 1) * range.step = 0
  BY RangeType
<1> QED
  BY <1>1, RangeType DEF Term

LEMMA NextTerm ==
  ASSUME Type, NEW k \in Int
  PROVE  Term(k + 1) = Term(k) + range.step
<1>1. PICK s \in Int : s = range.step
  BY RangeType
<1>2. PICK b \in Int : b = range.start
  BY RangeType
<1>3. (k + 1 - 1) * s = (k - 1) * s + s /\ (k - 1) * s \in Int
  BY <1>1
<1> QED
  BY <1>1, <1>2, <1>3 DEF Term

(* Terms go in the direction of the step. *)
LEMMA LaterTerm ==
  ASSUME Type, NEW j \in Int, NEW k \in Int, j < k
  PROVE  /\ range.step > 0 => Term(j) + range.step <= Term(k)
         /\ range.step < 0 => Term(k) <= Term(j) + range.step
<1>1. PICK s \in Int : s = range.step
  BY RangeType
<1>2. PICK b \in Int : b = range.start
  BY RangeType
<1>3. PICK x \in Int : x = (j - 1) * s
  BY Product
<1>4. PICK y \in Int : y = (k - 1) * s
  BY Product
<1>5. s > 0 => x + s <= y
  BY <1>3, <1>4, More
<1>6. s < 0 => -x + -s <= -y
  <2>1. (j - 1) * (-s) = -x /\ (k - 1) * (-s) = -y
    BY <1>3, <1>4, Negative
  <2>2. s < 0 => (j - 1) * (-s) + -s <= (k - 1) * (-s)
    BY More
  <2> QED
    BY <2>1, <2>2
<1>7. Term(j) = b + x /\ Term(k) = b + y
  BY <1>1, <1>2, <1>3, <1>4 DEF Term
<1> QED
  BY <1>1, <1>5, <1>6, <1>7

(* Terms has every term before the end. *)
LEMMA InTerms ==
  ASSUME Widths, Type, NEW k \in Nat \ {0}
  PROVE  k \in Terms <=> Before(Term(k))
<1>1. SUFFICES ASSUME Before(Term(k)) PROVE k \in 1 .. 2 * (Half + Beyond) + 1
  BY DEF Terms
<1>2. PICK s \in Int \ {0} : s = range.step
  BY RangeType
<1>3. PICK x \in Int : x = (k - 1) * s
  BY Product
<1>4. range.start \in Bound /\ range.end \in Bound /\ Term(k) = range.start + x
  BY <1>2, <1>3, RangeType DEF Term
<1>5. CASE s > 0
  <2>1. k - 1 <= x
    BY <1>3, <1>5, AtLeast
  <2>2. range.start + x < range.end
    BY <1>1, <1>2, <1>4, <1>5 DEF Before
  <2> QED
    BY <1>4, <2>1, <2>2 DEF Bound, Widths
<1>6. CASE s < 0
  <2>1. k - 1 <= -x
    <3>1. (k - 1) * (-s) = -x
      BY <1>3, Negative
    <3> QED
      BY <1>6, <3>1, AtLeast
  <2>2. range.start + x > range.end
    BY <1>1, <1>2, <1>4, <1>6 DEF Before
  <2> QED
    BY <1>4, <2>1, <2>2 DEF Bound, Widths
<1> QED
  BY <1>5, <1>6

LEMMA EarlierTerm ==
  ASSUME Widths, Type, NEW k \in Nat \ {0}, k \in Terms, NEW j \in Nat \ {0}, j < k
  PROVE  j \in Terms
<1>1. PICK s \in Int \ {0} : s = range.step
  BY RangeType
<1>2. PICK x \in Int : x = Term(j)
  BY TermType
<1>3. PICK y \in Int : y = Term(k)
  BY TermType
<1>4. (s > 0 => x + s <= y) /\ (s < 0 => y <= x + s)
  BY <1>1, <1>2, <1>3, LaterTerm
<1>5. Before(y)
  BY <1>3, InTerms
<1>6. Before(x)
  BY <1>1, <1>4, <1>5, RangeType DEF Before
<1> QED
  BY <1>2, <1>6, InTerms

LEMMA TermsFinite ==
  ASSUME Widths
  PROVE  IsFiniteSet(Terms) /\ Terms \subseteq Nat \ {0}
<1>1. 1 \in Int /\ 2 * (Half + Beyond) + 1 \in Int
  BY DEF Widths
<1>2. IsFiniteSet(1 .. 2 * (Half + Beyond) + 1)
  BY <1>1, FS_Interval
<1>3. Terms \in SUBSET (1 .. 2 * (Half + Beyond) + 1)
  BY DEF Terms
<1>4. IsFiniteSet(Terms)
  BY <1>2, <1>3, FS_Subset
<1> QED
  BY <1>1, <1>3, <1>4

LEMMA SomeTerms ==
  ASSUME Widths, NEW n \in Nat, 1 .. n \subseteq Terms
  PROVE  n <= Cardinality(Terms)
<1>1. Cardinality(1 .. n) = n
  BY FS_Interval
<1>2. Cardinality(1 .. n) <= Cardinality(Terms)
  BY TermsFinite, FS_Subset
<1> QED
  BY <1>1, <1>2

LEMMA AllTerms ==
  ASSUME Widths, Type, NEW n \in Nat, 1 .. n \subseteq Terms, n + 1 \notin Terms
  PROVE  Terms = 1 .. n
<1>1. ASSUME NEW k \in Terms
      PROVE  k <= n
  <2>1. k \in Nat \ {0}
    BY TermsFinite
  <2>2. n + 1 < k => n + 1 \in Terms
    BY <2>1, EarlierTerm
  <2>3. k # n + 1
    OBVIOUS
  <2> QED
    BY <2>1, <2>2, <2>3
<1>2. Terms \subseteq 1 .. n
  <2>1. Terms \subseteq Nat \ {0}
    BY TermsFinite
  <2> QED
    BY <1>1, <2>1
<1> QED
  BY <1>2

(* The iterator stops at what is not before the end. *)
LEMMA PassedIs ==
  ASSUME Type, NEW i \in Int
  PROVE  Passed(i) <=> ~Before(i)
  BY RangeType DEF Passed, Before

(* Counting on from a term that is not the last one does not overflow. *)
LEMMA NoOverflow ==
  ASSUME Widths, Type, use_ci, NEW k \in Nat \ {0}, k \in Terms, k + 1 \in Terms \/ ~Overflows
  PROVE  Wrapped(Term(k) + range.step) = Term(k + 1)
<1>1. Term(k + 1) = Term(k) + range.step
  BY NextTerm
<1>2. Term(k) + range.step \in CInts
  <2>1. CASE ~Overflows
    BY <2>1 DEF Overflows
  <2>2. CASE k + 1 \in Terms
    <3>1. PICK s \in Int \ {0} : s = range.step
      BY RangeType
    <3>2. PICK y \in Int : y = Term(k + 1)
      BY TermType
    <3>3. Before(y)
      BY <2>2, <3>2, InTerms
    <3>4. range.start \in CInts /\ range.end \in CInts
      BY DEF Type
    <3>5. (s > 0 => range.start + s <= y) /\ (s < 0 => y <= range.start + s)
      BY <3>1, <3>2, LaterTerm, FirstTerm
    <3>6. y \in CInts
      BY <3>1, <3>3, <3>4, <3>5, RangeType DEF Before, CInts, Widths
    <3> QED
      BY <1>1, <3>2, <3>6
  <2> QED
    BY <2>1, <2>2
<1> QED
  BY <1>1, <1>2, WrappedIs

-----------------------------------------------------------------------------
(* What is in a range, and how many *)

LEMMA ContainsIs ==
  ASSUME Widths, Type, NEW i \in Int
  PROVE  Contains(range, i) <=> \E k \in Terms : i = Term(k)
<1>1. PICK s \in Int \ {0} : s = range.step
  BY RangeType
<1>2. PICK b \in Int : b = range.start
  BY RangeType
<1>3. PICK m \in Nat \ {0} : m = Stride(range)
  BY <1>1 DEF Stride
<1>4. (s > 0 => m = s) /\ (s < 0 => m = -s)
  BY <1>1, <1>3 DEF Stride
<1>5. (i - b) % m = 0 <=> \E q \in Int : i - b = q * m
  <2>1. PICK x \in Int : x = i - b
    OBVIOUS
  <2>2. x % m = 0 <=> \E q \in Int : x = q * m
    BY Multiples
  <2> QED
    BY <2>1, <2>2
<1>6. Bounds(range, i) <=> IF s > 0 THEN b <= i /\ i < range.end ELSE range.end < i /\ i <= b
  BY <1>1, <1>2 DEF Bounds
<1>7. Before(i) <=> IF s > 0 THEN i < range.end ELSE i > range.end
  BY <1>1 DEF Before
<1>8. ASSUME Contains(range, i)
      PROVE  \E k \in Terms : i = Term(k)
  <2>1. PICK q \in Int : i - b = q * m
    BY <1>2, <1>3, <1>5, <1>8 DEF Contains
  <2>2. PICK p \in Int : p = IF s > 0 THEN q ELSE -q
    OBVIOUS
  <2>3. i - b = p * s
    <3>1. s < 0 => q * m = (-q) * s
      <4>1. q * (-s) = -(q * s) /\ (-q) * s = -(q * s)
        OBVIOUS
      <4> QED
        BY <1>4, <4>1
    <3> QED
      BY <1>1, <1>4, <2>1, <2>2, <3>1
  <2>4. Bounds(range, i)
    BY <1>8 DEF Contains
  <2>5. p >= 0
    <3>1. PICK x \in Int : x = q * m
      BY Product
    <3>2. q < 0 => x + m <= 0
      BY <3>1, More
    <3>3. 0 < q => m <= x
      BY <3>1, More
    <3> QED
      BY <1>1, <1>4, <1>6, <2>1, <2>2, <2>4, <3>1, <3>2, <3>3
  <2>6. i = Term(p + 1)
    <3>1. p + 1 - 1 = p
      OBVIOUS
    <3>2. PICK x \in Int : x = p * s
      BY Product
    <3>3. Term(p + 1) = b + x
      BY <1>1, <1>2, <3>1, <3>2 DEF Term
    <3> QED
      BY <2>3, <3>2, <3>3
  <2>7. Before(Term(p + 1))
    BY <1>6, <1>7, <2>4, <2>6
  <2>8. p + 1 \in Terms
    BY <2>5, <2>7, InTerms
  <2> QED
    BY <2>6, <2>8
<1>9. ASSUME NEW k \in Terms, i = Term(k)
      PROVE  Contains(range, i)
  <2>1. k \in Nat \ {0}
    BY TermsFinite
  <2>2. Before(i)
    BY <1>9, <2>1, InTerms
  <2>3. PICK x \in Int : x = (k - 1) * s
    BY <2>1, Product
  <2>4. i = b + x
    BY <1>1, <1>2, <1>9, <2>3 DEF Term
  <2>5. \E q \in Int : x = q * m
    <3>1. CASE s > 0
      BY <1>4, <2>1, <2>3, <3>1
    <3>2. CASE s < 0
      <4>1. (-(k - 1)) * (-s) = (k - 1) * s
        BY <2>1
      <4> QED
        BY <1>4, <2>1, <2>3, <3>2, <4>1
    <3> QED
      BY <3>1, <3>2
  <2>6. (i - b) % m = 0
    <3>1. i - b = x
      BY <2>3, <2>4
    <3> QED
      BY <1>5, <2>5, <3>1
  <2>7. (s > 0 => x >= 0) /\ (s < 0 => x <= 0)
    <3>1. CASE k = 1
      BY <2>3, <3>1
    <3>2. CASE k # 1
      <4>1. 1 < k
        BY <2>1, <3>2
      <4>2. (s > 0 => b + s <= i) /\ (s < 0 => i <= b + s)
        BY <1>1, <1>2, <1>9, <2>1, <4>1, LaterTerm, FirstTerm
      <4> QED
        BY <2>3, <2>4, <4>2
    <3> QED
      BY <3>1, <3>2
  <2>8. Bounds(range, i)
    BY <1>6, <1>7, <2>2, <2>3, <2>4, <2>7
  <2> QED
    BY <1>2, <1>3, <2>6, <2>8 DEF Contains
<1> QED
  BY <1>8, <1>9

(* If p steps lead from the start to the end, there are p terms. *)
LEMMA Divided ==
  ASSUME Widths, Type, NEW p \in Int, range.end - range.start = p * range.step
  PROVE  Terms = 1 .. p
<1>1. PICK s \in Int \ {0} : s = range.step
  BY RangeType
<1>2. PICK x \in Int : x = p * s
  BY Product
<1>3. Term(p + 1) = range.end
  <2>1. p + 1 - 1 = p
    OBVIOUS
  <2>2. Term(p + 1) = range.start + x
    BY <1>1, <1>2, <2>1 DEF Term
  <2> QED
    BY <1>1, <1>2, <2>2, RangeType
<1>4. ASSUME NEW k \in Nat \ {0}
      PROVE  Before(Term(k)) <=> k <= p
  <2>1. PICK y \in Int : y = Term(k)
    BY TermType
  <2>2. k < p + 1 => (s > 0 => y + s <= range.end) /\ (s < 0 => range.end <= y + s)
    BY <1>1, <1>3, <2>1, LaterTerm
  <2>3. p + 1 < k => (s > 0 => range.end + s <= y) /\ (s < 0 => y <= range.end + s)
    BY <1>1, <1>3, <2>1, LaterTerm
  <2>4. k = p + 1 => y = range.end
    BY <1>3, <2>1
  <2> QED
    BY <1>1, <2>1, <2>2, <2>3, <2>4, RangeType DEF Before
<1>5. ASSUME NEW k \in Nat \ {0}
      PROVE  k \in Terms <=> k <= p
  BY <1>4, InTerms
<1>6. Terms \subseteq Nat \ {0}
  BY TermsFinite
<1>7. Terms \subseteq 1 .. p
  BY <1>5, <1>6
<1>8. 1 .. p \subseteq Terms
  BY <1>5
<1> QED
  BY <1>7, <1>8

LEMMA LengthIs ==
  ASSUME Widths, Type, (range.end - range.start) % Stride(range) = 0 \/ Terms = {}
  PROVE  Length(range) = Cardinality(Terms)
<1>1. PICK s \in Int \ {0} : s = range.step
  BY RangeType
<1>2. PICK d \in Int : d = range.end - range.start
  BY RangeType
<1>3. PICK m \in Nat \ {0} : m = Stride(range) /\ (s > 0 => m = s) /\ (s < 0 => m = -s)
  BY <1>1 DEF Stride
<1>4. CASE d % m = 0
  <2>1. PICK q \in Int : d = q * m
    BY <1>4, Multiples
  <2>2. PICK p \in Int : p = IF s > 0 THEN q ELSE -q
    OBVIOUS
  <2>3. q * (-s) = -(q * s) /\ (-q) * s = -(q * s) /\ (-q) * (-s) = q * s
    OBVIOUS
  <2>4. d = p * s
    BY <1>1, <1>3, <2>1, <2>2, <2>3
  <2>5. FloorDiv(d, s) = p
    <3>1. CASE s > 0
      <4>1. (q * m) \div m = q
        BY Quotient
      <4> QED
        BY <1>3, <2>1, <2>2, <3>1, <4>1 DEF FloorDiv
    <3>2. CASE s < 0
      <4>1. ((-q) * m) \div m = -q
        BY Quotient
      <4>2. (-q) * m = -d
        BY <2>1
      <4> QED
        BY <1>3, <2>2, <3>2, <4>1, <4>2 DEF FloorDiv
    <3> QED
      BY <3>1, <3>2
  <2>6. Terms = 1 .. p
    BY <1>1, <1>2, <2>4, Divided
  <2>7. Cardinality(1 .. p) = IF 1 > p THEN 0 ELSE p - 1 + 1
    BY FS_Interval
  <2>8. Length(range) = IF p < 0 THEN 0 ELSE p
    BY <1>1, <1>2, <2>5 DEF Length
  <2> QED
    BY <2>6, <2>7, <2>8
<1>5. CASE d % m # 0 /\ Terms = {}
  <2>1. ~Before(range.start)
    <3>1. 1 \notin Terms
      BY <1>5
    <3> QED
      BY <3>1, InTerms, FirstTerm
  <2>2. (s > 0 => d <= 0) /\ (s < 0 => d >= 0)
    BY <1>1, <1>2, <2>1, RangeType DEF Before
  <2>3. d # 0
    <3>1. 0 = 0 * m
      OBVIOUS
    <3>2. 0 % m = 0
      BY <3>1, Multiples
    <3> QED
      BY <1>5, <3>2
  <2>4. FloorDiv(d, s) < 0
    <3>1. CASE s > 0
      <4>1. d \div m < 0
        BY <2>2, <2>3, <3>1, BelowZero
      <4> QED
        BY <1>3, <3>1, <4>1 DEF FloorDiv
    <3>2. CASE s < 0
      <4>1. (-d) \div m < 0
        BY <2>2, <2>3, <3>2, BelowZero
      <4> QED
        BY <1>3, <3>2, <4>1 DEF FloorDiv
    <3> QED
      BY <3>1, <3>2
  <2>5. Length(range) = 0
    BY <1>1, <1>2, <2>4 DEF Length
  <2>6. Cardinality(Terms) = 0
    BY <1>5, FS_EmptySet
  <2> QED
    BY <2>5, <2>6
<1> QED
  BY <1>2, <1>3, <1>4, <1>5

-----------------------------------------------------------------------------
(* The iterator *)

(* What has been given is right, as far as the range means something. *)
Right == \A k \in DOMAIN yielded \cap Terms : yielded[k] = Term(k)

(* Nothing was given that the range does not mean, and nothing left out. *)
Whole ==
    ~Overflows =>
        /\ 1 .. Len(yielded) \subseteq Terms
        /\ done => Len(yielded) + 1 \notin Terms

(* The counter is at the next term, or at the last one given. *)
AtNext ==
    ~done /\ use_ci /\ (Len(yielded) + 1 \in Terms \/ ~Overflows) => counter = Term(Len(yielded) + 1)

AtLast ==
    ~done /\ ~use_ci => counter = IF yielded = <<>> THEN Term(1) ELSE Term(Len(yielded))

IInv == Type /\ Right /\ Whole /\ AtNext /\ AtLast

LEMMA InitInv ==
  ASSUME Widths, Init
  PROVE  IInv
<1>1. Type
  <2>1. range \in [start : Bound, end : Bound, step : (-MaxStride .. MaxStride) \ {0}]
    BY DEF Init, Bound
  <2>2. /\ range.start \in Bound /\ range.end \in Bound /\ range.step \in Int \ {0}
        /\ range = [start |-> range.start, end |-> range.end, step |-> range.step]
    BY <2>1 DEF Widths
  <2>3. range \in [start : Bound, end : Bound, step : Int \ {0}]
    BY <2>2
  <2>4. counter \in Int
    BY <2>2 DEF Init, Bound
  <2>5. use_ci = (\A f \in {"start", "end", "step"} : range[f] \in CInts)
    BY DEF Init
  <2>6. (use_ci <=> \A f \in {"start", "end", "step"} : range[f] \in CInts) /\ use_ci \in BOOLEAN
    BY <2>5, Zenon
  <2>7. done \in BOOLEAN /\ yielded \in Seq(Int)
    <3>1. done = FALSE /\ yielded = <<>>
      BY DEF Init
    <3>2. <<>> \in Seq(Int)
      OBVIOUS
    <3> QED
      BY <3>1, <3>2
  <2> QED
    BY <2>3, <2>4, <2>6, <2>7 DEF Type
<1>2. yielded = <<>> /\ Len(yielded) = 0 /\ DOMAIN yielded = {} /\ counter = Term(1) /\ ~done
  BY <1>1, FirstTerm DEF Init
<1> QED
  BY <1>1, <1>2 DEF IInv, Right, Whole, AtNext, AtLast

(* The range stays, and so does what it means. *)
LEMMA Stays ==
  ASSUME UNCHANGED <<range, use_ci>>
  PROVE  /\ Terms' = Terms /\ (Overflows <=> Overflows')
         /\ \A k : Term(k)' = Term(k)
  BY DEF Terms, Overflows, Term, Before, CInts

LEMMA TypeStep ==
  ASSUME Widths, Type, Next
  PROVE  Type'
<1>1. range.step \in Int
  BY RangeType
<1>2. counter' \in Int
  <2>1. Wrapped(counter + range.step) \in CInts
    BY <1>1, WrappedType DEF Type
  <2>2. Wrapped(counter + range.step) \in Int /\ counter + range.step \in Int
    BY <1>1, <2>1 DEF Type, CInts, Widths
  <2> QED
    BY <2>2 DEF Next, Count, Add, Type
<1>3. yielded' \in Seq(Int)
  <2>1. yielded \in Seq(Int) /\ counter \in Int
    BY DEF Type
  <2>2. yielded' = yielded \/ \E x \in {counter, counter'} : yielded' = Append(yielded, x)
    BY DEF Next, Count, Add
  <2>3. \A x \in Int : Append(yielded, x) \in Seq(Int)
    BY <2>1
  <2> QED
    BY <1>2, <2>1, <2>2, <2>3
<1>4. done' \in BOOLEAN
  BY DEF Next, Count, Add, Type
<1>5. range' = range /\ use_ci' = use_ci
  BY DEF Next
<1> QED
  BY <1>2, <1>3, <1>4, <1>5 DEF Type, CInts

(* Another one is given: the next term, if there is one. *)
LEMMA Given ==
  ASSUME Widths, IInv, UNCHANGED <<range, use_ci, done>>, ~done,
         NEW x \in Int, yielded' = Append(yielded, x),
         Len(yielded) + 1 \in Terms => x = Term(Len(yielded) + 1),
         ~Overflows => Len(yielded) + 1 \in Terms
  PROVE  Right' /\ Whole' /\ Len(yielded') = Len(yielded) + 1
<1>1. PICK n \in Nat : n = Len(yielded)
  BY DEF IInv, Type
<1>2. /\ Len(yielded') = n + 1 /\ DOMAIN yielded = 1 .. n /\ DOMAIN yielded' = 1 .. n + 1
      /\ yielded'[n + 1] = x /\ \A k \in 1 .. n : yielded'[k] = yielded[k]
  BY <1>1 DEF IInv, Type
<1>3. Terms' = Terms /\ (Overflows <=> Overflows') /\ \A k : Term(k)' = Term(k)
  BY Stays
<1>4. Right'
  <2>1. \A k \in (1 .. n + 1) \cap Terms : yielded'[k] = Term(k)
    <3>1. SUFFICES ASSUME NEW k \in 1 .. n + 1, k \in Terms
                   PROVE  yielded'[k] = Term(k)
      OBVIOUS
    <3>2. CASE k = n + 1
      BY <1>1, <1>2, <3>1, <3>2
    <3>3. CASE k # n + 1
      <4>1. k \in 1 .. n
        BY <3>3
      <4> QED
        BY <1>2, <3>1, <4>1 DEF IInv, Right
    <3> QED
      BY <3>2, <3>3
  <2> QED
    BY <1>2, <1>3, <2>1 DEF Right
<1>5. Whole'
  <2>1. ~Overflows => 1 .. n + 1 \subseteq Terms
    BY <1>1 DEF IInv, Whole
  <2> QED
    BY <1>2, <1>3, <2>1 DEF Whole
<1> QED
  BY <1>1, <1>2, <1>4, <1>5

(* No more is given: there is no other term. *)
LEMMA Ended ==
  ASSUME Widths, IInv, UNCHANGED <<range, use_ci, yielded>>, done' = TRUE,
         ~Overflows => Len(yielded) + 1 \notin Terms
  PROVE  Right' /\ Whole' /\ AtNext' /\ AtLast'
<1>1. Terms' = Terms /\ (Overflows <=> Overflows') /\ \A k : Term(k)' = Term(k)
  BY Stays
<1> QED
  BY <1>1 DEF IInv, Right, Whole, AtNext, AtLast

LEMMA CountInv ==
  ASSUME Widths, IInv, ~done, Count, UNCHANGED <<range, use_ci>>
  PROVE  Right' /\ Whole' /\ AtNext' /\ AtLast'
<1>1. PICK n \in Nat : n = Len(yielded)
  BY DEF IInv, Type
<1>2. Type /\ use_ci /\ counter \in Int
  BY DEF IInv, Type, Count
<1>3. n + 1 \in Terms \/ ~Overflows => counter = Term(n + 1)
  BY <1>1, <1>2 DEF IInv, AtNext
<1>4. n + 1 \in Terms <=> Before(Term(n + 1))
  BY <1>2, InTerms
<1>5. CASE Passed(counter)
  <2>1. ~Overflows => n + 1 \notin Terms
    BY <1>2, <1>3, <1>4, <1>5, PassedIs
  <2> QED
    BY <1>1, <1>5, <2>1, Ended DEF Count
<1>6. CASE ~Passed(counter)
  <2>1. counter' = Wrapped(counter + range.step) /\ yielded' = Append(yielded, counter) /\ done' = done
    BY <1>6 DEF Count
  <2>2. ~Overflows => n + 1 \in Terms
    BY <1>2, <1>3, <1>4, <1>6, PassedIs
  <2>3. Right' /\ Whole' /\ Len(yielded') = n + 1
    BY <1>1, <1>2, <1>3, <2>1, <2>2, Given
  <2>4. AtNext'
    <3>1. Terms' = Terms /\ (Overflows <=> Overflows') /\ \A k : Term(k)' = Term(k)
      BY Stays
    <3>2. ASSUME n + 2 \in Terms \/ ~Overflows
          PROVE  counter' = Term(n + 2)
      <4>1. n + 1 \in Terms
        <5>1. n + 2 \in Terms => n + 1 \in Terms
          BY <1>2, EarlierTerm
        <5> QED
          BY <2>2, <3>2, <5>1
      <4>2. n + 1 + 1 = n + 2 /\ n + 1 \in Nat \ {0}
        OBVIOUS
      <4>3. Wrapped(Term(n + 1) + range.step) = Term(n + 2)
        BY <1>2, <3>2, <4>1, <4>2, NoOverflow
      <4> QED
        BY <1>3, <2>1, <4>1, <4>3
    <3>3. n + 1 + 1 = n + 2
      OBVIOUS
    <3> QED
      BY <2>3, <3>1, <3>2, <3>3 DEF AtNext
  <2>5. AtLast'
    BY <1>2 DEF AtLast
  <2> QED
    BY <2>3, <2>4, <2>5
<1> QED
  BY <1>5, <1>6

LEMMA AddInv ==
  ASSUME Widths, IInv, ~done, Add, UNCHANGED <<range, use_ci>>
  PROVE  Right' /\ Whole' /\ AtNext' /\ AtLast'
<1>1. PICK n \in Nat : n = Len(yielded)
  BY DEF IInv, Type
<1>2. Type /\ ~use_ci /\ ~Overflows
  BY DEF IInv, Type, Add, Overflows
<1>3. counter' = Term(n + 1)
  <2>1. CASE yielded = <<>>
    <3>1. n = 0 /\ n + 1 = 1
      BY <1>1, <2>1
    <3> QED
      BY <1>2, <2>1, <3>1 DEF Add, IInv, AtLast
  <2>2. CASE yielded # <<>>
    <3>1. counter = Term(n)
      BY <1>1, <1>2, <2>2 DEF IInv, AtLast
    <3> QED
      BY <1>2, <2>2, <3>1, NextTerm DEF Add
  <2> QED
    BY <2>1, <2>2
<1>4. PICK x \in Int : x = counter'
  BY <1>2, <1>3, TermType
<1>5. n + 1 \in Terms <=> Before(x)
  BY <1>2, <1>3, <1>4, InTerms
<1>6. CASE Passed(x)
  <2>1. n + 1 \notin Terms
    BY <1>2, <1>5, <1>6, PassedIs
  <2> QED
    BY <1>1, <1>4, <1>6, <2>1, Ended DEF Add
<1>7. CASE ~Passed(x)
  <2>1. yielded' = Append(yielded, x) /\ done' = done
    BY <1>4, <1>7 DEF Add
  <2>2. n + 1 \in Terms
    BY <1>2, <1>5, <1>7, PassedIs
  <2>3. Right' /\ Whole' /\ Len(yielded') = n + 1
    BY <1>1, <1>3, <1>4, <2>1, <2>2, Given
  <2>4. yielded' # <<>>
    BY <2>3
  <2>5. Term(n + 1)' = Term(n + 1)
    BY Stays
  <2>6. AtLast'
    BY <1>3, <2>3, <2>4, <2>5 DEF AtLast
  <2>7. AtNext'
    BY <1>2 DEF AtNext
  <2> QED
    BY <2>3, <2>6, <2>7
<1> QED
  BY <1>6, <1>7

LEMMA NextInv ==
  ASSUME Widths, IInv, [Next]_vars
  PROVE  IInv'
<1>1. CASE Next
  <2>1. Type'
    BY <1>1, TypeStep DEF IInv
  <2>2. Right' /\ Whole' /\ AtNext' /\ AtLast'
    BY <1>1, CountInv, AddInv DEF Next
  <2> QED
    BY <2>1, <2>2 DEF IInv
<1>2. CASE UNCHANGED vars
  <2>1. /\ range' = range /\ use_ci' = use_ci /\ counter' = counter /\ done' = done
        /\ yielded' = yielded
    BY <1>2 DEF vars
  <2>2. Terms' = Terms /\ (Overflows <=> Overflows') /\ \A k : Term(k)' = Term(k)
    BY <2>1, Stays
  <2>3. Type'
    BY <2>1 DEF IInv, Type, CInts
  <2>4. Right' /\ Whole' /\ AtNext' /\ AtLast'
    BY <2>1, <2>2 DEF IInv, Right, Whole, AtNext, AtLast
  <2> QED
    BY <2>3, <2>4 DEF IInv
<1> QED
  BY <1>1, <1>2

(* What an iterator has given are the terms of its range, as far as they   *)
(* can be counted in C's integers, and its counter is at the next one.     *)
THEOREM Invariant ==
  ASSUME Widths
  PROVE  Spec => []IInv
<1>1. Init => IInv
  BY InitInv
<1>2. IInv /\ [Next]_vars => IInv'
  BY NextInv
<1> QED
  BY <1>1, <1>2, PTL DEF Spec

LEMMA GivenAsMeant ==
  ASSUME Widths, IInv
  PROVE  RangesAsMeant
<1>1. PICK n \in Nat : n = Len(yielded) /\ DOMAIN yielded = 1 .. n
  BY DEF IInv, Type
<1>2. Type /\ Right /\ Whole
  BY DEF IInv
<1>3. ASSUME ~Overflows
      PROVE  /\ n <= Cardinality(Terms)
             /\ done => n = Cardinality(Terms)
             /\ \A k \in 1 .. n : yielded[k] = Term(k)
  <2>1. 1 .. n \subseteq Terms /\ (done => n + 1 \notin Terms)
    BY <1>1, <1>2, <1>3 DEF Whole
  <2>2. n <= Cardinality(Terms)
    BY <2>1, SomeTerms
  <2>3. done => n = Cardinality(Terms)
    <3>1. Cardinality(1 .. n) = n
      BY FS_Interval
    <3>2. done => Terms = 1 .. n
      BY <1>2, <2>1, AllTerms
    <3> QED
      BY <3>1, <3>2
  <2>4. \A k \in 1 .. n : yielded[k] = Term(k)
    BY <1>1, <1>2, <2>1 DEF Right
  <2> QED
    BY <2>2, <2>3, <2>4
<1>4. \A i \in -Half - Beyond .. Half + Beyond : Contains(range, i) <=> \E k \in Terms : i = Term(k)
  BY <1>2, ContainsIs DEF Widths
<1>5. (range.end - range.start) % Stride(range) = 0 \/ Terms = {} => Length(range) = Cardinality(Terms)
  BY <1>2, LengthIs
<1>6. Overflows => \A k \in DOMAIN yielded \cap Terms : yielded[k] = Term(k)
  BY <1>2 DEF Right
<1>7. ~Overflows =>
         /\ Len(yielded) <= Cardinality(Terms)
         /\ \A k \in DOMAIN yielded : yielded[k] = Term(k)
         /\ done => Len(yielded) = Cardinality(Terms)
  <2> SUFFICES ASSUME ~Overflows
               PROVE  /\ Len(yielded) <= Cardinality(Terms)
                      /\ \A k \in DOMAIN yielded : yielded[k] = Term(k)
                      /\ done => Len(yielded) = Cardinality(Terms)
    OBVIOUS
  <2>1. Len(yielded) <= Cardinality(Terms) /\ (done => Len(yielded) = Cardinality(Terms))
    BY <1>1, <1>3
  <2>2. \A k \in DOMAIN yielded : yielded[k] = Term(k)
    BY <1>1, <1>3
  <2> QED
    BY <2>1, <2>2
<1> QED
  BY <1>4, <1>5, <1>6, <1>7 DEF RangesAsMeant

(* A range's iterator gives the terms of the range, all of them when it    *)
(* ends, unless the last step overflows (kso_next); the same are in the    *)
(* range, and they are as many as its length says if the step divides it.  *)
THEOREM AsMeant ==
  ASSUME Widths
  PROVE  Spec => []RangesAsMeant
<1>1. IInv => RangesAsMeant
  BY GivenAsMeant
<1> QED
  BY <1>1, Invariant, PTL
=============================================================================
