------------------------------ MODULE VmProofs ------------------------------
(***************************************************************************)
(* Proofs about the interpreter: bytecode that has a certificate executes  *)
(* as it should, whatever its calls, operators and iterators come back     *)
(* with, however deep it calls and however long it runs.                   *)
(***************************************************************************)
EXTENDS Certificates, FiniteSetTheorems, SequenceTheorems, NaturalsInduction, TLAPS

-----------------------------------------------------------------------------
(* Sequences *)

LEMMA SeqIs ==
  ASSUME NEW S, NEW s \in Seq(S)
  PROVE  Len(s) \in Nat /\ DOMAIN s = 1 .. Len(s) /\ \A i \in 1 .. Len(s) : s[i] \in S
BY LenProperties, ElementOfSeq

LEMMA MidSub ==
  ASSUME NEW S, NEW s \in Seq(S), NEW m \in Int, NEW n \in Int, 1 <= m, n <= Len(s), m <= n + 1
  PROVE  /\ SubSeq(s, m, n) \in Seq(S) /\ Len(SubSeq(s, m, n)) = n - m + 1
         /\ \A i \in 1 .. n - m + 1 : SubSeq(s, m, n)[i] = s[m + i - 1]
<1>1. \A i \in m .. n : s[i] \in S
  BY SeqIs
<1> QED
  BY <1>1, SubSeqProperties

LEMMA FrontSub ==
  ASSUME NEW S, NEW s \in Seq(S), NEW n \in Int, 0 <= n, n <= Len(s)
  PROVE  /\ SubSeq(s, 1, n) \in Seq(S) /\ Len(SubSeq(s, 1, n)) = n
         /\ \A i \in 1 .. n : SubSeq(s, 1, n)[i] = s[i]
<1>1. n <= Len(s) /\ 1 <= n + 1 /\ n - 1 + 1 = n /\ \A i \in 1 .. n : 1 + i - 1 = i
  OBVIOUS
<1> QED
  BY <1>1, MidSub

(* Some of a sequence, and others behind it *)
LEMMA Spliced ==
  ASSUME NEW S, NEW s \in Seq(S), NEW n \in Int, 0 <= n, n <= Len(s), NEW t \in Seq(S)
  PROVE  /\ SubSeq(s, 1, n) \o t \in Seq(S)
         /\ Len(SubSeq(s, 1, n) \o t) = n + Len(t)
         /\ \A i \in 1 .. n : (SubSeq(s, 1, n) \o t)[i] = s[i]
         /\ \A i \in 1 .. Len(t) : (SubSeq(s, 1, n) \o t)[n + i] = t[i]
<1> DEFINE u == SubSeq(s, 1, n)
<1>1. u \in Seq(S) /\ Len(u) = n /\ \A i \in 1 .. n : u[i] = s[i]
  BY FrontSub
<1> HIDE DEF u
<1>a. u \in Seq(S)
  BY <1>1
<1>b. /\ u \o t \in Seq(S) /\ Len(u \o t) = Len(u) + Len(t)
      /\ \A i \in 1 .. Len(u) + Len(t) : (u \o t)[i] = IF i <= Len(u) THEN u[i] ELSE t[i - Len(u)]
  BY <1>a, ConcatProperties
<1>2. /\ u \o t \in Seq(S) /\ Len(u \o t) = n + Len(t)
      /\ \A i \in 1 .. n + Len(t) : (u \o t)[i] = IF i <= n THEN u[i] ELSE t[i - n]
  BY <1>1, <1>b
<1>3. Len(t) \in Nat
  BY SeqIs
<1>4. \A i \in 1 .. n : (u \o t)[i] = s[i]
  BY <1>1, <1>2, <1>3
<1>5. ASSUME NEW i \in 1 .. Len(t)
      PROVE  (u \o t)[n + i] = t[i]
  <2>1. n + i \in 1 .. n + Len(t) /\ ~(n + i <= n) /\ n + i - n = i
    BY <1>3
  <2> QED
    BY <1>2, <2>1
<1> QED
  BY <1>2, <1>4, <1>5 DEF u

LEMMA SplicedTo ==
  ASSUME NEW S, NEW s \in Seq(S), NEW n \in Int, 0 <= n, n <= Len(s), NEW t \in Seq(S),
         NEW u, u = SubSeq(s, 1, n) \o t
  PROVE  /\ u \in Seq(S) /\ Len(u) = n + Len(t)
         /\ \A i \in 1 .. n : u[i] = s[i]
         /\ \A i \in 1 .. Len(t) : u[n + i] = t[i]
BY Spliced

(* The last of a sequence replaced *)
LEMMA LastReplaced ==
  ASSUME NEW S, NEW s \in Seq(S), s # <<>>, NEW e \in S
  PROVE  /\ [s EXCEPT ![Len(s)] = e] \in Seq(S) /\ Len([s EXCEPT ![Len(s)] = e]) = Len(s)
         /\ [s EXCEPT ![Len(s)] = e][Len(s)] = e
         /\ \A i \in 1 .. Len(s) - 1 : [s EXCEPT ![Len(s)] = e][i] = s[i]
<1>1. Len(s) \in Nat /\ Len(s) \in 1 .. Len(s)
  BY SeqIs, EmptySeq
<1> QED
  BY <1>1, ExceptSeq

(* Front of the community modules *)
LEMMA FrontIs ==
  ASSUME NEW S, NEW s \in Seq(S), s # <<>>
  PROVE  /\ Front(s) \in Seq(S) /\ Len(Front(s)) = Len(s) - 1 /\ Len(s) \in Nat \ {0}
         /\ \A i \in 1 .. Len(s) - 1 : Front(s)[i] = s[i]
         /\ Last(s) = s[Len(s)] /\ Last(s) \in S
<1>1. Len(s) \in Nat \ {0}
  BY EmptySeq
<1>2. Front(s) = SubSeq(s, 1, Len(s) - 1)
  BY DEF Front
<1>3. Last(s) = s[Len(s)]
  BY DEF Last
<1>4. Len(s) - 1 \in Int /\ 0 <= Len(s) - 1 /\ Len(s) - 1 <= Len(s) /\ Len(s) \in 1 .. Len(s)
  BY <1>1
<1>5. /\ Front(s) \in Seq(S) /\ Len(Front(s)) = Len(s) - 1
      /\ \A i \in 1 .. Len(s) - 1 : Front(s)[i] = s[i]
  <2>1. PICK n \in Int : n = Len(s) - 1
    BY <1>4
  <2>2. 0 <= n /\ n <= Len(s)
    BY <1>4, <2>1
  <2>3. SubSeq(s, 1, n) \in Seq(S) /\ Len(SubSeq(s, 1, n)) = n
    BY <2>2, FrontSub
  <2>4. \A i \in 1 .. n : SubSeq(s, 1, n)[i] = s[i]
    BY <2>2, FrontSub
  <2> QED
    BY <1>2, <2>1, <2>3, <2>4
<1> QED
  BY <1>1, <1>3, <1>4, <1>5, SeqIs

LEMMA ReversedIs ==
  ASSUME NEW S, NEW s \in Seq(S)
  PROVE  Reverse(s) \in Seq(S) /\ Len(Reverse(s)) = Len(s)
<1>1. Len(s) \in Nat /\ \A i \in 1 .. Len(s) : s[Len(s) - i + 1] \in S
  BY SeqIs
<1>2. [i \in 1 .. Len(s) |-> s[(Len(s) - i) + 1]] \in Seq(S)
  BY <1>1
<1> QED
  BY <1>1, <1>2 DEF Reverse

-----------------------------------------------------------------------------
(* Values and their parts *)

(* Every number up to that of the places is the rank of one of them. *)
LEMMA Ranked ==
  ASSUME NEW n \in Nat, NEW places \in SUBSET (1 .. n), NEW k \in 1 .. Cardinality(places)
  PROVE  /\ Nth(places, k) \in places
         /\ Cardinality({j \in places : j <= Nth(places, k)}) = k
<1> DEFINE upto(i) == {j \in places : j <= i}
           c == Cardinality(places)
           rank == [i \in places |-> Cardinality(upto(i))]
<1>1. IsFiniteSet(places) /\ c \in Nat
  <2>1. IsFiniteSet(1 .. n)
    BY FS_Interval
  <2> QED
    BY <2>1, FS_Subset, FS_CardinalityType
<1>2. ASSUME NEW i \in places
      PROVE  IsFiniteSet(upto(i)) /\ Cardinality(upto(i)) \in 1 .. c
  <2>1. IsFiniteSet(upto(i)) /\ Cardinality(upto(i)) <= c /\ Cardinality(upto(i)) \in Nat
    BY <1>1, FS_Subset, FS_CardinalityType
  <2>2. i \in upto(i)
    OBVIOUS
  <2>3. Cardinality(upto(i)) # 0
    BY <2>1, <2>2, FS_EmptySet
  <2> QED
    BY <1>1, <2>1, <2>3
<1>3. ASSUME NEW i \in places, NEW h \in places, i < h
      PROVE  rank[i] # rank[h]
  <2>1. i \in Int /\ h \in Int /\ \A j \in places : j \in Int
    OBVIOUS
  <2>a. \A j \in places : j <= i => j <= h
    BY <1>3, <2>1
  <2>b. upto(i) \in SUBSET upto(h)
    BY <2>a
  <2>c. h \in upto(h)
    BY <2>1
  <2>d. h \notin upto(i)
    BY <1>3, <2>1
  <2>2. upto(i) \in SUBSET upto(h) /\ h \in upto(h) /\ h \notin upto(i)
    BY <2>b, <2>c, <2>d
  <2>3. Cardinality(upto(h)) # Cardinality(upto(i))
    BY <1>2, <2>2, FS_Subset
  <2> QED
    BY <2>3
<1>4. rank \in [places -> 1 .. c]
  BY <1>2
<1>5. ASSUME NEW i \in places, NEW h \in places, rank[i] = rank[h]
      PROVE  i = h
  <2>1. i \in Int /\ h \in Int
    OBVIOUS
  <2>2. ~(i < h) /\ ~(h < i)
    BY <1>3, <1>5
  <2> QED
    BY <2>1, <2>2
<1>6. rank \in Injection(places, 1 .. c)
  BY <1>4, <1>5 DEF Injection, IsInjective
<1>7. IsFiniteSet(1 .. c) /\ Cardinality(1 .. c) = c
  BY <1>1, FS_Interval
<1>8. rank \in Surjection(places, 1 .. c)
  BY <1>6, <1>7, FS_Injection
<1>9. \A t \in 1 .. c : \E i \in places : rank[i] = t
  BY <1>8 DEF Surjection
<1>10. \E i \in places : Cardinality(upto(i)) = k
  BY <1>9
<1> QED
  BY <1>10 DEF Nth

LEMMA WithoutRepeatsIs ==
  ASSUME NEW S, NEW s \in Seq(S)
  PROVE  WithoutRepeats(s) \in Seq(S)
<1> DEFINE first == Firsts(s)
           c == Cardinality(first)
<1>1. Len(s) \in Nat /\ DOMAIN s = 1 .. Len(s) /\ \A i \in 1 .. Len(s) : s[i] \in S
  BY SeqIs
<1>2. first \in SUBSET (1 .. Len(s))
  BY <1>1 DEF Firsts
<1>3. c \in Nat
  <2>1. IsFiniteSet(1 .. Len(s))
    BY <1>1, FS_Interval
  <2> QED
    BY <1>2, <2>1, FS_Subset, FS_CardinalityType
<1> HIDE DEF first
<1>4. \A k \in 1 .. c : Nth(first, k) \in first
  BY <1>1, <1>2, Ranked
<1>5. \A k \in 1 .. c : s[Nth(first, k)] \in S
  BY <1>1, <1>2, <1>4
<1>6. [k \in 1 .. c |-> s[Nth(first, k)]] \in Seq(S)
  BY <1>3, <1>5
<1> QED
  BY <1>6 DEF WithoutRepeats, first

LEMMA ThreeJoined ==
  ASSUME NEW S, NEW s \in Seq(S), NEW t \in Seq(S), NEW u \in Seq(S)
  PROVE  (s \o t) \o u \in Seq(S) /\ Len((s \o t) \o u) = Len(s) + Len(t) + Len(u)
<1>1. s \o t \in Seq(S) /\ Len(s \o t) = Len(s) + Len(t)
  BY ConcatProperties
<1>2. (s \o t) \o u \in Seq(S) /\ Len((s \o t) \o u) = Len(s \o t) + Len(u)
  BY <1>1, ConcatProperties
<1> QED
  BY <1>1, <1>2

(* An unpacking assignment gives each target a value. *)
Stars(n) == -1 .. n - 1

(* n values, of which one may be a new list *)
Listed(S, s, n) == \E rest \in Seq(S) : s \in Seq(S \cup {<<"list", rest>>}) /\ Len(s) = n

LEMMA UnpackedIs ==
  ASSUME NEW S, NEW s \in Seq(S), NEW n \in Nat, NEW star \in Stars(n), ~UnpackFails(s, n, star)
  PROVE  Listed(S, Unpacked(s, n, star), n)
<1>0. /\ star \in -1 .. n - 1
      /\ star < 0 => Len(s) = n
      /\ star >= 0 => Len(s) >= n - 1
  <2>1. Len(s) \in Nat
    BY LenProperties
  <2> QED
    BY <2>1 DEF Stars, UnpackFails
<1>1. Len(s) \in Nat
  BY SeqIs
<1>2. CASE star < 0
  <2>1. Unpacked(s, n, star) = s
    BY <1>2 DEF Unpacked
  <2>2. S \subseteq S \cup {<<"list", s>>}
    OBVIOUS
  <2> QED
    BY <1>0, <1>2, <2>1, <2>2, SeqMonotonic DEF Listed
<1>3. CASE star >= 0
  <2> DEFINE after == star + Len(s) - n + 1
             rest == SubSeq(s, star + 1, after)
             T == S \cup {<<"list", rest>>}
             a == SubSeq(s, 1, star)
             b == << <<"list", rest>> >>
             d == SubSeq(s, after + 1, Len(s))
  <2>1. after \in Int /\ star <= after /\ after <= Len(s) /\ star \in Int
    BY <1>0, <1>1, <1>3
  <2>2. rest \in Seq(S)
    BY <2>1, <1>3, MidSub
  <2>3. a \in Seq(S) /\ Len(a) = star
    BY <2>1, <1>1, <1>3, FrontSub
  <2>4. d \in Seq(S) /\ Len(d) = Len(s) - after
    <3>1. after + 1 \in Int /\ Len(s) \in Int /\ 1 <= after + 1 /\ after + 1 <= Len(s) + 1
      BY <2>1, <1>1, <1>3
    <3>2. d \in Seq(S) /\ Len(d) = Len(s) - (after + 1) + 1
      BY <3>1, <1>1, MidSub
    <3> QED
      BY <3>2, <2>1, <1>1
  <2> HIDE DEF a, d, rest, after
  <2>5. S \subseteq T
    OBVIOUS
  <2> HIDE DEF T
  <2>6. a \in Seq(T) /\ d \in Seq(T)
    BY <2>3, <2>4, <2>5, SeqMonotonic
  <2>7. b \in Seq(T) /\ Len(b) = 1
    BY DEF T
  <2> HIDE DEF b
  <2>9. (a \o b) \o d \in Seq(T) /\ Len((a \o b) \o d) = Len(a) + Len(b) + Len(d)
    <3>1. a \in Seq(T)
      BY <2>6
    <3>2. b \in Seq(T)
      BY <2>7
    <3>3. d \in Seq(T)
      BY <2>6
    <3> QED
      BY <3>1, <3>2, <3>3, ThreeJoined
  <2>10. Unpacked(s, n, star) = (a \o b) \o d
    BY <1>0, <1>3, ~(star < 0) DEF Unpacked, a, b, d, rest, after
  <2>11. star + 1 + (Len(s) - after) = n
    BY <1>0, <1>1, <1>3 DEF after
  <2>12. Len(Unpacked(s, n, star)) = n
    BY <2>3, <2>4, <2>7, <2>9, <2>10, <2>11
  <2> QED
    BY <2>2, <2>9, <2>10, <2>12 DEF T, Listed
<1>4. star < 0 \/ star >= 0
  BY <1>0
<1> QED
  BY <1>2, <1>3, <1>4

-----------------------------------------------------------------------------
(* The inductive invariant *)

(* v is of a kind that a certificate names. *)
IsA(kind, v) ==
    \/ kind = "any"
    \/ kind = Kind(v) /\ kind # "list+"
    \/ kind = "list+" /\ Kind(v) = "list" /\ v[2] # <<>>

(* What s knows of the values between lo and hi on the stack st is so. *)
Known(s, st, lo, hi) ==
    /\ lo + Len(s.stack) <= hi
    /\ s.whole => lo + Len(s.stack) = hi
    /\ \A j \in 1 .. Len(s.stack) : IsA(s.stack[j], st[hi - Len(s.stack) + j])

(* The height of the stack when the frame f set its k-th handler, or began *)
Mark(f, hs, k) == IF k = 0 THEN f.ssl ELSE hs[f.snh + k].len

(* The handlers f has set are those s says, and the values below them too. *)
Tries(s, f, st, hs) ==
    /\ f.snh + Len(s.tries) <= Len(hs)
    /\ \A k \in 1 .. Len(s.tries) :
          /\ hs[f.snh + k].code = f.code /\ hs[f.snh + k].to = s.tries[k].to
          /\ Known(s.tries[k], st, Mark(f, hs, k - 1), Mark(f, hs, k))
    /\ \A j, k \in 0 .. Len(s.tries) : j <= k => Mark(f, hs, j) <= Mark(f, hs, k)

Lowest(s, f, hs) == Mark(f, hs, Len(s.tries))

Excepts(pending, e) ==
    CASE pending = "none" -> e = Null
      [] pending = "some" -> e # Null
      [] OTHER -> TRUE

(* The frame f, which is the innermost, is in state s. *)
In(s, f, st, hs, e, av) ==
    /\ Tries(s, f, st, hs) /\ Len(hs) = f.snh + Len(s.tries)
    /\ Known(s, st, Lowest(s, f, hs), Len(st))
    /\ Excepts(s.exc, e)
    /\ s.star = <<>> \/ s.star = <<av>>

Planned(f) == Plan[f.code][f.pc]

Executes(f, st, hs, e, av) ==
    f.pc \in DOMAIN Plan[f.code] /\ In(Planned(f), f, st, hs, e, av)

(* ... and e has been thrown there, or by a frame it called. *)
Out(s, f, st, hs, e) ==
    /\ Tries(s, f, st, hs) /\ Len(hs) = f.snh + Len(s.tries)
    /\ Lowest(s, f, hs) <= Len(st)
    /\ e # Null

Falls(f, st, hs, e) ==
    f.pc \in DOMAIN Plan[f.code] /\ Out(Planned(f), f, st, hs, e)

(* The values between lo and hi are what s knows below the one to come. *)
Awaited(s, st, lo, hi) ==
    /\ lo <= hi /\ lo + Len(s.stack) <= hi + 1
    /\ s.whole => lo + Len(s.stack) = hi + 1
    /\ \A j \in 1 .. Len(s.stack) :
          IF j = Len(s.stack) THEN s.stack[j] = "any"
          ELSE IsA(s.stack[j], st[hi + 1 - Len(s.stack) + j])

(* f has called g, and is in state s when g is back, less the exception. *)
Awaits(s, f, g, st, hs) ==
    /\ Tries(s, f, st, hs) /\ g.snh = f.snh + Len(s.tries)
    /\ Awaited(s, st, Lowest(s, f, hs), g.ssl)
    /\ s.exc # "some" /\ s.star = <<>>

Suspended(f, g, st, hs) ==
    f.pc \in DOMAIN Plan[f.code] /\ Awaits(Planned(f), f, g, st, hs)

Nested(fs, st, hs) ==
    /\ \A i, j \in 1 .. Len(fs) : i <= j => fs[i].ssl <= fs[j].ssl /\ fs[i].snh <= fs[j].snh
    /\ \A i \in 1 .. Len(fs) - 1 : Suspended(fs[i], fs[i + 1], st, hs)

(* The data of a program: U are the values there have been. *)
EnvIn(U) == UNION {[N -> U] : N \in SUBSET Locals}

FrameIn(U, n) ==
    {f \in [func : U, code : DOMAIN Code, pc : Nat, scope : Seq(1 .. n), ssl : Nat, snh : Nat,
            made : U \cup {Null}] : f.scope # <<>>}

FuncIn(U, n) ==
    {f \in [code : DOMAIN Code, pars : Seq(Locals), va : Int, defa : Seq(U), scope : Seq(1 .. n)] :
        f.va \in -1 .. Len(f.pars) - 1}

Handlers == [code : DOMAIN Code, to : Nat, len : Nat]

Typed(U, fs, st, hs, e, es, fu) ==
    /\ Base \subseteq U /\ Closed(U, 1 .. Len(fu))
    /\ fs \in Seq(FrameIn(U, Len(es)))
    /\ st \in Seq(U)
    /\ hs \in Seq(Handlers)
    /\ e \in U \cup {Null}
    /\ es \in Seq(EnvIn(U))
    /\ fu \in Seq(FuncIn(U, Len(es)))

Controlled(fs, st, hs, e, av, md) ==
    /\ Nested(fs, st, hs)
    /\ \/ md = "exec" /\ fs # <<>> /\ Executes(fs[Len(fs)], st, hs, e, av)
       \/ md = "thrown" /\ fs # <<>> /\ Falls(fs[Len(fs)], st, hs, e)
       \/ md = "done" /\ fs = <<>>

IInv ==
    /\ prog \in Programs
    /\ \E U : Typed(U, frames, stk, handlers, exc, envs, funcs)
    /\ Controlled(frames, stk, handlers, exc, assv, mode)

-----------------------------------------------------------------------------
(* What is known stays known. *)

Same(s, t, n) == \A j \in 1 .. n : s[j] = t[j]

Outlined(s) ==
    /\ s.stack \in Seq(Shapes)
    /\ s.tries \in Seq([to : Nat, stack : Seq(Shapes), whole : BOOLEAN])

LEMMA SuitsIs ==
  ASSUME NEW wanted, NEW known, NEW v, Suits(wanted, known), IsA(known, v)
  PROVE  IsA(wanted, v)
BY DEF Suits, IsA

LEMMA Shifted ==
  ASSUME NEW m \in Nat, NEW n \in Nat, NEW hi \in Nat, m - n >= 0, NEW j \in 1 .. n
  PROVE  (m - n) + j \in 1 .. m /\ hi - m + ((m - n) + j) = hi - n + j
OBVIOUS

(* A certificate that says less is right when one that says more is. *)
LEMMA KnownLess ==
  ASSUME NEW t, NEW s, t.stack \in Seq(Shapes), s.stack \in Seq(Shapes), t.whole \in BOOLEAN,
         s.whole \in BOOLEAN, Covers(t, s), NEW st, NEW lo \in Nat, NEW hi \in Nat,
         Known(s, st, lo, hi)
  PROVE  Known(t, st, lo, hi)
<1> DEFINE more == Len(s.stack) - Len(t.stack)
<1>1. Len(s.stack) \in Nat /\ Len(t.stack) \in Nat /\ DOMAIN t.stack = 1 .. Len(t.stack)
  BY LenProperties
<1>2. /\ IF t.whole THEN s.whole /\ more = 0 ELSE more >= 0
      /\ \A j \in 1 .. Len(t.stack) : Suits(t.stack[j], s.stack[more + j])
  BY <1>1 DEF Covers
<1>3. /\ lo + Len(s.stack) <= hi /\ (s.whole => lo + Len(s.stack) = hi)
      /\ \A j \in 1 .. Len(s.stack) : IsA(s.stack[j], st[hi - Len(s.stack) + j])
  BY DEF Known
<1>4. lo + Len(t.stack) <= hi /\ (t.whole => lo + Len(t.stack) = hi)
  BY <1>1, <1>2, <1>3
<1>a. more >= 0
  BY <1>1, <1>2
<1>5. ASSUME NEW j \in 1 .. Len(t.stack)
      PROVE  IsA(t.stack[j], st[hi - Len(t.stack) + j])
  <2>1. more + j \in 1 .. Len(s.stack) /\ hi - Len(s.stack) + (more + j) = hi - Len(t.stack) + j
    BY <1>1, <1>a, Shifted, ZenonT(60)
  <2>2. IsA(s.stack[more + j], st[hi - Len(s.stack) + (more + j)])
    BY <1>3, <2>1
  <2>3. IsA(s.stack[more + j], st[hi - Len(t.stack) + j])
    BY <2>1, <2>2
  <2>4. Suits(t.stack[j], s.stack[more + j])
    BY <1>2
  <2> QED
    BY <2>3, <2>4, SuitsIs
<1> QED
  BY <1>4, <1>5 DEF Known

LEMMA KnownSame ==
  ASSUME NEW s, s.stack \in Seq(Shapes), NEW st, NEW st2, NEW lo \in Nat, NEW hi \in Nat,
         Known(s, st, lo, hi), Same(st, st2, hi)
  PROVE  Known(s, st2, lo, hi)
<1>1. Len(s.stack) \in Nat
  BY LenProperties
<1>2. lo + Len(s.stack) <= hi
  BY DEF Known
<1>3. ASSUME NEW j \in 1 .. Len(s.stack)
      PROVE  IsA(s.stack[j], st2[hi - Len(s.stack) + j])
  <2>1. hi - Len(s.stack) + j \in 1 .. hi
    BY <1>1, <1>2
  <2>2. st2[hi - Len(s.stack) + j] = st[hi - Len(s.stack) + j]
    BY <2>1 DEF Same
  <2>3. IsA(s.stack[j], st[hi - Len(s.stack) + j])
    BY DEF Known
  <2> QED
    BY <2>2, <2>3
<1> QED
  BY <1>3 DEF Known

LEMMA AwaitedSame ==
  ASSUME NEW s, s.stack \in Seq(Shapes), NEW st, NEW st2, NEW lo \in Nat, NEW hi \in Nat,
         Awaited(s, st, lo, hi), Same(st, st2, hi)
  PROVE  Awaited(s, st2, lo, hi)
<1>1. Len(s.stack) \in Nat
  BY LenProperties
<1>2. lo + Len(s.stack) <= hi + 1
  BY DEF Awaited
<1>3. ASSUME NEW j \in 1 .. Len(s.stack), j # Len(s.stack)
      PROVE  IsA(s.stack[j], st2[hi + 1 - Len(s.stack) + j])
  <2>1. hi + 1 - Len(s.stack) + j \in 1 .. hi
    BY <1>1, <1>2, <1>3
  <2>2. st2[hi + 1 - Len(s.stack) + j] = st[hi + 1 - Len(s.stack) + j]
    BY <2>1 DEF Same
  <2>3. IsA(s.stack[j], st[hi + 1 - Len(s.stack) + j])
    BY <1>3 DEF Awaited
  <2> QED
    BY <2>2, <2>3
<1> QED
  BY <1>3 DEF Awaited

LEMMA MarkIs ==
  ASSUME NEW f, f.ssl \in Nat, f.snh \in Nat, NEW hs \in Seq(Handlers), NEW n \in Nat,
         f.snh + n <= Len(hs), NEW k \in 0 .. n
  PROVE  Mark(f, hs, k) \in Nat
<1>1. CASE k = 0
  BY <1>1 DEF Mark
<1>2. CASE k # 0
  <2>1. Len(hs) \in Nat
    BY LenProperties
  <2>2. f.snh + k \in 1 .. Len(hs)
    BY <1>2, <2>1
  <2>3. hs[f.snh + k] \in Handlers
    BY <2>2, SeqIs
  <2> QED
    BY <1>2, <2>3 DEF Mark, Handlers
<1> QED
  BY <1>1, <1>2

LEMMA OutlinedIs ==
  ASSUME NEW s, Outlined(s)
  PROVE  /\ Len(s.stack) \in Nat /\ Len(s.tries) \in Nat
         /\ DOMAIN s.stack = 1 .. Len(s.stack) /\ DOMAIN s.tries = 1 .. Len(s.tries)
         /\ \A k \in 1 .. Len(s.tries) :
               s.tries[k].to \in Nat /\ s.tries[k].stack \in Seq(Shapes) /\ s.tries[k].whole \in BOOLEAN
<1>1. \A k \in 1 .. Len(s.tries) : s.tries[k] \in [to : Nat, stack : Seq(Shapes), whole : BOOLEAN]
  BY SeqIs DEF Outlined
<1>2. \A k \in 1 .. Len(s.tries) :
               s.tries[k].to \in Nat /\ s.tries[k].stack \in Seq(Shapes) /\ s.tries[k].whole \in BOOLEAN
  BY <1>1
<1> QED
  BY <1>2, LenProperties DEF Outlined

(* The frame moves on, the stack and the handlers change above its own. *)
LEMMA TriesSame ==
  ASSUME NEW s, Outlined(s), NEW f, f.ssl \in Nat, f.snh \in Nat,
         NEW g, g.code = f.code, g.ssl = f.ssl, g.snh = f.snh,
         NEW hs \in Seq(Handlers), NEW hs2 \in Seq(Handlers), NEW st, NEW st2,
         Tries(s, f, st, hs), Same(st, st2, Lowest(s, f, hs)),
         Same(hs, hs2, f.snh + Len(s.tries)), f.snh + Len(s.tries) <= Len(hs2)
  PROVE  Tries(s, g, st2, hs2) /\ Lowest(s, g, hs2) = Lowest(s, f, hs)
<1> DEFINE n == Len(s.tries)
<1>1. n \in Nat /\ f.snh + n <= Len(hs)
  BY OutlinedIs DEF Tries
<1>2. ASSUME NEW k \in 1 .. n
      PROVE  hs2[f.snh + k] = hs[f.snh + k]
  <2>1. f.snh + k \in 1 .. f.snh + n
    BY <1>1
  <2> QED
    BY <2>1 DEF Same
<1>3. ASSUME NEW k \in 0 .. n
      PROVE  Mark(g, hs2, k) = Mark(f, hs, k)
  <2>1. k = 0 \/ k \in 1 .. n
    BY <1>1
  <2> QED
    BY <1>2, <2>1 DEF Mark
<1>4. Lowest(s, g, hs2) = Lowest(s, f, hs)
  <2>1. n \in 0 .. n
    BY <1>1
  <2> QED
    BY <2>1, <1>3 DEF Lowest
<1>5. ASSUME NEW k \in 1 .. n
      PROVE  /\ hs2[g.snh + k].code = g.code /\ hs2[g.snh + k].to = s.tries[k].to
             /\ Known(s.tries[k], st2, Mark(g, hs2, k - 1), Mark(g, hs2, k))
  <2>1. /\ hs[f.snh + k].code = f.code /\ hs[f.snh + k].to = s.tries[k].to
        /\ Known(s.tries[k], st, Mark(f, hs, k - 1), Mark(f, hs, k))
    BY DEF Tries
  <2>2. k \in 0 .. n /\ k - 1 \in 0 .. n /\ n \in 0 .. n
    BY <1>1
  <2>3. Mark(f, hs, k) \in Nat /\ Mark(f, hs, k - 1) \in Nat /\ Mark(f, hs, n) \in Nat
    BY <1>1, <2>2, MarkIs
  <2>4. Mark(f, hs, k) <= Mark(f, hs, n)
    BY <2>2, <1>1 DEF Tries
  <2>5. \A j \in 1 .. Mark(f, hs, k) : j \in 1 .. Mark(f, hs, n)
    BY <2>3, <2>4
  <2>6. Same(st, st2, Mark(f, hs, k))
    BY <2>5 DEF Same, Lowest
  <2>7. s.tries[k].stack \in Seq(Shapes)
    BY OutlinedIs
  <2>8. Known(s.tries[k], st, Mark(f, hs, k - 1), Mark(f, hs, k))
    BY <2>1
  <2>9. Known(s.tries[k], st2, Mark(f, hs, k - 1), Mark(f, hs, k))
    BY <2>3, <2>6, <2>7, <2>8, KnownSame
  <2>10. Mark(g, hs2, k) = Mark(f, hs, k) /\ Mark(g, hs2, k - 1) = Mark(f, hs, k - 1)
    BY <1>3, <2>2
  <2> QED
    BY <2>1, <2>9, <2>10, <1>2
<1>6. \A j, k \in 0 .. n : j <= k => Mark(g, hs2, j) <= Mark(g, hs2, k)
  BY <1>3 DEF Tries
<1> QED
  BY <1>4, <1>5, <1>6 DEF Tries

LEMMA TriesLess ==
  ASSUME NEW t, NEW s, Outlined(t), Outlined(s), Len(t.tries) = Len(s.tries),
         \A k \in DOMAIN t.tries : t.tries[k].to = s.tries[k].to /\ Covers(t.tries[k], s.tries[k]),
         NEW f, f.ssl \in Nat, f.snh \in Nat, NEW hs \in Seq(Handlers), NEW st,
         Tries(s, f, st, hs)
  PROVE  Tries(t, f, st, hs) /\ Lowest(t, f, hs) = Lowest(s, f, hs)
<1> DEFINE n == Len(s.tries)
<1>1. n \in Nat /\ f.snh + n <= Len(hs) /\ DOMAIN t.tries = 1 .. n
  BY OutlinedIs DEF Tries
<1>2. ASSUME NEW k \in 1 .. n
      PROVE  /\ hs[f.snh + k].code = f.code /\ hs[f.snh + k].to = t.tries[k].to
             /\ Known(t.tries[k], st, Mark(f, hs, k - 1), Mark(f, hs, k))
  <2>1. /\ hs[f.snh + k].code = f.code /\ hs[f.snh + k].to = s.tries[k].to
        /\ Known(s.tries[k], st, Mark(f, hs, k - 1), Mark(f, hs, k))
    BY DEF Tries
  <2>2. k \in 0 .. n /\ k - 1 \in 0 .. n
    BY <1>1
  <2>3. Mark(f, hs, k) \in Nat /\ Mark(f, hs, k - 1) \in Nat
    BY <1>1, <2>2, MarkIs
  <2>4. t.tries[k].to = s.tries[k].to /\ Covers(t.tries[k], s.tries[k])
    BY <1>1
  <2>5. /\ t.tries[k].stack \in Seq(Shapes) /\ t.tries[k].whole \in BOOLEAN
        /\ s.tries[k].stack \in Seq(Shapes) /\ s.tries[k].whole \in BOOLEAN
    BY OutlinedIs
  <2>6. Known(s.tries[k], st, Mark(f, hs, k - 1), Mark(f, hs, k))
    BY <2>1
  <2>7. Known(t.tries[k], st, Mark(f, hs, k - 1), Mark(f, hs, k))
    BY <2>3, <2>4, <2>5, <2>6, KnownLess
  <2> QED
    BY <2>1, <2>4, <2>7
<1>3. \A j, k \in 0 .. n : j <= k => Mark(f, hs, j) <= Mark(f, hs, k)
  BY DEF Tries
<1> QED
  BY <1>1, <1>2, <1>3 DEF Tries, Lowest

LEMMA ExceptsLess ==
  ASSUME NEW wanted, NEW known, wanted = "maybe" \/ wanted = known, NEW e, Excepts(known, e)
  PROVE  Excepts(wanted, e)
BY DEF Excepts

LEMMA InLess ==
  ASSUME NEW t, NEW s, Outlined(t), Outlined(s), t.whole \in BOOLEAN, s.whole \in BOOLEAN,
         Agrees(t, s),
         NEW f, f.ssl \in Nat, f.snh \in Nat, NEW hs \in Seq(Handlers), NEW U, NEW st \in Seq(U),
         NEW e, NEW av, In(s, f, st, hs, e, av)
  PROVE  In(t, f, st, hs, e, av)
<1>1. Tries(s, f, st, hs) /\ Len(hs) = f.snh + Len(s.tries)
  BY DEF In
<1>2. Len(t.tries) = Len(s.tries)
  BY DEF Agrees
<1>3. Tries(t, f, st, hs) /\ Lowest(t, f, hs) = Lowest(s, f, hs)
  BY <1>1, <1>2, TriesLess DEF Agrees
<1>4. Known(t, st, Lowest(t, f, hs), Len(st))
  <2>1. Len(s.tries) \in Nat /\ Len(s.tries) \in 0 .. Len(s.tries)
    BY OutlinedIs
  <2>2. Lowest(s, f, hs) \in Nat /\ Len(st) \in Nat
    BY <1>1, <2>1, MarkIs, LenProperties DEF Lowest
  <2>3. Known(s, st, Lowest(s, f, hs), Len(st)) /\ Covers(t, s)
    BY DEF In, Agrees
  <2> QED
    BY <1>3, <2>2, <2>3, KnownLess DEF Outlined
<1>5. Excepts(t.exc, e)
  BY ExceptsLess DEF In, Agrees
<1>6. t.star = <<>> \/ t.star = <<av>>
  BY DEF In, Agrees
<1> QED
  BY <1>1, <1>2, <1>3, <1>4, <1>5, <1>6 DEF In

LEMMA LowestIs ==
  ASSUME NEW s, Outlined(s), NEW f, f.ssl \in Nat, f.snh \in Nat, NEW hs \in Seq(Handlers),
         NEW st, Tries(s, f, st, hs)
  PROVE  Lowest(s, f, hs) \in Nat /\ f.ssl <= Lowest(s, f, hs)
<1>1. Len(s.tries) \in Nat /\ Len(s.tries) \in 0 .. Len(s.tries) /\ 0 \in 0 .. Len(s.tries)
  BY OutlinedIs
<1>2. Lowest(s, f, hs) \in Nat
  BY <1>1, MarkIs DEF Lowest, Tries
<1>3. Mark(f, hs, 0) <= Mark(f, hs, Len(s.tries))
  BY <1>1 DEF Tries
<1>4. Mark(f, hs, 0) = f.ssl
  BY DEF Mark
<1> QED
  BY <1>2, <1>3, <1>4 DEF Lowest

(* s without its last k elements *)
Cropped(s, k) == SubSeq(s, 1, Len(s) - k)

(* u is a with its last k elements replaced by those of b. *)
Swapped(a, u, k, b) ==
    /\ Len(u) = (Len(a) - k) + Len(b)
    /\ Same(a, u, Len(a) - k)
    /\ \A i \in 1 .. Len(b) : u[(Len(a) - k) + i] = b[i]

LEMMA Exchanged ==
  ASSUME NEW S, NEW a \in Seq(S), NEW k \in 0 .. Len(a), NEW b \in Seq(S),
         NEW u, u = Cropped(a, k) \o b
  PROVE  u \in Seq(S) /\ Swapped(a, u, k, b)
<1>1. Len(a) \in Nat /\ Len(b) \in Nat
  BY LenProperties
<1>2. Len(a) - k \in Int
  BY <1>1
<1>a. PICK n \in Int : n = Len(a) - k
  BY <1>2
<1>3. 0 <= n /\ n <= Len(a)
  BY <1>1, <1>a
<1>4. ASSUME NEW v, v = SubSeq(a, 1, n) \o b
      PROVE  /\ v \in Seq(S) /\ Len(v) = n + Len(b)
             /\ \A i \in 1 .. n : v[i] = a[i]
             /\ \A i \in 1 .. Len(b) : v[n + i] = b[i]
  BY <1>1, <1>3, <1>4, SplicedTo
<1>5. u = SubSeq(a, 1, n) \o b
  BY <1>a DEF Cropped
<1>6. /\ u \in Seq(S) /\ Len(u) = n + Len(b)
      /\ \A i \in 1 .. n : u[i] = a[i]
      /\ \A i \in 1 .. Len(b) : u[n + i] = b[i]
  BY <1>4, <1>5
<1> QED
  BY <1>1, <1>a, <1>6 DEF Swapped, Same

Matches(kinds, values) ==
    Len(kinds) = Len(values) /\ \A j \in 1 .. Len(kinds) : IsA(kinds[j], values[j])

LEMMA MatchesOne ==
  ASSUME NEW kind, NEW v, IsA(kind, v)
  PROVE  Matches(<<kind>>, <<v>>)
<1>1. Len(<<kind>>) = 1 /\ Len(<<v>>) = 1 /\ <<kind>>[1] = kind /\ <<v>>[1] = v
  OBVIOUS
<1>2. \A j \in 1 .. 1 : j = 1
  OBVIOUS
<1> QED
  BY <1>1, <1>2 DEF Matches

LEMMA MatchesNone == Matches(<<>>, <<>>)
BY DEF Matches

(* Values are taken from the stack, and values of known kinds put on it. *)
LEMMA KnownExchanged ==
  ASSUME NEW s, NEW t, s.stack \in Seq(Shapes), s.whole \in BOOLEAN, t.whole = s.whole,
         NEW U, NEW st \in Seq(U), NEW lo \in Nat, Known(s, st, lo, Len(st)),
         NEW k \in 0 .. Len(s.stack), NEW puts \in Seq(Shapes), NEW vals \in Seq(U),
         Matches(puts, vals),
         Swapped(s.stack, t.stack, k, puts), NEW st2, Swapped(st, st2, k, vals)
  PROVE  /\ Known(t, st2, lo, Len(st2))
         /\ lo <= Len(st) - k /\ Same(st, st2, Len(st) - k)
<1> DEFINE a == s.stack
           a2 == t.stack
           m == Len(a)
           n == Len(st)
           r == Len(puts)
<1>1. /\ lo + m <= n /\ (s.whole => lo + m = n)
      /\ \A j \in 1 .. m : IsA(a[j], st[n - m + j])
  BY DEF Known
<1>2. /\ a \in Seq(Shapes) /\ k \in 0 .. Len(a)
      /\ r = Len(vals) /\ \A j \in 1 .. r : IsA(puts[j], vals[j])
  BY DEF Matches
<1>a. m \in Nat /\ n \in Nat /\ r \in Nat
  BY <1>2, LenProperties
<1>3. /\ Len(a2) = (m - k) + r
      /\ \A i \in 1 .. m - k : a2[i] = a[i]
      /\ \A i \in 1 .. r : a2[(m - k) + i] = puts[i]
  BY DEF Swapped, Same
<1>4. /\ Len(st2) = (n - k) + r
      /\ \A i \in 1 .. n - k : st2[i] = st[i]
      /\ \A i \in 1 .. r : st2[(n - k) + i] = vals[i]
  BY <1>2 DEF Swapped, Same
<1> HIDE DEF a, a2
<1>c. k \in 0 .. m /\ m <= n
  BY <1>1, <1>2, <1>a
<1> HIDE DEF m, n, r
<1>5. ASSUME NEW j \in 1 .. (m - k) + r
      PROVE  IsA(a2[j], st2[((n - k) + r) - ((m - k) + r) + j])
  <2>1. ((n - k) + r) - ((m - k) + r) + j = n - m + j
    BY <1>a, <1>c
  <2>2. CASE j <= m - k
    <3>1. j \in 1 .. m /\ j \in 1 .. m - k /\ n - m + j \in 1 .. n - k
      BY <1>a, <1>c, <2>2
    <3>2. a2[j] = a[j] /\ st2[n - m + j] = st[n - m + j]
      BY <1>3, <1>4, <3>1
    <3>3. IsA(a[j], st[n - m + j])
      BY <1>1, <3>1
    <3> QED
      BY <2>1, <3>2, <3>3
  <2>3. CASE ~(j <= m - k)
    <3>1. PICK i \in 1 .. r : i = j - (m - k)
      BY <1>a, <1>c, <2>3
    <3>2. (m - k) + i = j /\ (n - k) + i = n - m + j
      BY <1>a, <1>c, <3>1
    <3>3. a2[(m - k) + i] = puts[i] /\ st2[(n - k) + i] = vals[i]
      BY <1>3, <1>4
    <3>4. IsA(puts[i], vals[i])
      BY <1>2
    <3> QED
      BY <2>1, <3>2, <3>3, <3>4
  <2> QED
    BY <2>2, <2>3
<1>6. lo + Len(a2) <= Len(st2) /\ (s.whole => lo + Len(a2) = Len(st2)) /\ lo <= n - k
  BY <1>1, <1>3, <1>4, <1>a, <1>c
<1>7. Known(t, st2, lo, Len(st2))
  <2>1. \A j \in 1 .. Len(a2) : IsA(a2[j], st2[Len(st2) - Len(a2) + j])
    BY <1>3, <1>4, <1>5
  <2> QED
    BY <1>6, <2>1 DEF Known, a2
<1> QED
  BY <1>6, <1>7 DEF n, Swapped

LEMMA Shorter ==
  ASSUME NEW s, NEW st, NEW m \in Nat, NEW n \in Nat, m <= n, Same(s, st, n)
  PROVE  Same(s, st, m)
<1>1. \A j \in 1 .. m : j \in 1 .. n
  OBVIOUS
<1> QED
  BY <1>1 DEF Same

LEMMA InExchanged ==
  ASSUME NEW s, NEW t, Outlined(s), s.whole \in BOOLEAN, t.whole = s.whole, t.tries = s.tries,
         NEW U, NEW st \in Seq(U), NEW f, f.ssl \in Nat, f.snh \in Nat, NEW hs \in Seq(Handlers),
         NEW e, NEW av, In(s, f, st, hs, e, av),
         NEW k \in 0 .. Len(s.stack), NEW puts \in Seq(Shapes), NEW vals \in Seq(U),
         Matches(puts, vals),
         Outlined(t), Swapped(s.stack, t.stack, k, puts), NEW st2, Swapped(st, st2, k, vals),
         NEW e2, Excepts(t.exc, e2), NEW av2, t.star = <<>> \/ t.star = <<av2>>
  PROVE  In(t, f, st2, hs, e2, av2) /\ Same(st, st2, f.ssl)
<1> DEFINE lo == Lowest(s, f, hs)
<1>1. Tries(s, f, st, hs) /\ Len(hs) = f.snh + Len(s.tries) /\ Known(s, st, lo, Len(st))
  BY DEF In
<1>2. lo \in Nat /\ f.ssl <= lo
  BY <1>1, LowestIs
<1>3. Len(st) \in Nat /\ Len(s.tries) \in Nat
  BY OutlinedIs, LenProperties
<1>4. Lowest(t, f, hs) = lo
  BY DEF Lowest
<1> HIDE DEF lo
<1>5. Known(t, st2, lo, Len(st2)) /\ lo <= Len(st) - k /\ Same(st, st2, Len(st) - k)
  <2>1. s.stack \in Seq(Shapes)
    BY DEF Outlined
  <2>2. Known(s, st, lo, Len(st)) /\ lo \in Nat
    BY <1>1, <1>2
  <2> QED
    BY <2>1, <2>2, KnownExchanged
<1>6. Len(s.stack) \in Nat /\ Len(st) - k \in Nat
  BY <1>2, <1>3, <1>5, OutlinedIs
<1>7. Same(st, st2, lo) /\ Same(st, st2, f.ssl)
  BY <1>2, <1>5, <1>6, Shorter
<1>8. Tries(s, f, st2, hs)
  <2>1. Same(hs, hs, f.snh + Len(s.tries)) /\ f.snh + Len(s.tries) <= Len(hs)
    BY <1>1, <1>3 DEF Same
  <2> QED
    BY <1>1, <1>7, <2>1, TriesSame DEF lo
<1>9. Tries(t, f, st2, hs)
  BY <1>8 DEF Tries
<1> QED
  BY <1>1, <1>4, <1>5, <1>7, <1>9 DEF In

-----------------------------------------------------------------------------
(* What an instruction does to the state of its frame *)

(* It throws, and some of its operands are gone. *)
Failed(s, f, st, st2, hs, e) == Out(s, f, st2, hs, e) /\ Same(st, st2, f.ssl)

LEMMA Thrown ==
  ASSUME NEW s, Outlined(s), NEW U, NEW st \in Seq(U), NEW f, f.ssl \in Nat, f.snh \in Nat,
         NEW hs \in Seq(Handlers), NEW e, NEW av, In(s, f, st, hs, e, av),
         NEW k \in 0 .. Len(s.stack), NEW vals, Len(vals) \in Nat,
         NEW st2, Swapped(st, st2, k, vals), NEW e2, e2 # Null
  PROVE  Failed(s, f, st, st2, hs, e2)
<1> DEFINE lo == Lowest(s, f, hs)
<1>1. Tries(s, f, st, hs) /\ Len(hs) = f.snh + Len(s.tries) /\ lo + Len(s.stack) <= Len(st)
  BY DEF In, Known
<1>2. lo \in Nat /\ f.ssl <= lo
  BY <1>1, LowestIs
<1>3. Len(st) \in Nat /\ Len(s.tries) \in Nat /\ Len(s.stack) \in Nat
  BY OutlinedIs, LenProperties
<1>4. Len(st2) = (Len(st) - k) + Len(vals) /\ Same(st, st2, Len(st) - k)
  BY <1>3 DEF Swapped
<1> HIDE DEF lo
<1>5. Len(st) - k \in Nat /\ lo <= Len(st) - k
  BY <1>1, <1>2, <1>3
<1>8. lo <= Len(st2)
  BY <1>2, <1>3, <1>4, <1>5
<1>6. Same(st, st2, lo) /\ Same(st, st2, f.ssl)
  BY <1>2, <1>4, <1>5, Shorter
<1>7. Tries(s, f, st2, hs)
  <2>1. Same(hs, hs, f.snh + Len(s.tries)) /\ f.snh + Len(s.tries) <= Len(hs)
    BY <1>1, <1>3 DEF Same
  <2> QED
    BY <1>1, <1>6, <2>1, TriesSame DEF lo
<1> QED
  BY <1>1, <1>6, <1>7, <1>8 DEF Failed, Out, lo

(* It calls: a value is to come in place of its operands. *)
LEMMA Called ==
  ASSUME NEW s, NEW t, Outlined(s), Outlined(t), s.whole \in BOOLEAN, t.whole = s.whole,
         t.tries = s.tries, t.exc # "some", t.star = <<>>,
         NEW U, NEW st \in Seq(U), NEW f, f.ssl \in Nat, f.snh \in Nat, NEW hs \in Seq(Handlers),
         NEW e, NEW av, In(s, f, st, hs, e, av),
         NEW k \in 0 .. Len(s.stack), Swapped(s.stack, t.stack, k, <<"any">>),
         NEW st2, Swapped(st, st2, k, <<>>),
         NEW g, g.ssl = Len(st2), g.snh = Len(hs)
  PROVE  /\ Awaits(t, f, g, st2, hs) /\ Same(st, st2, f.ssl) /\ f.ssl <= g.ssl /\ f.snh <= g.snh
         /\ g.ssl \in Nat /\ g.snh \in Nat
<1> DEFINE lo == Lowest(s, f, hs)
           m == Len(s.stack)
           n == Len(st)
<1>1. /\ Tries(s, f, st, hs) /\ Len(hs) = f.snh + Len(s.tries)
      /\ lo + m <= n /\ (s.whole => lo + m = n)
      /\ \A j \in 1 .. m : IsA(s.stack[j], st[n - m + j])
  BY DEF In, Known
<1>2. lo \in Nat /\ f.ssl <= lo
  BY <1>1, LowestIs
<1>3. n \in Nat /\ Len(s.tries) \in Nat /\ m \in Nat
  BY OutlinedIs, LenProperties
<1>4. Len(st2) = n - k /\ Same(st, st2, n - k)
  BY <1>3 DEF Swapped
<1>5. /\ Len(t.stack) = (m - k) + 1 /\ t.stack[(m - k) + 1] = "any"
      /\ \A j \in 1 .. m - k : t.stack[j] = s.stack[j]
  BY <1>3 DEF Swapped, Same
<1>6. Lowest(t, f, hs) = lo
  BY DEF Lowest
<1>a. k \in Int /\ 0 <= k /\ k <= m
  BY <1>3
<1> HIDE DEF lo, m, n
<1>7. n - k \in Nat /\ lo <= n - k
  BY <1>1, <1>2, <1>3, <1>a
<1>8. Same(st, st2, lo) /\ Same(st, st2, f.ssl)
  BY <1>2, <1>4, <1>7, Shorter
<1>9. Tries(t, f, st2, hs)
  <2>1. Same(hs, hs, f.snh + Len(s.tries)) /\ f.snh + Len(s.tries) <= Len(hs)
    BY <1>1, <1>3 DEF Same
  <2>2. Tries(s, f, st2, hs)
    BY <1>1, <1>8, <2>1, TriesSame DEF lo
  <2> QED
    BY <2>2 DEF Tries
<1>10. ASSUME NEW j \in 1 .. Len(t.stack), j # Len(t.stack)
       PROVE  IsA(t.stack[j], st2[(n - k) + 1 - Len(t.stack) + j])
  <2>1. j \in 1 .. m - k /\ j \in 1 .. m /\ (n - k) + 1 - Len(t.stack) + j = n - m + j
    BY <1>3, <1>5, <1>10, <1>a
  <2>2. n - m + j \in 1 .. n - k
    BY <1>1, <1>2, <1>3, <1>a, <2>1
  <2>3. st2[n - m + j] = st[n - m + j]
    BY <1>4, <2>2 DEF Same
  <2>4. t.stack[j] = s.stack[j]
    BY <1>5, <2>1
  <2> QED
    BY <1>1, <2>1, <2>3, <2>4
<1>11. Awaited(t, st2, lo, n - k)
  <2>1. lo + Len(t.stack) <= n - k + 1 /\ (t.whole => lo + Len(t.stack) = n - k + 1)
    BY <1>1, <1>2, <1>3, <1>5, <1>a
  <2> QED
    BY <1>5, <1>7, <1>10, <2>1 DEF Awaited
<1> QED
  BY <1>1, <1>2, <1>3, <1>4, <1>6, <1>7, <1>8, <1>9, <1>11 DEF Awaits

LEMMA AwaitedLess ==
  ASSUME NEW t, NEW s, t.stack \in Seq(Shapes), s.stack \in Seq(Shapes), t.whole \in BOOLEAN,
         s.whole \in BOOLEAN, Covers(t, s), NEW st, NEW lo \in Nat, NEW hi \in Nat,
         Awaited(s, st, lo, hi)
  PROVE  Awaited(t, st, lo, hi)
<1> DEFINE m == Len(s.stack)
           n == Len(t.stack)
<1>1. m \in Nat /\ n \in Nat /\ DOMAIN t.stack = 1 .. n
  BY LenProperties
<1>2. /\ IF t.whole THEN s.whole /\ m - n = 0 ELSE m - n >= 0
      /\ \A j \in 1 .. n : Suits(t.stack[j], s.stack[(m - n) + j])
  BY <1>1 DEF Covers
<1>3. /\ lo <= hi /\ lo + m <= hi + 1 /\ (s.whole => lo + m = hi + 1)
      /\ \A j \in 1 .. m :
            IF j = m THEN s.stack[j] = "any" ELSE IsA(s.stack[j], st[hi + 1 - m + j])
  BY DEF Awaited
<1> HIDE DEF m, n
<1>4. m - n >= 0
  BY <1>1, <1>2
<1>5. ASSUME NEW j \in 1 .. n
      PROVE  IF j = n THEN t.stack[j] = "any" ELSE IsA(t.stack[j], st[hi + 1 - n + j])
  <2>1. PICK i \in 1 .. m : i = (m - n) + j
    BY <1>1, <1>4
  <2>2. hi + 1 - m + i = hi + 1 - n + j /\ (i = m <=> j = n)
    BY <1>1, <2>1
  <2>3. Suits(t.stack[j], s.stack[i])
    BY <1>2, <2>1
  <2>4. IF i = m THEN s.stack[i] = "any" ELSE IsA(s.stack[i], st[hi + 1 - m + i])
    BY <1>3
  <2>5. CASE j = n
    BY <2>2, <2>3, <2>4, <2>5 DEF Suits
  <2>6. CASE j # n
    <3>1. IsA(s.stack[i], st[hi + 1 - n + j])
      BY <2>2, <2>4, <2>6
    <3>2. IsA(t.stack[j], st[hi + 1 - n + j])
      BY <2>3, <3>1, SuitsIs
    <3> QED
      BY <2>6, <3>2
  <2> QED
    BY <2>5, <2>6
<1>6. lo + n <= hi + 1 /\ (t.whole => lo + n = hi + 1)
  BY <1>1, <1>2, <1>3, <1>4
<1> QED
  BY <1>3, <1>5, <1>6 DEF Awaited, n

LEMMA AwaitsLess ==
  ASSUME NEW t, NEW s, Outlined(t), Outlined(s), t.whole \in BOOLEAN, s.whole \in BOOLEAN,
         Agrees(t, s), NEW f, f.ssl \in Nat, f.snh \in Nat, NEW hs \in Seq(Handlers), NEW st,
         NEW g, g.ssl \in Nat, Awaits(s, f, g, st, hs)
  PROVE  Awaits(t, f, g, st, hs)
<1>1. Tries(s, f, st, hs) /\ Len(t.tries) = Len(s.tries)
  BY DEF Awaits, Agrees
<1>2. Tries(t, f, st, hs) /\ Lowest(t, f, hs) = Lowest(s, f, hs)
  BY <1>1, TriesLess DEF Agrees
<1>3. Lowest(s, f, hs) \in Nat
  BY <1>1, LowestIs
<1>4. Awaited(t, st, Lowest(t, f, hs), g.ssl)
  <2>1. Awaited(s, st, Lowest(s, f, hs), g.ssl) /\ Covers(t, s)
    BY DEF Awaits, Agrees
  <2> QED
    BY <1>2, <1>3, <2>1, AwaitedLess DEF Outlined
<1>5. t.exc # "some" /\ t.star = <<>>
  BY DEF Agrees, Awaits
<1>6. g.snh = f.snh + Len(t.tries)
  BY <1>1 DEF Awaits
<1> QED
  BY <1>2, <1>4, <1>5, <1>6 DEF Awaits

LEMMA AwaitsSame ==
  ASSUME NEW s, Outlined(s), NEW f, f.ssl \in Nat, f.snh \in Nat,
         NEW g, g.ssl \in Nat, NEW h, h.ssl = g.ssl, h.snh = g.snh,
         NEW hs \in Seq(Handlers), NEW hs2 \in Seq(Handlers), NEW st, NEW st2,
         Awaits(s, f, g, st, hs), Same(st, st2, g.ssl), Same(hs, hs2, g.snh), g.snh <= Len(hs2)
  PROVE  Awaits(s, f, h, st2, hs2)
<1>1. Tries(s, f, st, hs) /\ g.snh = f.snh + Len(s.tries) /\ Awaited(s, st, Lowest(s, f, hs), g.ssl)
  BY DEF Awaits
<1>2. Lowest(s, f, hs) \in Nat /\ Lowest(s, f, hs) <= g.ssl
  BY <1>1, LowestIs DEF Awaited
<1>3. Same(st, st2, Lowest(s, f, hs))
  BY <1>2, Shorter
<1>4. Tries(s, f, st2, hs2) /\ Lowest(s, f, hs2) = Lowest(s, f, hs)
  BY <1>1, <1>3, TriesSame
<1>5. Awaited(s, st2, Lowest(s, f, hs), g.ssl)
  BY <1>1, <1>2, AwaitedSame DEF Outlined
<1> QED
  BY <1>1, <1>4, <1>5 DEF Awaits

(* A frame it called is back. *)
LEMMA Returned ==
  ASSUME NEW s, Outlined(s), NEW f, f.ssl \in Nat, f.snh \in Nat,
         NEW g, g.ssl \in Nat, g.snh \in Nat, NEW hs \in Seq(Handlers), NEW st,
         Awaits(s, f, g, st, hs), Len(hs) = g.snh,
         NEW st2, Len(st2) = g.ssl + 1, Same(st, st2, g.ssl), NEW av
  PROVE  In(s, f, st2, hs, Null, av)
<1>1. /\ Tries(s, f, st, hs) /\ g.snh = f.snh + Len(s.tries)
      /\ Awaited(s, st, Lowest(s, f, hs), g.ssl) /\ s.exc # "some" /\ s.star = <<>>
  BY DEF Awaits
<1>2. Lowest(s, f, hs) \in Nat /\ Lowest(s, f, hs) <= g.ssl /\ Len(s.stack) \in Nat
  BY <1>1, LowestIs, OutlinedIs DEF Awaited
<1>3. Same(st, st2, Lowest(s, f, hs))
  BY <1>2, Shorter
<1>4. Same(hs, hs, f.snh + Len(s.tries)) /\ f.snh + Len(s.tries) <= Len(hs)
  BY <1>1 DEF Same
<1>5. Tries(s, f, st2, hs) /\ Lowest(s, f, hs) = Lowest(s, f, hs)
  BY <1>1, <1>3, <1>4, TriesSame
<1>6. Awaited(s, st2, Lowest(s, f, hs), g.ssl)
  BY <1>1, <1>2, AwaitedSame DEF Outlined
<1>7. Known(s, st2, Lowest(s, f, hs), Len(st2))
  <2>1. ASSUME NEW j \in 1 .. Len(s.stack)
        PROVE  IsA(s.stack[j], st2[g.ssl + 1 - Len(s.stack) + j])
    BY <1>6 DEF Awaited, IsA
  <2> QED
    BY <1>6, <2>1 DEF Known, Awaited
<1>8. Excepts(s.exc, Null)
  BY <1>1 DEF Excepts
<1> QED
  BY <1>1, <1>5, <1>7, <1>8 DEF In

Cut(a, u, n) == Len(u) = n /\ Same(a, u, n)

LEMMA Unwound ==
  ASSUME NEW s, Outlined(s), NEW f, f.ssl \in Nat, f.snh \in Nat,
         NEW g, g.ssl \in Nat, g.snh \in Nat, NEW hs \in Seq(Handlers), NEW st,
         Awaits(s, f, g, st, hs), Len(hs) = g.snh, NEW st2, Cut(st, st2, g.ssl), NEW e, e # Null
  PROVE  Out(s, f, st2, hs, e)
<1>1. Tries(s, f, st, hs) /\ g.snh = f.snh + Len(s.tries) /\ Lowest(s, f, hs) <= g.ssl
  BY DEF Awaits, Awaited
<1>2. Lowest(s, f, hs) \in Nat
  BY <1>1, LowestIs
<1>3. Same(st, st2, Lowest(s, f, hs))
  BY <1>1, <1>2, Shorter DEF Cut
<1>4. Same(hs, hs, f.snh + Len(s.tries)) /\ f.snh + Len(s.tries) <= Len(hs)
  BY <1>1 DEF Same
<1>5. Tries(s, f, st2, hs)
  BY <1>1, <1>3, <1>4, TriesSame
<1> QED
  BY <1>1, <1>5 DEF Out, Cut

(* Its last handler is used. *)
LEMMA Handled ==
  ASSUME NEW s, Outlined(s), NEW U, NEW st \in Seq(U), NEW f, f.ssl \in Nat, f.snh \in Nat,
         NEW hs \in Seq(Handlers), NEW e, Out(s, f, st, hs, e), s.tries # <<>>,
         NEW hs2 \in Seq(Handlers), Cut(hs, hs2, Len(hs) - 1),
         NEW st2, Cut(st, st2, hs[Len(hs)].len), NEW av
  PROVE  /\ In(Caught(s), f, st2, hs2, e, av) /\ Outlined(Caught(s))
         /\ Caught(s).whole \in BOOLEAN
         /\ Same(st, st2, f.ssl) /\ Same(hs, hs2, f.snh) /\ f.snh <= Len(hs2)
         /\ hs[Len(hs)].code = f.code /\ hs[Len(hs)].to = Last(s.tries).to
<1> DEFINE n == Len(s.tries)
           c == Caught(s)
           lo == Mark(f, hs, n - 1)
           hi == Mark(f, hs, n)
<1>1. /\ Tries(s, f, st, hs) /\ Len(hs) = f.snh + n /\ e # Null
      /\ n \in Nat /\ Lowest(s, f, hs) <= Len(st)
  BY OutlinedIs DEF Out
<1>2. /\ Front(s.tries) \in Seq([to : Nat, stack : Seq(Shapes), whole : BOOLEAN])
      /\ Len(Front(s.tries)) = n - 1 /\ n \in Nat \ {0}
      /\ \A k \in 1 .. n - 1 : Front(s.tries)[k] = s.tries[k]
      /\ Last(s.tries) = s.tries[n]
      /\ Last(s.tries) \in [to : Nat, stack : Seq(Shapes), whole : BOOLEAN]
  BY FrontIs DEF Outlined
<1>3. /\ c.stack = s.tries[n].stack /\ c.whole = s.tries[n].whole /\ c.tries = Front(s.tries)
      /\ c.exc = "some" /\ c.star = <<>>
  BY <1>2 DEF Caught
<1>4. Outlined(c) /\ c.whole \in BOOLEAN
  BY <1>2, <1>3 DEF Outlined
<1>5. n - 1 \in 0 .. n /\ n \in 0 .. n /\ n \in 1 .. n /\ n - 1 \in Nat /\ Len(c.tries) = n - 1
  BY <1>2, <1>3
<1>6. lo \in Nat /\ hi \in Nat /\ lo <= hi /\ hi <= Len(st) /\ f.ssl <= lo
  <2>1. lo \in Nat /\ hi \in Nat
    BY <1>1, <1>5, MarkIs
  <2>a. 0 \in 0 .. n /\ 0 <= n - 1 /\ n - 1 <= n
    BY <1>5
  <2>2. lo <= hi /\ Mark(f, hs, 0) <= lo
    BY <2>a, <1>5, <1>1 DEF Tries
  <2> QED
    BY <2>1, <2>2, <1>1 DEF Mark, Lowest
<1>7. /\ hs[f.snh + n].code = f.code /\ hs[f.snh + n].to = s.tries[n].to
      /\ Known(s.tries[n], st, lo, hi)
  BY <1>1, <1>5 DEF Tries
<1>8. hi = hs[Len(hs)].len
  BY <1>1, <1>2 DEF Mark
<1>9. Len(hs2) = f.snh + (n - 1) /\ Same(hs, hs2, f.snh + (n - 1))
  <2>1. Len(hs) - 1 = f.snh + (n - 1)
    BY <1>1, <1>5
  <2> QED
    BY <2>1 DEF Cut
<1>10. Len(st2) = hi /\ Same(st, st2, hi)
  BY <1>8 DEF Cut
<1> HIDE DEF c, lo, hi
<1>11. Same(st, st2, lo) /\ Same(st, st2, f.ssl)
  BY <1>6, <1>10, Shorter
<1>12. f.snh <= Len(hs2) /\ Same(hs, hs2, f.snh)
  <2>1. f.snh <= f.snh + (n - 1) /\ f.snh + (n - 1) \in Nat
    BY <1>5
  <2> QED
    BY <1>9, <2>1, Shorter
<1>13. Tries(c, f, st, hs) /\ Lowest(c, f, hs) = lo
  <2>1. \A k \in 1 .. n - 1 : k \in 1 .. n /\ c.tries[k] = s.tries[k]
    BY <1>2, <1>3, <1>5
  <2>2. \A k \in 0 .. n - 1 : k \in 0 .. n
    BY <1>5
  <2>3. f.snh + (n - 1) <= Len(hs)
    BY <1>1, <1>5
  <2>4. \A k \in 1 .. n - 1 :
          /\ hs[f.snh + k].code = f.code /\ hs[f.snh + k].to = c.tries[k].to
          /\ Known(c.tries[k], st, Mark(f, hs, k - 1), Mark(f, hs, k))
    BY <2>1, <1>1 DEF Tries
  <2>5. \A j, k \in 0 .. n - 1 : j <= k => Mark(f, hs, j) <= Mark(f, hs, k)
    BY <2>2, <1>1 DEF Tries
  <2>6. Tries(c, f, st, hs)
    BY <1>5, <2>3, <2>4, <2>5 DEF Tries
  <2> QED
    BY <1>5, <2>6 DEF Lowest, lo
<1>14. Tries(c, f, st2, hs2) /\ Lowest(c, f, hs2) = lo
  <2>1. f.snh + Len(c.tries) <= Len(hs2) /\ Same(hs, hs2, f.snh + Len(c.tries))
    BY <1>5, <1>9
  <2>2. Same(st, st2, Lowest(c, f, hs))
    BY <1>11, <1>13
  <2> QED
    BY <1>4, <1>13, <2>1, <2>2, TriesSame
<1>15. Known(c, st2, lo, Len(st2))
  <2>1. s.tries[n].stack \in Seq(Shapes)
    BY <1>3, <1>4 DEF Outlined
  <2>2. Known(s.tries[n], st2, lo, hi)
    BY <1>6, <1>7, <1>10, <2>1, KnownSame
  <2> QED
    BY <1>3, <1>10, <2>2 DEF Known
<1>16. Excepts(c.exc, e)
  BY <1>1, <1>3 DEF Excepts
<1>17. In(c, f, st2, hs2, e, av)
  BY <1>3, <1>5, <1>9, <1>14, <1>15, <1>16 DEF In
<1> QED
  BY <1>1, <1>2, <1>4, <1>7, <1>11, <1>12, <1>17 DEF c

(* It sets a handler. *)
LEMMA TryStarted ==
  ASSUME NEW s \in States, NEW U, NEW st \in Seq(U), NEW f, f.ssl \in Nat, f.snh \in Nat,
         NEW hs \in Seq(Handlers), NEW e, NEW av, In(s, f, st, hs, e, av),
         NEW to \in Nat, NEW hs2 \in Seq(Handlers), Len(hs2) = Len(hs) + 1, Same(hs, hs2, Len(hs)),
         hs2[Len(hs) + 1] = [code |-> f.code, to |-> to, len |-> Len(st)]
  PROVE  /\ In(Tried(s, to), f, st, hs2, e, av) /\ Outlined(Tried(s, to))
         /\ Tried(s, to).whole \in BOOLEAN
<1> DEFINE n == Len(s.tries)
           t == Tried(s, to)
           last == [to |-> to, stack |-> s.stack, whole |-> s.whole]
<1>1. Outlined(s) /\ s.whole \in BOOLEAN
  BY DEF States, Outlined
<1>2. /\ Tries(s, f, st, hs) /\ Len(hs) = f.snh + n /\ n \in Nat
      /\ Known(s, st, Lowest(s, f, hs), Len(st)) /\ Excepts(s.exc, e)
  BY <1>1, OutlinedIs DEF In
<1>3. /\ t.stack = <<>> /\ t.whole = TRUE /\ t.tries = Append(s.tries, last) /\ t.exc = s.exc
      /\ t.star = <<>>
  BY DEF Tried, States
<1>4. /\ s.tries \in Seq([to : Nat, stack : Seq(Shapes), whole : BOOLEAN])
      /\ last \in [to : Nat, stack : Seq(Shapes), whole : BOOLEAN]
  BY <1>1 DEF Outlined
<1> HIDE DEF last
<1>5. /\ t.tries \in Seq([to : Nat, stack : Seq(Shapes), whole : BOOLEAN])
      /\ Len(t.tries) = n + 1 /\ t.tries[n + 1] = last
      /\ \A k \in 1 .. n : t.tries[k] = s.tries[k]
  BY <1>3, <1>4, AppendProperties
<1>6. Outlined(t) /\ t.whole \in BOOLEAN
  <2>1. t.stack \in Seq(Shapes)
    BY <1>3, EmptySeq
  <2>2. t.tries \in Seq([to : Nat, stack : Seq(Shapes), whole : BOOLEAN])
    BY <1>5
  <2>3. t.whole \in BOOLEAN
    BY <1>3
  <2> HIDE DEF t
  <2> QED
    BY <2>1, <2>2, <2>3 DEF Outlined
<1> HIDE DEF t
<1>7. Len(st) \in Nat
  BY LenProperties
<1>8. ASSUME NEW k \in 0 .. n
      PROVE  Mark(f, hs2, k) = Mark(f, hs, k) /\ Mark(f, hs, k) \in Nat
             /\ Mark(f, hs, k) <= Len(st)
  <2>1. Mark(f, hs, k) \in Nat /\ Lowest(s, f, hs) \in Nat
    <3>1. f.snh + n <= Len(hs) /\ n \in Nat
      BY <1>2
    <3> QED
      BY <1>1, <1>2, <3>1, MarkIs, LowestIs
  <2>2. Mark(f, hs, k) <= Lowest(s, f, hs)
    BY <1>2 DEF Tries, Lowest
  <2>3. Lowest(s, f, hs) <= Len(st)
    BY <1>1, <1>2, <1>7, <2>1, OutlinedIs DEF Known
  <2>4. k = 0 \/ f.snh + k \in 1 .. Len(hs)
    <3> HIDE DEF n
    <3> QED
      BY <1>2, SMTT(30)
  <2>5. Mark(f, hs2, k) = Mark(f, hs, k)
    BY <2>4 DEF Mark, Same
  <2> QED
    BY <1>7, <2>1, <2>2, <2>3, <2>5
<1>9. Mark(f, hs2, n + 1) = Len(st)
  <2>1. n + 1 # 0 /\ f.snh + (n + 1) = Len(hs) + 1
    <3> HIDE DEF n
    <3> QED
      BY <1>2
  <2> QED
    BY <2>1 DEF Mark
<1>10. ASSUME NEW k \in 1 .. n + 1
       PROVE  /\ hs2[f.snh + k].code = f.code /\ hs2[f.snh + k].to = t.tries[k].to
              /\ Known(t.tries[k], st, Mark(f, hs2, k - 1), Mark(f, hs2, k))
  <2>1. CASE k \in 1 .. n
    <3>1. k \in 0 .. n /\ k - 1 \in 0 .. n
      BY <1>2, <2>1
    <3>2. f.snh + k \in 1 .. Len(hs)
      BY <1>2, <2>1
    <3>3. hs2[f.snh + k] = hs[f.snh + k] /\ t.tries[k] = s.tries[k]
      BY <1>5, <2>1, <3>2 DEF Same
    <3>4. /\ hs[f.snh + k].code = f.code /\ hs[f.snh + k].to = s.tries[k].to
          /\ Known(s.tries[k], st, Mark(f, hs, k - 1), Mark(f, hs, k))
      BY <1>2, <2>1 DEF Tries
    <3> QED
      BY <1>8, <3>1, <3>3, <3>4
  <2>2. CASE k = n + 1
    <3>1. f.snh + k = Len(hs) + 1 /\ k - 1 = n /\ n \in 0 .. n
      BY <1>2, <2>2
    <3>2. t.tries[k] = last
      BY <1>5, <2>2
    <3>3. Known(s, st, Mark(f, hs, n), Len(st))
      BY <1>2 DEF Lowest
    <3>4. Known(last, st, Mark(f, hs, n), Len(st))
      BY <3>3 DEF Known, last
    <3>5. Mark(f, hs2, k) = Len(st) /\ Mark(f, hs2, k - 1) = Mark(f, hs, n)
      BY <1>8, <1>9, <2>2, <3>1
    <3> QED
      BY <3>1, <3>2, <3>4, <3>5 DEF last
  <2> QED
    BY <1>2, <2>1, <2>2
<1>11. ASSUME NEW j \in 0 .. n + 1, NEW k \in 0 .. n + 1, j <= k
       PROVE  Mark(f, hs2, j) <= Mark(f, hs2, k)
  <2>1. CASE k \in 0 .. n
    <3>1. j \in 0 .. n
      BY <1>2, <1>11, <2>1
    <3> QED
      BY <1>2, <1>8, <1>11, <2>1, <3>1 DEF Tries
  <2>2. CASE k = n + 1
    <3>1. j \in 0 .. n \/ j = n + 1
      BY <1>2
    <3> QED
      BY <1>7, <1>8, <1>9, <2>2, <3>1
  <2> QED
    BY <1>2, <2>1, <2>2
<1>12. Tries(t, f, st, hs2) /\ Len(hs2) = f.snh + Len(t.tries)
  <2>1. f.snh + Len(t.tries) <= Len(hs2) /\ Len(hs2) = f.snh + Len(t.tries)
    BY <1>2, <1>5, SMTT(30)
  <2> QED
    BY <1>5, <1>10, <1>11, <2>1 DEF Tries
<1>13. Known(t, st, Lowest(t, f, hs2), Len(st))
  <2>1. Lowest(t, f, hs2) = Len(st)
    BY <1>5, <1>9 DEF Lowest
  <2>2. Len(t.stack) = 0
    BY <1>3, EmptySeq
  <2> QED
    BY <1>7, <2>1, <2>2 DEF Known
<1> QED
  BY <1>2, <1>3, <1>6, <1>12, <1>13 DEF In, t

Piled(a, b, u) ==
    /\ Len(u) = Len(a) + Len(b)
    /\ \A i \in 1 .. Len(a) : u[i] = a[i]
    /\ \A i \in 1 .. Len(b) : u[Len(a) + i] = b[i]

LEMMA Concatenated ==
  ASSUME NEW S, NEW a \in Seq(S), NEW b \in Seq(S)
  PROVE  a \o b \in Seq(S) /\ Piled(a, b, a \o b)
<1>1. Len(a) \in Nat /\ Len(b) \in Nat
  BY LenProperties
<1>2. /\ a \o b \in Seq(S) /\ Len(a \o b) = Len(a) + Len(b)
      /\ \A i \in 1 .. Len(a) + Len(b) : (a \o b)[i] = IF i <= Len(a) THEN a[i] ELSE b[i - Len(a)]
  BY ConcatProperties
<1>3. \A i \in 1 .. Len(a) : (a \o b)[i] = a[i]
  BY <1>1, <1>2
<1>4. ASSUME NEW i \in 1 .. Len(b)
      PROVE  (a \o b)[Len(a) + i] = b[i]
  <2>1. Len(a) + i \in 1 .. Len(a) + Len(b) /\ ~(Len(a) + i <= Len(a)) /\ Len(a) + i - Len(a) = i
    BY <1>1
  <2> QED
    BY <1>2, <2>1
<1> QED
  BY <1>2, <1>3, <1>4 DEF Piled

(* What two states know one above the other *)
LEMMA KnownJoined ==
  ASSUME NEW r, NEW s, NEW t, r.stack \in Seq(Shapes), s.stack \in Seq(Shapes),
         s.whole => Piled(r.stack, s.stack, t.stack), ~s.whole => t.stack = s.stack,
         s.whole => t.whole = r.whole, ~s.whole => ~t.whole,
         NEW st, NEW lo \in Nat, NEW mid \in Nat, NEW hi \in Nat,
         Known(r, st, lo, mid), Known(s, st, mid, hi)
  PROVE  Known(t, st, lo, hi)
<1> DEFINE m == Len(r.stack)
           n == Len(s.stack)
<1>1. /\ m \in Nat /\ n \in Nat
      /\ lo + m <= mid /\ mid + n <= hi /\ (r.whole => lo + m = mid) /\ (s.whole => mid + n = hi)
      /\ \A j \in 1 .. m : IsA(r.stack[j], st[mid - m + j])
      /\ \A j \in 1 .. n : IsA(s.stack[j], st[hi - n + j])
  BY LenProperties DEF Known
<1>2. CASE ~s.whole
  <2>1. t.stack = s.stack /\ ~t.whole
    BY <1>2
  <2>2. lo + n <= hi
    <3> HIDE DEF m, n
    <3> QED
      BY <1>1
  <2> QED
    BY <1>1, <2>1, <2>2 DEF Known
<1>3. CASE s.whole
  <2>1. t.whole = r.whole
    BY <1>3
  <2>2. /\ Len(t.stack) = m + n
        /\ \A j \in 1 .. m : t.stack[j] = r.stack[j]
        /\ \A j \in 1 .. n : t.stack[m + j] = s.stack[j]
    BY <1>3 DEF Piled
  <2>3. mid + n = hi
    BY <1>1, <1>3
  <2> HIDE DEF m, n
  <2>4. ASSUME NEW j \in 1 .. m + n
        PROVE  IsA(t.stack[j], st[hi - (m + n) + j])
    <3>1. CASE j <= m
      <4>1. hi - (m + n) + j = mid - m + j /\ j \in 1 .. m
        BY <1>1, <2>3, <3>1
      <4>2. t.stack[j] = r.stack[j]
        BY <2>2, <4>1
      <4> QED
        BY <1>1, <4>1, <4>2
    <3>2. CASE ~(j <= m)
      <4>1. PICK i \in 1 .. n : i = j - m
        BY <1>1, <3>2
      <4>2. hi - (m + n) + j = hi - n + i /\ m + i = j
        BY <1>1, <4>1
      <4>3. t.stack[j] = s.stack[i]
        BY <2>2, <4>2
      <4> QED
        BY <1>1, <4>2, <4>3
    <3> QED
      BY <3>1, <3>2
  <2>5. lo + (m + n) <= hi /\ (t.whole => lo + (m + n) = hi)
    BY <1>1, <2>1, <2>3
  <2> QED
    BY <2>2, <2>4, <2>5 DEF Known
<1> QED
  BY <1>2, <1>3

(* Its last handler goes. *)
LEMMA TryEnded ==
  ASSUME NEW s \in States, NEW U, NEW st \in Seq(U), NEW f, f.ssl \in Nat, f.snh \in Nat,
         NEW hs \in Seq(Handlers), NEW e, NEW av, In(s, f, st, hs, e, av), s.tries # <<>>,
         NEW hs2 \in Seq(Handlers), Cut(hs, hs2, Len(hs) - 1)
  PROVE  /\ In(Joined(s), f, st, hs2, e, av) /\ Outlined(Joined(s)) /\ Joined(s).whole \in BOOLEAN
         /\ Same(hs, hs2, f.snh) /\ f.snh <= Len(hs2) /\ hs # <<>>
<1> DEFINE n == Len(s.tries)
           c == Joined(s)
           lo == Mark(f, hs, n - 1)
           mid == Mark(f, hs, n)
           hi == Len(st)
           r == s.tries[n]
<1>1. /\ Tries(s, f, st, hs) /\ Len(hs) = f.snh + n
      /\ Known(s, st, mid, hi) /\ Excepts(s.exc, e)
  BY DEF In, Lowest
<1>a. Outlined(s) /\ s.whole \in BOOLEAN
  BY DEF States, Outlined
<1>b. n \in Nat /\ hi \in Nat
  BY <1>a, OutlinedIs, LenProperties
<1>2. /\ Front(s.tries) \in Seq([to : Nat, stack : Seq(Shapes), whole : BOOLEAN])
      /\ Len(Front(s.tries)) = n - 1 /\ n \in Nat \ {0}
      /\ \A k \in 1 .. n - 1 : Front(s.tries)[k] = s.tries[k]
      /\ Last(s.tries) = r
      /\ r \in [to : Nat, stack : Seq(Shapes), whole : BOOLEAN]
  BY <1>a, FrontIs DEF Outlined
<1>3. /\ c.stack = (IF s.whole THEN r.stack \o s.stack ELSE s.stack)
      /\ c.whole = (s.whole /\ r.whole) /\ c.tries = Front(s.tries)
      /\ c.exc = s.exc /\ c.star = <<>>
  BY <1>2 DEF Joined, States
<1>5. n - 1 \in 0 .. n /\ n \in 0 .. n /\ n \in 1 .. n /\ n - 1 \in Nat /\ Len(c.tries) = n - 1
  BY <1>2, <1>3
<1>6. lo \in Nat /\ mid \in Nat
  <2>1. f.snh + n <= Len(hs)
    BY <1>1 DEF Tries
  <2> QED
    BY <1>5, <1>b, <2>1, MarkIs
<1>7. Known(r, st, lo, mid)
  BY <1>1, <1>5 DEF Tries
<1> HIDE DEF c, lo, mid, hi
<1>8. Known(c, st, lo, hi) /\ c.stack \in Seq(Shapes) /\ c.whole \in BOOLEAN
  <2>1. r.stack \in Seq(Shapes) /\ r.whole \in BOOLEAN /\ s.stack \in Seq(Shapes)
    BY <1>2, <1>a DEF Outlined
  <2>2. Known(r, st, lo, mid)
    BY <1>7
  <2>3. Known(s, st, mid, hi)
    BY <1>1
  <2> HIDE DEF r
  <2>4. r.stack \o s.stack \in Seq(Shapes) /\ Piled(r.stack, s.stack, r.stack \o s.stack)
    BY <2>1, Concatenated
  <2>5. /\ s.whole => Piled(r.stack, s.stack, c.stack)
        /\ ~s.whole => c.stack = s.stack
        /\ s.whole => c.whole = r.whole
        /\ ~s.whole => ~c.whole
    BY <1>3, <1>a, <2>1, <2>4
  <2>6. c.stack \in Seq(Shapes) /\ c.whole \in BOOLEAN
    BY <1>3, <1>a, <2>1, <2>4
  <2>7. Known(c, st, lo, hi)
    BY <1>6, <1>b, <2>1, <2>2, <2>3, <2>5, KnownJoined
  <2> QED
    BY <2>6, <2>7
<1>4. Outlined(c)
  BY <1>2, <1>3, <1>8 DEF Outlined
<1>9. Len(hs2) = f.snh + (n - 1) /\ Same(hs, hs2, f.snh + (n - 1))
  <2>1. Len(hs) - 1 = f.snh + (n - 1)
    BY <1>1, <1>5
  <2> QED
    BY <2>1 DEF Cut
<1>12. f.snh <= Len(hs2) /\ Same(hs, hs2, f.snh)
  <2>1. f.snh <= f.snh + (n - 1) /\ f.snh + (n - 1) \in Nat
    BY <1>5
  <2> QED
    BY <1>9, <2>1, Shorter
<1>13. Tries(c, f, st, hs) /\ Lowest(c, f, hs) = lo
  <2>a. \A k \in 1 .. n - 1 : k \in 1 .. n
    BY <1>5
  <2>1. \A k \in 1 .. n - 1 : k \in 1 .. n /\ c.tries[k] = s.tries[k]
    BY <1>2, <1>3, <2>a
  <2>2. \A k \in 0 .. n - 1 : k \in 0 .. n
    BY <1>5
  <2>3. f.snh + (n - 1) <= Len(hs)
    BY <1>1, <1>5
  <2>4. \A k \in 1 .. n - 1 :
          /\ hs[f.snh + k].code = f.code /\ hs[f.snh + k].to = c.tries[k].to
          /\ Known(c.tries[k], st, Mark(f, hs, k - 1), Mark(f, hs, k))
    BY <2>1, <1>1 DEF Tries
  <2>5. \A j, k \in 0 .. n - 1 : j <= k => Mark(f, hs, j) <= Mark(f, hs, k)
    BY <2>2, <1>1 DEF Tries
  <2>6. Tries(c, f, st, hs)
    BY <1>5, <2>3, <2>4, <2>5 DEF Tries
  <2> QED
    BY <1>5, <2>6 DEF Lowest, lo
<1>14. Tries(c, f, st, hs2) /\ Lowest(c, f, hs2) = lo
  <2>1. f.snh + Len(c.tries) <= Len(hs2) /\ Same(hs, hs2, f.snh + Len(c.tries))
    BY <1>5, <1>9
  <2>2. Same(st, st, Lowest(c, f, hs))
    BY DEF Same
  <2> QED
    BY <1>4, <1>13, <2>1, <2>2, TriesSame
<1>15. hs # <<>>
  <2>1. Len(hs) # 0
    BY <1>1, <1>5
  <2> QED
    BY <2>1, EmptySeq
<1>16. In(c, f, st, hs2, e, av)
  BY <1>1, <1>3, <1>5, <1>8, <1>9, <1>14 DEF In, hi
<1> QED
  BY <1>4, <1>8, <1>12, <1>15, <1>16 DEF c

-----------------------------------------------------------------------------
(* The frames *)

LEMMA CertifiedAt ==
  ASSUME NEW p \in DOMAIN Code, NEW l \in DOMAIN Plan[p]
  PROVE  /\ Plan[p][l] \in States /\ Outlined(Plan[p][l]) /\ Plan[p][l].whole \in BOOLEAN
         /\ l \in Nat /\ l \in DOMAIN Code[p]
         /\ WellFormed(Code[p][l]) /\ Ready(Plan[p][l], Code[p][l])
         /\ \A flow \in AllFlows(Code[p][l], l + Size(Code[p][l].op), Plan[p][l]) :
               flow[1] \in DOMAIN Plan[p] /\ Agrees(Plan[p][flow[1]], flow[2])
<1>1. Certifies(p)
  BY CertificateAssumption
<1>2. /\ Plan[p][l] \in States
      /\ l \in Nat /\ l \in DOMAIN Code[p]
      /\ WellFormed(Code[p][l]) /\ Ready(Plan[p][l], Code[p][l])
      /\ \A flow \in AllFlows(Code[p][l], l + Size(Code[p][l].op), Plan[p][l]) :
            flow[1] \in DOMAIN Plan[p] /\ Agrees(Plan[p][flow[1]], flow[2])
  BY <1>1 DEF Certifies
<1>3. Outlined(Plan[p][l]) /\ Plan[p][l].whole \in BOOLEAN
  BY <1>2 DEF States, Outlined
<1> QED
  BY <1>2, <1>3

LEMMA FrameIs ==
  ASSUME NEW U, NEW n \in Nat, NEW f \in FrameIn(U, n)
  PROVE  /\ f.func \in U /\ f.code \in DOMAIN Code /\ f.pc \in Nat /\ f.scope \in Seq(1 .. n)
         /\ f.scope # <<>> /\ f.ssl \in Nat /\ f.snh \in Nat /\ f.made \in U \cup {Null}
BY DEF FrameIn

(* What is below a suspended frame's callee is left alone. *)
LEMMA SuspendedSame ==
  ASSUME NEW U, NEW n \in Nat, NEW f \in FrameIn(U, n), NEW g \in FrameIn(U, n),
         NEW h, h.ssl = g.ssl, h.snh = g.snh,
         NEW hs \in Seq(Handlers), NEW hs2 \in Seq(Handlers), NEW st, NEW st2,
         Suspended(f, g, st, hs), Same(st, st2, g.ssl), Same(hs, hs2, g.snh), g.snh <= Len(hs2)
  PROVE  Suspended(f, h, st2, hs2)
<1>1. f.code \in DOMAIN Code /\ f.ssl \in Nat /\ f.snh \in Nat /\ g.ssl \in Nat
  BY FrameIs
<1>2. f.pc \in DOMAIN Plan[f.code] /\ Awaits(Planned(f), f, g, st, hs)
  BY DEF Suspended
<1>3. Outlined(Planned(f))
  BY <1>1, <1>2, CertifiedAt DEF Planned
<1>4. Awaits(Planned(f), f, h, st2, hs2)
  BY <1>1, <1>2, <1>3, AwaitsSame
<1> QED
  BY <1>2, <1>4 DEF Suspended

LEMMA NestedKept ==
  ASSUME NEW U, NEW n \in Nat, NEW fs \in Seq(FrameIn(U, n)), fs # <<>>,
         NEW hs \in Seq(Handlers), NEW hs2 \in Seq(Handlers), NEW st, NEW st2,
         Nested(fs, st, hs),
         NEW gs, Len(gs) = Len(fs), Same(fs, gs, Len(fs) - 1),
         gs[Len(fs)].ssl = fs[Len(fs)].ssl, gs[Len(fs)].snh = fs[Len(fs)].snh,
         Same(st, st2, fs[Len(fs)].ssl), Same(hs, hs2, fs[Len(fs)].snh),
         fs[Len(fs)].snh <= Len(hs2)
  PROVE  Nested(gs, st2, hs2)
<1> DEFINE d == Len(fs)
           top == fs[d]
<1>1. d \in Nat \ {0}
  BY EmptySeq
<1>2. \A i \in 1 .. d : fs[i] \in FrameIn(U, n)
  BY SeqIs
<1>3. Len(gs) = d /\ \A i \in 1 .. d - 1 : gs[i] = fs[i]
  BY DEF Same
<1>a. gs[d].ssl = top.ssl /\ gs[d].snh = top.snh
  OBVIOUS
<1>b. Same(st, st2, top.ssl) /\ Same(hs, hs2, top.snh) /\ top.snh <= Len(hs2)
  OBVIOUS
<1>c. Len(hs2) \in Nat
  BY LenProperties
<1>d. /\ \A i, j \in 1 .. d : i <= j => fs[i].ssl <= fs[j].ssl /\ fs[i].snh <= fs[j].snh
      /\ \A i \in 1 .. d - 1 : Suspended(fs[i], fs[i + 1], st, hs)
  BY DEF Nested
<1> HIDE DEF d
<1>4. \A i \in 1 .. d : gs[i].ssl = fs[i].ssl /\ gs[i].snh = fs[i].snh
  <2>1. \A i \in 1 .. d : i = d \/ i \in 1 .. d - 1
    BY <1>1
  <2> QED
    BY <2>1, <1>3, <1>a
<1>5. \A i, j \in 1 .. d : i <= j => gs[i].ssl <= gs[j].ssl /\ gs[i].snh <= gs[j].snh
  BY <1>4, <1>d
<1>6. ASSUME NEW i \in 1 .. d - 1
      PROVE  Suspended(gs[i], gs[i + 1], st2, hs2)
  <2>1. i \in 1 .. d /\ i + 1 \in 1 .. d /\ d \in 1 .. d /\ i + 1 <= d
    BY <1>1
  <2>2. gs[i] = fs[i] /\ gs[i + 1].ssl = fs[i + 1].ssl /\ gs[i + 1].snh = fs[i + 1].snh
    BY <1>3, <1>4, <2>1
  <2>3. Suspended(fs[i], fs[i + 1], st, hs)
    BY <1>d
  <2>4. fs[i] \in FrameIn(U, n) /\ fs[i + 1] \in FrameIn(U, n) /\ top \in FrameIn(U, n)
    BY <1>2, <2>1
  <2>5. fs[i + 1].ssl <= top.ssl /\ fs[i + 1].snh <= top.snh
    BY <1>d, <2>1
  <2>6. fs[i + 1].ssl \in Nat /\ fs[i + 1].snh \in Nat /\ top.ssl \in Nat /\ top.snh \in Nat
    BY <2>4, FrameIs
  <2> HIDE DEF top
  <2>7. Same(st, st2, fs[i + 1].ssl)
    BY <1>b, <2>5, <2>6, Shorter
  <2>8. Same(hs, hs2, fs[i + 1].snh)
    BY <1>b, <2>5, <2>6, Shorter
  <2>9. fs[i + 1].snh <= Len(hs2)
    BY <1>b, <1>c, <2>5, <2>6
  <2>10. fs[i] \in FrameIn(U, n)
    BY <2>4
  <2>11. fs[i + 1] \in FrameIn(U, n)
    BY <2>4
  <2>12. Suspended(fs[i], gs[i + 1], st2, hs2)
    BY <2>2, <2>3, <2>7, <2>8, <2>9, <2>10, <2>11, SuspendedSame
  <2> QED
    BY <2>2, <2>12
<1> QED
  BY <1>3, <1>5, <1>6 DEF Nested

LEMMA NestedPushed ==
  ASSUME NEW U, NEW n \in Nat, NEW fs \in Seq(FrameIn(U, n)), fs # <<>>,
         NEW hs, NEW st, Nested(fs, st, hs), NEW gs, Len(gs) = Len(fs) + 1, Same(fs, gs, Len(fs)),
         fs[Len(fs)].ssl <= gs[Len(fs) + 1].ssl, fs[Len(fs)].snh <= gs[Len(fs) + 1].snh,
         gs[Len(fs) + 1].ssl \in Nat, gs[Len(fs) + 1].snh \in Nat,
         Suspended(fs[Len(fs)], gs[Len(fs) + 1], st, hs)
  PROVE  Nested(gs, st, hs)
<1> DEFINE d == Len(fs)
           g == gs[d + 1]
<1>1. d \in Nat \ {0}
  BY EmptySeq
<1>2. \A i \in 1 .. d : fs[i].ssl \in Nat /\ fs[i].snh \in Nat
  BY SeqIs, FrameIs
<1>3. Len(gs) = d + 1 /\ \A i \in 1 .. d : gs[i] = fs[i]
  BY DEF Same
<1>4. /\ fs[d].ssl <= g.ssl /\ fs[d].snh <= g.snh /\ Suspended(fs[d], g, st, hs)
      /\ g.ssl \in Nat /\ g.snh \in Nat
  OBVIOUS
<1>5. /\ \A i, j \in 1 .. d : i <= j => fs[i].ssl <= fs[j].ssl /\ fs[i].snh <= fs[j].snh
      /\ \A i \in 1 .. d - 1 : Suspended(fs[i], fs[i + 1], st, hs)
  BY DEF Nested
<1> HIDE DEF d
<1>6. ASSUME NEW i \in 1 .. d + 1, NEW j \in 1 .. d + 1, i <= j
      PROVE  gs[i].ssl <= gs[j].ssl /\ gs[i].snh <= gs[j].snh
  <2>1. CASE j \in 1 .. d
    <3>1. i \in 1 .. d
      BY <1>1, <1>6, <2>1
    <3> QED
      BY <1>3, <1>5, <1>6, <2>1, <3>1
  <2>2. CASE j = d + 1 /\ i \in 1 .. d
    <3>1. d \in 1 .. d /\ i <= d
      BY <1>1, <2>2
    <3>2. fs[i].ssl <= fs[d].ssl /\ fs[i].snh <= fs[d].snh
      BY <1>5, <2>2, <3>1
    <3>3. fs[i].ssl \in Nat /\ fs[i].snh \in Nat /\ fs[d].ssl \in Nat /\ fs[d].snh \in Nat
      BY <1>2, <2>2, <3>1
    <3>4. gs[i] = fs[i] /\ gs[j] = g
      BY <1>3, <2>2
    <3>5. fs[i].ssl <= g.ssl /\ fs[i].snh <= g.snh
      <4> HIDE DEF g
      <4>1. fs[i].ssl <= g.ssl
        BY <1>4, <3>2, <3>3, SMTT(30)
      <4>2. fs[i].snh <= g.snh
        BY <1>4, <3>2, <3>3, SMTT(30)
      <4> QED
        BY <4>1, <4>2
    <3> QED
      BY <3>4, <3>5
  <2>3. CASE j = d + 1 /\ i = d + 1
    BY <1>4, <2>3
  <2>4. (j \in 1 .. d \/ j = d + 1) /\ (i \in 1 .. d \/ i = d + 1)
    BY <1>1
  <2> QED
    BY <2>1, <2>2, <2>3, <2>4
<1>7. ASSUME NEW i \in 1 .. (d + 1) - 1
      PROVE  Suspended(gs[i], gs[i + 1], st, hs)
  <2>1. CASE i = d
    BY <1>1, <1>3, <1>4, <2>1
  <2>2. CASE i # d
    <3>1. i \in 1 .. d - 1 /\ i \in 1 .. d /\ i + 1 \in 1 .. d
      BY <1>1, <2>2
    <3> QED
      BY <1>3, <1>5, <3>1
  <2> QED
    BY <2>1, <2>2
<1> QED
  BY <1>3, <1>6, <1>7 DEF Nested

LEMMA NestedPopped ==
  ASSUME NEW U, NEW n \in Nat, NEW fs \in Seq(FrameIn(U, n)), fs # <<>>,
         NEW hs, NEW st, Nested(fs, st, hs), NEW gs, Cut(fs, gs, Len(fs) - 1)
  PROVE  /\ Nested(gs, st, hs)
         /\ Len(fs) > 1 => /\ gs[Len(gs)] = fs[Len(fs) - 1]
                           /\ Suspended(gs[Len(gs)], fs[Len(fs)], st, hs)
                           /\ gs[Len(gs)].ssl <= fs[Len(fs)].ssl
                           /\ gs[Len(gs)].snh <= fs[Len(fs)].snh
<1> DEFINE d == Len(fs)
<1>1. d \in Nat \ {0}
  BY EmptySeq
<1>2. Len(gs) = d - 1 /\ \A i \in 1 .. d - 1 : gs[i] = fs[i]
  BY DEF Cut, Same
<1>3. /\ \A i, j \in 1 .. d : i <= j => fs[i].ssl <= fs[j].ssl /\ fs[i].snh <= fs[j].snh
      /\ \A i \in 1 .. d - 1 : Suspended(fs[i], fs[i + 1], st, hs)
  BY DEF Nested
<1> HIDE DEF d
<1>4. \A i \in 1 .. d - 1 : i \in 1 .. d
  BY <1>1
<1>5. \A i, j \in 1 .. d - 1 : i <= j => gs[i].ssl <= gs[j].ssl /\ gs[i].snh <= gs[j].snh
  BY <1>2, <1>3, <1>4
<1>6. ASSUME NEW i \in 1 .. (d - 1) - 1
      PROVE  Suspended(gs[i], gs[i + 1], st, hs)
  <2>1. i \in 1 .. d - 1 /\ i + 1 \in 1 .. d - 1
    BY <1>1
  <2> QED
    BY <1>2, <1>3, <2>1
<1>7. ASSUME d > 1
      PROVE  /\ gs[Len(gs)] = fs[d - 1]
             /\ Suspended(gs[Len(gs)], fs[d], st, hs)
             /\ gs[Len(gs)].ssl <= fs[d].ssl
             /\ gs[Len(gs)].snh <= fs[d].snh
  <2>1. d - 1 \in 1 .. d - 1 /\ d - 1 \in 1 .. d /\ d \in 1 .. d /\ d - 1 + 1 = d /\ d - 1 <= d
    BY <1>1, <1>7
  <2> QED
    BY <1>2, <1>3, <2>1
<1> QED
  BY <1>2, <1>5, <1>6, <1>7 DEF Nested, d

-----------------------------------------------------------------------------
(* One step of the innermost frame *)

Inner(fs) == fs[Len(fs)]
Current(fs) == Planned(Inner(fs))
Executed(fs) == Code[Inner(fs).code][Inner(fs).pc]
Behind(fs) == Inner(fs).pc + Size(Executed(fs).op)

(* The innermost frame goes on elsewhere. *)
Going(fs, l) == [fs EXCEPT ![Len(fs)].pc = l]

Working(U, fs, st, hs, e, av, es, fu) ==
    /\ Typed(U, fs, st, hs, e, es, fu)
    /\ fs # <<>> /\ Nested(fs, st, hs) /\ Executes(Inner(fs), st, hs, e, av)

Sound(fs, st, hs, e, av, es, fu, md) ==
    /\ \E U : Typed(U, fs, st, hs, e, es, fu)
    /\ Controlled(fs, st, hs, e, av, md)

LEMMA WorkingIs ==
  ASSUME NEW U, NEW fs, NEW st, NEW hs, NEW e, NEW av, NEW es, NEW fu,
         Working(U, fs, st, hs, e, av, es, fu)
  PROVE  /\ Len(fs) \in Nat \ {0} /\ Len(es) \in Nat /\ Len(hs) \in Nat /\ Len(st) \in Nat
         /\ Inner(fs) \in FrameIn(U, Len(es))
         /\ Inner(fs).code \in DOMAIN Code /\ Inner(fs).pc \in DOMAIN Plan[Inner(fs).code]
         /\ Inner(fs).pc \in Nat /\ Inner(fs).ssl \in Nat /\ Inner(fs).snh \in Nat
         /\ Current(fs) \in States /\ Outlined(Current(fs)) /\ Current(fs).whole \in BOOLEAN
         /\ Executed(fs).op \in Ops /\ WellFormed(Executed(fs)) /\ Ready(Current(fs), Executed(fs))
         /\ In(Current(fs), Inner(fs), st, hs, e, av)
         /\ fs \in Seq(FrameIn(U, Len(es))) /\ st \in Seq(U) /\ hs \in Seq(Handlers)
         /\ Nested(fs, st, hs) /\ Inner(fs).pc \in DOMAIN Code[Inner(fs).code]
<1>1. /\ fs \in Seq(FrameIn(U, Len(es))) /\ st \in Seq(U) /\ hs \in Seq(Handlers)
      /\ es \in Seq(EnvIn(U)) /\ fs # <<>> /\ Nested(fs, st, hs)
      /\ Inner(fs).pc \in DOMAIN Plan[Inner(fs).code]
      /\ In(Current(fs), Inner(fs), st, hs, e, av)
  BY DEF Working, Typed, Executes, Current
<1>2. Len(fs) \in Nat \ {0} /\ Len(es) \in Nat /\ Len(hs) \in Nat /\ Len(st) \in Nat
  BY <1>1, LenProperties, EmptySeq
<1>3. Inner(fs) \in FrameIn(U, Len(es))
  BY <1>1, <1>2, SeqIs DEF Inner
<1>4. /\ Inner(fs).code \in DOMAIN Code /\ Inner(fs).pc \in Nat
      /\ Inner(fs).ssl \in Nat /\ Inner(fs).snh \in Nat
  BY <1>2, <1>3, FrameIs
<1>5. /\ Current(fs) \in States /\ Outlined(Current(fs)) /\ Current(fs).whole \in BOOLEAN
      /\ WellFormed(Executed(fs)) /\ Ready(Current(fs), Executed(fs))
      /\ Inner(fs).pc \in DOMAIN Code[Inner(fs).code]
  BY <1>1, <1>4, CertifiedAt DEF Current, Planned, Executed
<1>6. Executed(fs).op \in Ops
  BY <1>5 DEF WellFormed
<1> QED
  BY <1>1, <1>2, <1>3, <1>4, <1>5, <1>6

LEMMA FlowIs ==
  ASSUME NEW U, NEW fs, NEW st, NEW hs, NEW e, NEW av, NEW es, NEW fu,
         Working(U, fs, st, hs, e, av, es, fu),
         NEW l, NEW s, <<l, s>> \in Flows(Executed(fs), Behind(fs), Current(fs))
  PROVE  /\ l \in DOMAIN Plan[Inner(fs).code] /\ Agrees(Plan[Inner(fs).code][l], s)
         /\ Plan[Inner(fs).code][l] \in States
         /\ Outlined(Plan[Inner(fs).code][l]) /\ Plan[Inner(fs).code][l].whole \in BOOLEAN
         /\ l \in Nat
<1> DEFINE p == Inner(fs).code
           at == Inner(fs).pc
           flow == <<l, s>>
<1>1. p \in DOMAIN Code /\ at \in DOMAIN Plan[p]
  BY WorkingIs
<1>2. flow \in AllFlows(Code[p][at], at + Size(Code[p][at].op), Plan[p][at])
  BY DEF AllFlows, Executed, Behind, Current, Planned
<1>3. flow[1] = l /\ flow[2] = s
  OBVIOUS
<1> HIDE DEF flow, p, at
<1>4. flow[1] \in DOMAIN Plan[p] /\ Agrees(Plan[p][flow[1]], flow[2])
  BY <1>1, <1>2, CertifiedAt
<1>5. l \in DOMAIN Plan[p] /\ Agrees(Plan[p][l], s)
  BY <1>3, <1>4
<1>6. /\ Plan[p][l] \in States /\ Outlined(Plan[p][l]) /\ Plan[p][l].whole \in BOOLEAN
      /\ l \in Nat
  BY <1>1, <1>5, CertifiedAt
<1> QED
  BY <1>5, <1>6 DEF p

LEMMA TypedNext ==
  ASSUME NEW U, NEW fs, NEW st, NEW hs, NEW e, NEW es, NEW fu, Typed(U, fs, st, hs, e, es, fu),
         NEW gs \in Seq(FrameIn(U, Len(es))), NEW st2 \in Seq(U), NEW hs2 \in Seq(Handlers),
         NEW e2 \in U \cup {Null}
  PROVE  Typed(U, gs, st2, hs2, e2, es, fu)
BY DEF Typed

(* The frame is somewhere else, its state is one its certificate names. *)
LEMMA ArrivedAt ==
  ASSUME NEW U, NEW n \in Nat, NEW fs \in Seq(FrameIn(U, n)), fs # <<>>, NEW st,
         NEW hs \in Seq(Handlers), Nested(fs, st, hs),
         NEW l, NEW s, l \in DOMAIN Plan[Inner(fs).code], Agrees(Plan[Inner(fs).code][l], s),
         Outlined(s), s.whole \in BOOLEAN,
         NEW st2 \in Seq(U), NEW hs2 \in Seq(Handlers), NEW e2, NEW av2,
         In(s, Inner(fs), st2, hs2, e2, av2),
         Same(st, st2, Inner(fs).ssl), Same(hs, hs2, Inner(fs).snh), Inner(fs).snh <= Len(hs2),
         NEW gs, gs = Going(fs, l)
  PROVE  gs \in Seq(FrameIn(U, n)) /\ Controlled(gs, st2, hs2, e2, av2, "exec")
<1> DEFINE f == Inner(fs)
           g == [f EXCEPT !.pc = l]
           t == Plan[f.code][l]
           d == Len(fs)
<1>1. /\ f \in FrameIn(U, n) /\ fs \in Seq(FrameIn(U, n)) /\ n \in Nat
      /\ hs \in Seq(Handlers) /\ d \in Nat \ {0} /\ Nested(fs, st, hs)
      /\ f.code \in DOMAIN Code /\ f.ssl \in Nat /\ f.snh \in Nat
  <2>1. d \in Nat \ {0}
    BY LenProperties, EmptySeq
  <2>2. f \in FrameIn(U, n)
    BY <2>1, SeqIs DEF Inner
  <2> QED
    BY <2>1, <2>2, FrameIs
<1>2. /\ l \in DOMAIN Plan[f.code] /\ Agrees(t, s) /\ Outlined(t) /\ t.whole \in BOOLEAN /\ l \in Nat
  BY <1>1, CertifiedAt
<1>3. g \in FrameIn(U, n) /\ g.code = f.code /\ g.ssl = f.ssl /\ g.snh = f.snh /\ g.pc = l
  BY <1>1, <1>2 DEF FrameIn
<1>4. gs = [fs EXCEPT ![d] = g]
  BY DEF Inner, Going
<1>5. fs # <<>>
  BY <1>1, EmptySeq
<1> HIDE DEF g
<1>6. /\ gs \in Seq(FrameIn(U, n)) /\ Len(gs) = d /\ gs[d] = g
      /\ \A i \in 1 .. d - 1 : gs[i] = fs[i]
  <2>1. fs \in Seq(FrameIn(U, n))
    BY <1>1
  <2>2. g \in FrameIn(U, n)
    BY <1>3
  <2>3. gs = [fs EXCEPT ![Len(fs)] = g]
    BY <1>4
  <2>4. /\ [fs EXCEPT ![Len(fs)] = g] \in Seq(FrameIn(U, n))
        /\ Len([fs EXCEPT ![Len(fs)] = g]) = Len(fs)
        /\ [fs EXCEPT ![Len(fs)] = g][Len(fs)] = g
        /\ \A i \in 1 .. Len(fs) - 1 : [fs EXCEPT ![Len(fs)] = g][i] = fs[i]
    BY <1>5, <2>1, <2>2, LastReplaced
  <2> QED
    BY <2>3, <2>4
<1>7. Nested(gs, st2, hs2)
  <2>1. Same(fs, gs, Len(fs) - 1)
    BY <1>6 DEF Same
  <2>2. gs[Len(fs)].ssl = fs[Len(fs)].ssl /\ gs[Len(fs)].snh = fs[Len(fs)].snh
    BY <1>3, <1>6 DEF Inner
  <2>3. /\ Same(st, st2, fs[Len(fs)].ssl) /\ Same(hs, hs2, fs[Len(fs)].snh)
        /\ fs[Len(fs)].snh <= Len(hs2)
    BY DEF Inner
  <2>4. fs \in Seq(FrameIn(U, n)) /\ Len(gs) = Len(fs) /\ Nested(fs, st, hs)
    BY <1>1, <1>6
  <2>5. hs \in Seq(Handlers) /\ n \in Nat
    BY <1>1
  <2> QED
    BY <1>5, <2>1, <2>2, <2>3, <2>4, <2>5, NestedKept
<1>8. In(t, f, st2, hs2, e2, av2)
  <2> HIDE DEF t, f
  <2>1. f.ssl \in Nat /\ f.snh \in Nat
    BY <1>1
  <2>2. Outlined(t) /\ t.whole \in BOOLEAN /\ Agrees(t, s)
    BY <1>2
  <2>3. In(s, f, st2, hs2, e2, av2)
    BY DEF f
  <2> QED
    BY <2>1, <2>2, <2>3, InLess
<1>9. In(t, g, st2, hs2, e2, av2)
  BY <1>3, <1>8, ZenonT(60) DEF In, Tries, Lowest, Mark
<1>10. Executes(gs[Len(gs)], st2, hs2, e2, av2)
  BY <1>2, <1>3, <1>6, <1>9 DEF Executes, Planned
<1>11. gs # <<>>
  BY <1>1, <1>6, EmptySeq
<1> QED
  BY <1>6, <1>7, <1>10, <1>11 DEF Controlled

LEMMA Arrived ==
  ASSUME NEW U, NEW fs, NEW st, NEW hs, NEW e, NEW av, NEW es, NEW fu,
         Working(U, fs, st, hs, e, av, es, fu),
         NEW l, NEW s, <<l, s>> \in Flows(Executed(fs), Behind(fs), Current(fs)),
         Outlined(s), s.whole \in BOOLEAN,
         NEW st2 \in Seq(U), NEW hs2 \in Seq(Handlers), NEW e2, NEW av2,
         In(s, Inner(fs), st2, hs2, e2, av2),
         Same(st, st2, Inner(fs).ssl), Same(hs, hs2, Inner(fs).snh), Inner(fs).snh <= Len(hs2),
         NEW gs, gs = Going(fs, l)
  PROVE  gs \in Seq(FrameIn(U, Len(es))) /\ Controlled(gs, st2, hs2, e2, av2, "exec")
<1>1. /\ fs \in Seq(FrameIn(U, Len(es))) /\ Len(es) \in Nat /\ hs \in Seq(Handlers)
      /\ Nested(fs, st, hs) /\ Len(fs) # 0
  BY WorkingIs
<1>2. fs # <<>>
  BY <1>1, EmptySeq
<1>3. l \in DOMAIN Plan[Inner(fs).code] /\ Agrees(Plan[Inner(fs).code][l], s)
  BY FlowIs
<1>4. PICK n \in Nat : n = Len(es)
  BY <1>1
<1>5. fs \in Seq(FrameIn(U, n))
  BY <1>1, <1>4
<1>6. gs \in Seq(FrameIn(U, n)) /\ Controlled(gs, st2, hs2, e2, av2, "exec")
  BY <1>1, <1>2, <1>3, <1>5, ArrivedAt
<1> QED
  BY <1>4, <1>6

(* It exchanges operands for results. *)
LEMMA Flowed ==
  ASSUME NEW U, NEW fs, NEW st, NEW hs, NEW e, NEW av, NEW es, NEW fu,
         Working(U, fs, st, hs, e, av, es, fu),
         NEW k \in 0 .. Len(Current(fs).stack), NEW puts \in Seq(Shapes), NEW vals \in Seq(U),
         Matches(puts, vals), NEW st2 \in Seq(U), Swapped(st, st2, k, vals),
         NEW l, NEW s, <<l, s>> \in Flows(Executed(fs), Behind(fs), Current(fs)),
         s.stack = Cropped(Current(fs).stack, k) \o puts,
         s.whole = Current(fs).whole, s.tries = Current(fs).tries,
         NEW e2, Excepts(s.exc, e2), NEW av2, s.star = <<>> \/ s.star = <<av2>>,
         NEW gs, gs = Going(fs, l)
  PROVE  gs \in Seq(FrameIn(U, Len(es))) /\ Controlled(gs, st2, hs, e2, av2, "exec")
<1> DEFINE f == Inner(fs)
           c == Current(fs)
<1>1. /\ f.ssl \in Nat /\ f.snh \in Nat /\ Outlined(c) /\ c.whole \in BOOLEAN
      /\ In(c, f, st, hs, e, av) /\ st \in Seq(U) /\ hs \in Seq(Handlers) /\ Len(hs) \in Nat
  BY WorkingIs
<1>2. c.stack \in Seq(Shapes)
  BY <1>1 DEF Outlined
<1>3. s.stack \in Seq(Shapes) /\ Swapped(c.stack, s.stack, k, puts)
  BY <1>2, Exchanged
<1>4. Outlined(s) /\ s.whole \in BOOLEAN
  BY <1>1, <1>3 DEF Outlined
<1>5. In(s, f, st2, hs, e2, av2) /\ Same(st, st2, f.ssl)
  <2> HIDE DEF c, f
  <2>1. /\ Outlined(c) /\ c.whole \in BOOLEAN /\ s.whole = c.whole /\ s.tries = c.tries
        /\ k \in 0 .. Len(c.stack)
    BY <1>1 DEF c
  <2>2. st \in Seq(U) /\ f.ssl \in Nat /\ f.snh \in Nat /\ hs \in Seq(Handlers)
    BY <1>1
  <2>3. In(c, f, st, hs, e, av)
    BY <1>1
  <2>4. Swapped(c.stack, s.stack, k, puts)
    BY <1>3
  <2>5. Outlined(s)
    BY <1>4
  <2> QED
    BY <2>1, <2>2, <2>3, <2>4, <2>5, InExchanged
<1>6. Same(hs, hs, f.snh) /\ f.snh <= Len(hs)
  <2>1. Len(hs) = f.snh + Len(c.tries) /\ Len(c.tries) \in Nat
    BY <1>1, OutlinedIs DEF In
  <2> QED
    BY <1>1, <2>1 DEF Same
<1> QED
  BY <1>1, <1>4, <1>5, <1>6, Arrived

(* What most instructions do *)
Plainly == Ops \ {"RET", "THROW", "JMP", "JMPT", "JMPF", "FOR_NEXTT", "FOR_NEXTF", "TRY_START",
                  "TRY_END", "TRY_CATCH", "TRY_CATCH_ALL"}

LEMMA PlainFlow ==
  ASSUME NEW i, i.op \in Plainly, NEW on, NEW s
  PROVE  Flows(i, on, s) = {<<on, Moved(s, i)>>}
BY DEF Plainly, Ops, Flows

LEMMA MovedIs ==
  ASSUME NEW s \in States, NEW i
  PROVE  /\ Moved(s, i).stack = Cropped(s.stack, Takes(i)) \o Puts(s, i)
         /\ Moved(s, i).whole = s.whole /\ Moved(s, i).tries = s.tries
         /\ Moved(s, i).exc = Pending(s, i)
         /\ Moved(s, i).star = IF i.op = "ASSV" THEN <<i.arg>> ELSE <<>>
BY DEF Moved, Holding, Below, Cropped, States

LEMMA Proceeded ==
  ASSUME NEW U, NEW fs, NEW st, NEW hs, NEW e, NEW av, NEW es, NEW fu,
         Working(U, fs, st, hs, e, av, es, fu),
         NEW i, i = Executed(fs), i.op \in Plainly, NEW c, c = Current(fs),
         NEW k, k = Takes(i), k \in 0 .. Len(c.stack), NEW puts, puts = Puts(c, i),
         puts \in Seq(Shapes), NEW vals \in Seq(U), Matches(puts, vals),
         NEW st2 \in Seq(U), Swapped(st, st2, k, vals), NEW e2, Excepts(Pending(c, i), e2),
         NEW av2, i.op = "ASSV" => av2 = i.arg, NEW gs, gs = Going(fs, Behind(fs))
  PROVE  gs \in Seq(FrameIn(U, Len(es))) /\ Controlled(gs, st2, hs, e2, av2, "exec")
<1>1. c \in States
  BY WorkingIs
<1>2. PICK s : s = Moved(c, i)
  OBVIOUS
<1>3. /\ s.stack = Cropped(c.stack, k) \o puts
      /\ s.whole = c.whole /\ s.tries = c.tries /\ s.exc = Pending(c, i)
      /\ s.star = IF i.op = "ASSV" THEN <<i.arg>> ELSE <<>>
  BY <1>1, <1>2, MovedIs
<1>4. PICK l : l = Behind(fs)
  OBVIOUS
<1>5. <<l, s>> \in Flows(Executed(fs), Behind(fs), Current(fs))
  BY <1>2, <1>4, PlainFlow
<1>6. s.star = <<>> \/ s.star = <<av2>>
  BY <1>3
<1>7. k \in 0 .. Len(Current(fs).stack)
  OBVIOUS
<1>8. s.stack = Cropped(Current(fs).stack, k) \o puts
  BY <1>3
<1>9. s.whole = Current(fs).whole /\ s.tries = Current(fs).tries
  BY <1>3
<1>10. gs = Going(fs, l) /\ Excepts(s.exc, e2)
  BY <1>3, <1>4
<1> QED
  BY <1>5, <1>6, <1>7, <1>8, <1>9, <1>10, Flowed

(* The forms the stack takes *)
LEMMA UnderIs ==
  ASSUME NEW U, NEW st \in Seq(U), NEW k \in 0 .. Len(st), NEW x \in Seq(U)
  PROVE  /\ Cropped(st, k) \o x \in Seq(U)
         /\ Swapped(st, Cropped(st, k) \o x, k, x)
BY Exchanged

LEMMA EmptyIs ==
  ASSUME NEW U, NEW st \in Seq(U)
  PROVE  /\ <<>> \in Seq(U) /\ st \o <<>> = st /\ Cropped(st, 0) = st
         /\ \A v : Append(st, v) = st \o <<v>>
<1>1. Len(st) \in Nat
  BY LenProperties
<1>2. Len(st) - 0 = Len(st)
  BY <1>1
<1>3. <<>> \in Seq(U)
  BY EmptySeq
<1>4. st \o <<>> = st
  BY ConcatEmptySeq
<1>5. SubSeq(st, 1, Len(st)) = st
  BY SubSeqFull
<1>6. ASSUME NEW v
      PROVE  Append(st, v) = st \o <<v>>
  OBVIOUS
<1> QED
  BY <1>2, <1>3, <1>4, <1>5, <1>6 DEF Cropped

LEMMA PopIs ==
  ASSUME NEW U, NEW st \in Seq(U), NEW k \in 0 .. Len(st)
  PROVE  Cropped(st, k) \in Seq(U) /\ Swapped(st, Cropped(st, k), k, <<>>)
<1>1. Len(st) \in Nat /\ Len(st) - k \in Int /\ 0 <= Len(st) - k /\ Len(st) - k <= Len(st)
  BY LenProperties
<1>2. Cropped(st, k) \in Seq(U)
  BY <1>1, FrontSub DEF Cropped
<1>3. <<>> \in Seq(U)
  BY EmptySeq
<1>4. Swapped(st, Cropped(st, k) \o <<>>, k, <<>>)
  BY <1>3, UnderIs
<1>5. Cropped(st, k) \o <<>> = Cropped(st, k)
  BY <1>2, ConcatEmptySeq
<1> QED
  BY <1>2, <1>4, <1>5

LEMMA PushIs ==
  ASSUME NEW U, NEW st \in Seq(U), NEW k \in 0 .. Len(st), NEW v \in U
  PROVE  /\ Append(Cropped(st, k), v) \in Seq(U)
         /\ Swapped(st, Append(Cropped(st, k), v), k, <<v>>)
         /\ <<v>> \in Seq(U)
<1>1. Cropped(st, k) \in Seq(U)
  BY PopIs
<1>2. Append(Cropped(st, k), v) = Cropped(st, k) \o <<v>>
  BY <1>1, EmptyIs
<1>3. <<v>> \in Seq(U)
  OBVIOUS
<1> QED
  BY <1>2, <1>3, UnderIs

(* The kinds of values of whose parts something is known *)
Parted == {"none", "str", "list", "tuple", "set", "dict", "code", "func"}

(* A value whose parts are known *)
Fit(U, fu, v) ==
    /\ Kind(v) \in Kinds
    /\ Iterable(v) => Elements(v) \in Seq(U)
    /\ Kind(v) = "code" => v[2] \in DOMAIN Code
    /\ Kind(v) = "func" => v[2] \in 1 .. Len(fu)

LEMMA MoreFrames ==
  ASSUME NEW U, NEW V, U \subseteq V, NEW n \in Nat, NEW m \in Nat, n <= m
  PROVE  /\ FrameIn(U, n) \subseteq FrameIn(V, m) /\ FuncIn(U, n) \subseteq FuncIn(V, m)
         /\ EnvIn(U) \subseteq EnvIn(V)
<1>1. 1 .. n \subseteq 1 .. m
  OBVIOUS
<1>2. Seq(1 .. n) \subseteq Seq(1 .. m) /\ Seq(U) \subseteq Seq(V)
  BY <1>1, SeqMonotonic
<1>3. FrameIn(U, n) \subseteq FrameIn(V, m)
  BY <1>2 DEF FrameIn
<1>4. FuncIn(U, n) \subseteq FuncIn(V, m)
  BY <1>2 DEF FuncIn
<1>5. EnvIn(U) \subseteq EnvIn(V)
  BY DEF EnvIn
<1> QED
  BY <1>3, <1>4, <1>5

LEMMA Grown ==
  ASSUME NEW U, NEW fs, NEW st, NEW hs, NEW e, NEW es, NEW fu,
         Typed(U, fs, st, hs, e, es, fu), NEW v, Fit(U, fu, v)
  PROVE  Typed(U \cup {v}, fs, st, hs, e, es, fu)
<1> DEFINE V == U \cup {v}
<1>1. Len(es) \in Nat /\ U \subseteq V
  BY LenProperties DEF Typed
<1>2. Seq(U) \subseteq Seq(V)
  BY <1>1, SeqMonotonic
<1>3. /\ FrameIn(U, Len(es)) \subseteq FrameIn(V, Len(es)) /\ EnvIn(U) \subseteq EnvIn(V)
      /\ FuncIn(U, Len(es)) \subseteq FuncIn(V, Len(es))
  <2> HIDE DEF V
  <2>1. Len(es) <= Len(es)
    BY <1>1
  <2> QED
    BY <1>1, <2>1, MoreFrames
<1>4. Closed(V, 1 .. Len(fu))
  BY <1>2 DEF Closed, Typed, Fit
<1> HIDE DEF V
<1>5. fs \in Seq(FrameIn(V, Len(es)))
  BY <1>3, SeqMonotonic DEF Typed
<1>6. es \in Seq(EnvIn(V))
  BY <1>3, SeqMonotonic DEF Typed
<1>7. fu \in Seq(FuncIn(V, Len(es)))
  BY <1>3, SeqMonotonic DEF Typed
<1> QED
  BY <1>1, <1>2, <1>4, <1>5, <1>6, <1>7 DEF Typed, V

LEMMA FitIs ==
  ASSUME NEW U, NEW fs, NEW st, NEW hs, NEW e, NEW es, NEW fu,
         Typed(U, fs, st, hs, e, es, fu), NEW v \in U
  PROVE  Fit(U, fu, v)
BY DEF Typed, Closed, Fit

LEMMA WorkingGrown ==
  ASSUME NEW U, NEW fs, NEW st, NEW hs, NEW e, NEW av, NEW es, NEW fu,
         Working(U, fs, st, hs, e, av, es, fu), NEW v, Fit(U, fu, v)
  PROVE  Working(U \cup {v}, fs, st, hs, e, av, es, fu)
BY Grown DEF Working

(* What the state says of the operands *)
LEMMA OperandIs ==
  ASSUME NEW U, NEW fs, NEW st, NEW hs, NEW e, NEW av, NEW es, NEW fu,
         Working(U, fs, st, hs, e, av, es, fu)
  PROVE  /\ Len(Current(fs).stack) \in 0 .. Len(st) /\ Len(st) \in Nat
         /\ Len(Current(fs).stack) \in Nat
         /\ \A n \in 0 .. Len(Current(fs).stack) - 1 :
               /\ IsA(Peek(Current(fs), n), st[Len(st) - n]) /\ Len(st) - n \in 1 .. Len(st)
               /\ st[Len(st) - n] \in U /\ Peek(Current(fs), n) \in Shapes
<1> DEFINE c == Current(fs)
           f == Inner(fs)
           lo == Lowest(c, f, hs)
           m == Len(c.stack)
           h == Len(st)
<1>1. /\ In(c, f, st, hs, e, av) /\ st \in Seq(U) /\ hs \in Seq(Handlers) /\ Outlined(c)
      /\ f.ssl \in Nat /\ f.snh \in Nat
  BY WorkingIs
<1>2. Tries(c, f, st, hs) /\ Known(c, st, lo, h)
  BY <1>1 DEF In
<1>3. lo \in Nat /\ m \in Nat /\ h \in Nat
  BY <1>1, <1>2, LowestIs, OutlinedIs, LenProperties
<1>4. lo + m <= h /\ \A j \in 1 .. m : IsA(c.stack[j], st[h - m + j])
  BY <1>2 DEF Known
<1> HIDE DEF m, h, lo
<1>5. m \in 0 .. h
  BY <1>3, <1>4
<1>6. ASSUME NEW n \in 0 .. m - 1
      PROVE  /\ IsA(Peek(c, n), st[h - n]) /\ h - n \in 1 .. h /\ st[h - n] \in U
             /\ Peek(c, n) \in Shapes
  <2>1. m - n \in 1 .. m /\ h - m + (m - n) = h - n /\ h - n \in 1 .. h
    BY <1>3, <1>5
  <2>2. Peek(c, n) = c.stack[m - n]
    BY DEF Peek, m
  <2>3. IsA(c.stack[m - n], st[h - m + (m - n)])
    BY <1>4, <2>1
  <2>4. st[h - n] \in U
    BY <1>1, <2>1, SeqIs DEF h
  <2>5. c.stack[m - n] \in Shapes
    BY <1>1, <2>1, SeqIs DEF Outlined, m
  <2> QED
    BY <2>1, <2>2, <2>3, <2>4, <2>5
<1> QED
  BY <1>3, <1>5, <1>6 DEF m, h

LEMMA Raised ==
  ASSUME NEW U, NEW fs, NEW st, NEW hs, NEW e, NEW av, NEW es, NEW fu,
         Working(U, fs, st, hs, e, av, es, fu),
         NEW k \in 0 .. Len(Current(fs).stack), NEW vals, Len(vals) \in Nat,
         NEW st2 \in Seq(U), Swapped(st, st2, k, vals),
         NEW e2, Fit(U, fu, e2), e2 # Null, NEW av2
  PROVE  Sound(fs, st2, hs, e2, av2, es, fu, "thrown")
<1> DEFINE c == Current(fs)
           f == Inner(fs)
           V == U \cup {e2}
<1>1. Working(V, fs, st, hs, e, av, es, fu)
  BY WorkingGrown
<1> HIDE DEF V
<1>2. /\ In(c, f, st, hs, e, av) /\ st \in Seq(V) /\ hs \in Seq(Handlers) /\ Outlined(c)
      /\ f.ssl \in Nat /\ f.snh \in Nat /\ fs \in Seq(FrameIn(V, Len(es))) /\ Len(es) \in Nat
      /\ f.pc \in DOMAIN Plan[f.code] /\ Nested(fs, st, hs) /\ Len(fs) \in Nat \ {0}
      /\ Len(hs) \in Nat
  BY <1>1, WorkingIs
<1>4. st2 \in Seq(V)
  BY SeqMonotonic DEF V
<1>5. Out(c, f, st2, hs, e2) /\ Same(st, st2, f.ssl)
  <2>1. PICK s, g : s = c /\ g = f
    OBVIOUS
  <2>2. Outlined(s) /\ g.ssl \in Nat /\ g.snh \in Nat
    BY <1>2, <2>1
  <2>3. In(s, g, st, hs, e, av)
    BY <1>2, <2>1
  <2>4. st \in Seq(V) /\ hs \in Seq(Handlers)
    BY <1>2
  <2>5. k \in 0 .. Len(s.stack)
    BY <2>1
  <2>6. Swapped(st, st2, k, vals)
    OBVIOUS
  <2>7. Failed(s, g, st, st2, hs, e2)
    BY <2>2, <2>3, <2>4, <2>5, <2>6, Thrown
  <2> QED
    BY <2>1, <2>7 DEF Failed
<1>6. Falls(fs[Len(fs)], st2, hs, e2) /\ fs # <<>>
  BY <1>2, <1>5, EmptySeq DEF Falls, Current, Inner
<1>7. Nested(fs, st2, hs)
  <2>1. /\ Same(fs, fs, Len(fs) - 1) /\ Same(hs, hs, fs[Len(fs)].snh)
        /\ Same(st, st2, fs[Len(fs)].ssl)
    BY <1>5 DEF Same, Inner
  <2>2. fs[Len(fs)].snh <= Len(hs)
    <3>1. Len(hs) = f.snh + Len(c.tries) /\ Len(c.tries) \in Nat
      BY <1>2, OutlinedIs DEF In
    <3> QED
      BY <1>2, <3>1 DEF Inner
  <2>3. fs \in Seq(FrameIn(V, Len(es))) /\ Len(es) \in Nat /\ hs \in Seq(Handlers)
    BY <1>2
  <2>4. Nested(fs, st, hs)
    BY <1>2
  <2> QED
    BY <1>6, <2>1, <2>2, <2>3, <2>4, NestedKept
<1>8. Typed(V, fs, st2, hs, e2, es, fu)
  <2>1. e2 \in V \cup {Null}
    BY DEF V
  <2>2. Typed(V, fs, st, hs, e, es, fu)
    BY <1>1 DEF Working
  <2>3. fs \in Seq(FrameIn(V, Len(es))) /\ st2 \in Seq(V) /\ hs \in Seq(Handlers)
    BY <1>2, <1>4
  <2> QED
    BY <2>1, <2>2, <2>3 DEF Typed
<1> QED
  BY <1>6, <1>7, <1>8 DEF Sound, Controlled

LEMMA Pushed ==
  ASSUME NEW U, NEW fs, NEW st, NEW hs, NEW e, NEW av, NEW es, NEW fu,
         Working(U, fs, st, hs, e, av, es, fu),
         NEW i, i = Executed(fs), i.op \in Plainly, i.op # "ASSV", NEW c, c = Current(fs),
         NEW k, k = Takes(i), k \in 0 .. Len(c.stack),
         NEW kind \in Shapes, Puts(c, i) = <<kind>>, NEW v, Fit(U, fu, v), IsA(kind, v),
         NEW st2, st2 = Append(Cropped(st, k), v),
         NEW e2 \in U \cup {Null}, Excepts(Pending(c, i), e2), NEW gs, gs = Going(fs, Behind(fs))
  PROVE  Sound(gs, st2, hs, e2, av, es, fu, "exec")
<1> DEFINE V == U \cup {v}
<1>1. Working(V, fs, st, hs, e, av, es, fu)
  BY WorkingGrown
<1>2. v \in V /\ e2 \in V \cup {Null}
  OBVIOUS
<1> HIDE DEF V
<1>3. st \in Seq(V) /\ hs \in Seq(Handlers) /\ k \in 0 .. Len(st)
  BY <1>1, WorkingIs, OperandIs
<1>4. st2 \in Seq(V) /\ Swapped(st, st2, k, <<v>>) /\ <<v>> \in Seq(V)
  BY <1>2, <1>3, PushIs
<1>5. PICK puts : puts = Puts(c, i)
  OBVIOUS
<1>6. puts \in Seq(Shapes) /\ Matches(puts, <<v>>)
  <2>1. puts = <<kind>>
    BY <1>5
  <2> QED
    BY <2>1, MatchesOne
<1>7. gs \in Seq(FrameIn(V, Len(es))) /\ Controlled(gs, st2, hs, e2, av, "exec")
  BY <1>1, <1>4, <1>5, <1>6, Proceeded
<1>8. Typed(V, gs, st2, hs, e2, es, fu)
  BY <1>1, <1>2, <1>3, <1>4, <1>7 DEF Working, Typed
<1> QED
  BY <1>7, <1>8 DEF Sound

LEMMA LeftAs ==
  ASSUME NEW U, NEW fs, NEW st, NEW hs, NEW e, NEW av, NEW es, NEW fu,
         Working(U, fs, st, hs, e, av, es, fu),
         NEW i, i = Executed(fs), i.op \in Plainly, NEW c, c = Current(fs),
         NEW k, k = Takes(i), k \in 0 .. Len(c.stack), Puts(c, i) = <<>>,
         NEW st2, st2 = Cropped(st, k),
         NEW e2, Excepts(Pending(c, i), e2), NEW av2, i.op = "ASSV" => av2 = i.arg,
         NEW gs, gs = Going(fs, Behind(fs))
  PROVE  /\ gs \in Seq(FrameIn(U, Len(es))) /\ Controlled(gs, st2, hs, e2, av2, "exec")
         /\ st2 \in Seq(U)
<1>3. st \in Seq(U) /\ hs \in Seq(Handlers) /\ k \in 0 .. Len(st)
  BY WorkingIs, OperandIs
<1>4. st2 \in Seq(U) /\ Swapped(st, st2, k, <<>>)
  BY <1>3, PopIs
<1>5. PICK puts : puts = Puts(c, i)
  OBVIOUS
<1>6. PICK vals : vals = <<>>
  OBVIOUS
<1>7. puts \in Seq(Shapes) /\ Matches(puts, vals) /\ vals \in Seq(U) /\ Swapped(st, st2, k, vals)
  <2>1. puts = <<>>
    BY <1>5
  <2>2. puts \in Seq(Shapes) /\ vals \in Seq(U)
    BY <1>6, <2>1, EmptySeq
  <2> QED
    BY <1>4, <1>6, <2>1, <2>2, MatchesNone
<1>8. gs \in Seq(FrameIn(U, Len(es))) /\ Controlled(gs, st2, hs, e2, av2, "exec")
  BY <1>4, <1>5, <1>7, Proceeded
<1> QED
  BY <1>4, <1>8

(* The variables *)
LEMMA AtWork ==
  ASSUME NEW U, Typed(U, frames, stk, handlers, exc, envs, funcs),
         Controlled(frames, stk, handlers, exc, assv, mode), mode = "exec"
  PROVE  /\ Working(U, frames, stk, handlers, exc, assv, envs, funcs)
         /\ Depth = Len(frames) /\ Frame = Inner(frames) /\ Instr = Executed(frames)
         /\ Op = Executed(frames).op /\ Arg = Executed(frames).arg
         /\ Operands = Reads(Executed(frames))
         /\ \A by : Advanced(by) = [frames EXCEPT ![Len(frames)].pc = @ + Size(Executed(frames).op) + by]
<1>1. /\ Nested(frames, stk, handlers) /\ frames # <<>>
      /\ Executes(frames[Len(frames)], stk, handlers, exc, assv)
  BY DEF Controlled
<1>2. Working(U, frames, stk, handlers, exc, assv, envs, funcs)
  BY <1>1 DEF Working, Inner
<1>3. Inner(frames).pc \in DOMAIN Code[Inner(frames).code]
  BY <1>2, WorkingIs
<1>4. /\ Depth = Len(frames) /\ Frame = Inner(frames)
  BY DEF Depth, Frame, Inner
<1>5. Instr = Executed(frames)
  BY <1>3, <1>4 DEF Instr, InCode, Executed
<1> QED
  BY <1>2, <1>4, <1>5 DEF Op, Arg, Operands, Advanced

LEMMA GoingIs ==
  ASSUME NEW U, NEW fs, NEW st, NEW hs, NEW e, NEW av, NEW es, NEW fu,
         Working(U, fs, st, hs, e, av, es, fu)
  PROVE  /\ [fs EXCEPT ![Len(fs)].pc = @ + Size(Executed(fs).op) + 0] = Going(fs, Behind(fs))
         /\ \A by :
               [fs EXCEPT ![Len(fs)].pc = @ + Size(Executed(fs).op) + by] = Going(fs, Behind(fs) + by)
<1>1. Inner(fs).pc \in Nat
  BY WorkingIs
<1>2. Size(Executed(fs).op) \in Int
  BY DEF Size
<1>3. ASSUME NEW by
      PROVE  [fs EXCEPT ![Len(fs)].pc = @ + Size(Executed(fs).op) + by] = Going(fs, Behind(fs) + by)
  BY DEF Going, Behind, Inner
<1>4. [fs EXCEPT ![Len(fs)].pc = @ + Size(Executed(fs).op) + 0] = Going(fs, Behind(fs) + 0)
  BY DEF Going, Behind, Inner
<1>5. Behind(fs) + 0 = Behind(fs)
  BY <1>1, <1>2 DEF Behind
<1> QED
  BY <1>3, <1>4, <1>5

Now(U) ==
    /\ Typed(U, frames, stk, handlers, exc, envs, funcs)
    /\ Controlled(frames, stk, handlers, exc, assv, mode)

Then == Sound(frames', stk', handlers', exc', assv', envs', funcs', mode')

LEMMA Begun ==
  ASSUME NEW U, Now(U), NEW ops, At(ops), NEW i, i = Executed(frames), NEW c, c = Current(frames)
  PROVE  /\ Working(U, frames, stk, handlers, exc, assv, envs, funcs)
         /\ i.op \in ops /\ Op = i.op /\ Arg = i.arg /\ mode = "exec"
         /\ Frame = Inner(frames) /\ Depth = Len(frames)
         /\ WellFormed(i) /\ Ready(c, i) /\ Reads(i) \in 0 .. Len(c.stack)
         /\ c \in States /\ Len(c.stack) \in Nat /\ Len(c.stack) \in 0 .. Len(stk)
<1>1. mode = "exec"
  BY DEF At
<1>2. /\ Working(U, frames, stk, handlers, exc, assv, envs, funcs)
      /\ Op = i.op /\ Arg = i.arg /\ Frame = Inner(frames) /\ Depth = Len(frames)
  BY <1>1, AtWork DEF Now
<1>3. i.op \in ops
  BY <1>2 DEF At
<1>4. WellFormed(i) /\ Ready(c, i) /\ c \in States
  BY <1>2, WorkingIs
<1>5. Reads(i) \in 0 .. Len(c.stack)
  BY <1>4 DEF Ready
<1>6. Len(c.stack) \in Nat /\ Len(c.stack) \in 0 .. Len(stk)
  BY <1>2, OperandIs
<1> QED
  BY <1>1, <1>2, <1>3, <1>4, <1>5, <1>6

LEMMA WentOn ==
  ASSUME NEW U, Now(U), mode = "exec", NEW by, NEW s, Goes(by, s)
  PROVE  /\ frames' = Going(frames, Behind(frames) + by)
         /\ by = 0 => frames' = Going(frames, Behind(frames))
         /\ stk' = s /\ handlers' = handlers /\ mode' = "exec"
<1>1. /\ Working(U, frames, stk, handlers, exc, assv, envs, funcs)
      /\ Advanced(by) = [frames EXCEPT ![Len(frames)].pc = @ + Size(Executed(frames).op) + by]
  BY AtWork DEF Now
<1>2. /\ [frames EXCEPT ![Len(frames)].pc = @ + Size(Executed(frames).op) + 0]
             = Going(frames, Behind(frames))
      /\ [frames EXCEPT ![Len(frames)].pc = @ + Size(Executed(frames).op) + by]
             = Going(frames, Behind(frames) + by)
  BY <1>1, GoingIs
<1> QED
  BY <1>1, <1>2 DEF Goes

LEMMA PendingIs ==
  ASSUME NEW c \in States, NEW i, i.op # "FINALLY_END", NEW e, Excepts(c.exc, e)
  PROVE  /\ Excepts(Pending(c, i), e)
         /\ i.op \in {"GETATTR", "SETATTR"} => Excepts(Pending(c, i), Null)
BY DEF Pending, Excepts, States

LEMMA ExceptsNow ==
  ASSUME NEW U, NEW fs, NEW st, NEW hs, NEW e, NEW av, NEW es, NEW fu,
         Working(U, fs, st, hs, e, av, es, fu)
  PROVE  Excepts(Current(fs).exc, e) /\ e \in U \cup {Null}
BY WorkingIs DEF In, Working, Typed

(* An instruction that leaves one value in place of its operands *)
LEMMA PushedOne ==
  ASSUME NEW U, Now(U), mode = "exec",
         NEW i, i = Executed(frames), i.op \in Plainly, i.op # "ASSV",
         NEW c, c = Current(frames),
         NEW k, k = Takes(i), k \in 0 .. Len(c.stack),
         NEW kind \in Shapes, Puts(c, i) = <<kind>>, NEW v, Fit(U, funcs, v), IsA(kind, v),
         NEW b, b = Cropped(stk, k), Proceeds(Append(b, v)),
         exc' \in U \cup {Null}, Excepts(Pending(c, i), exc'), UNCHANGED <<envs, funcs, assv>>
  PROVE  Then
<1>1. Working(U, frames, stk, handlers, exc, assv, envs, funcs)
  BY AtWork DEF Now
<1>2. PICK st2 : st2 = Append(b, v)
  OBVIOUS
<1>3. Goes(0, st2)
  BY <1>2 DEF Proceeds
<1>4. PICK gs : gs = Going(frames, Behind(frames))
  OBVIOUS
<1>5. frames' = gs /\ stk' = st2 /\ handlers' = handlers /\ mode' = "exec"
  BY <1>3, <1>4, WentOn
<1>6. PICK e2 : e2 = exc'
  OBVIOUS
<1>7. e2 \in U \cup {Null} /\ Excepts(Pending(c, i), e2)
  BY <1>6
<1>8. st2 = Append(Cropped(stk, k), v)
  BY <1>2
<1>9. Sound(gs, st2, handlers, e2, assv, envs, funcs, "exec")
  BY <1>1, <1>4, <1>7, <1>8, Pushed
<1> QED
  BY <1>5, <1>6, <1>9 DEF Then

(* Some of its operands are gone, or others are in their place. *)
LEMMA RaisedWith ==
  ASSUME NEW U, Now(U), mode = "exec",
         NEW k \in 0 .. Len(Current(frames).stack), NEW vals, Len(vals) \in Nat,
         NEW b \in Seq(U), Swapped(stk, b, k, vals),
         NEW e2, Fit(U, funcs, e2), e2 # Null, Raises(e2, b), UNCHANGED <<envs, funcs>>
  PROVE  Then
<1>1. Working(U, frames, stk, handlers, exc, assv, envs, funcs)
  BY AtWork DEF Now
<1>2. /\ mode' = "thrown" /\ exc' = e2 /\ stk' = b /\ frames' = frames /\ handlers' = handlers
      /\ envs' = envs /\ funcs' = funcs
  BY DEF Raises
<1>3. PICK av2 : av2 = assv'
  OBVIOUS
<1>4. Sound(frames, b, handlers, e2, av2, envs, funcs, "thrown")
  BY <1>1, Raised
<1> QED
  BY <1>2, <1>3, <1>4 DEF Then

LEMMA RaisedNow ==
  ASSUME NEW U, Now(U), mode = "exec",
         NEW k \in 0 .. Len(Current(frames).stack), NEW b, b = Cropped(stk, k),
         NEW e2, Fit(U, funcs, e2), e2 # Null, Raises(e2, b), UNCHANGED <<envs, funcs>>
  PROVE  Then
<1>1. Working(U, frames, stk, handlers, exc, assv, envs, funcs)
  BY AtWork DEF Now
<1>2. k \in 0 .. Len(stk) /\ stk \in Seq(U)
  BY <1>1, OperandIs, WorkingIs
<1>3. PICK vals : vals = <<>>
  OBVIOUS
<1>4. b \in Seq(U) /\ Swapped(stk, b, k, vals) /\ Len(vals) \in Nat
  BY <1>2, <1>3, PopIs
<1> QED
  BY <1>4, RaisedWith

LEMMA ExcFits ==
  ASSUME NEW U, NEW fu, NEW type
  PROVE  Fit(U, fu, Exc(type)) /\ Exc(type) # Null
<1>1. Kind(Exc(type)) = "exc" /\ Kind(Null) = "NULL"
  BY DEF Exc, Kind, Null
<1>2. Exc(type) # Null
  BY <1>1
<1>3. "exc" \in Kinds /\ "exc" \notin Parted
  BY DEF Kinds, Parted
<1> HIDE DEF Kind
<1> QED
  BY <1>1, <1>2, <1>3 DEF Fit, Iterable, Parted

LEMMA NowGrown ==
  ASSUME NEW U, Now(U), NEW v, Fit(U, funcs, v)
  PROVE  Now(U \cup {v})
BY Grown DEF Now

LEMMA FailedWith ==
  ASSUME NEW U, Now(U), mode = "exec",
         NEW k \in 0 .. Len(Current(frames).stack), NEW vals, Len(vals) \in Nat,
         NEW b \in Seq(U), Swapped(stk, b, k, vals), NEW type, Fails(type, b)
  PROVE  Then
<1>1. PICK e2 : e2 = Exc(type)
  OBVIOUS
<1>2. Raises(e2, b) /\ UNCHANGED <<envs, funcs>>
  BY <1>1 DEF Fails, heap
<1>3. Fit(U, funcs, e2) /\ e2 # Null
  BY <1>1, ExcFits
<1> QED
  BY <1>2, <1>3, RaisedWith

LEMMA FailedNow ==
  ASSUME NEW U, Now(U), mode = "exec",
         NEW k \in 0 .. Len(Current(frames).stack), NEW b, b = Cropped(stk, k),
         NEW type, Fails(type, b)
  PROVE  Then
<1>1. PICK e2 : e2 = Exc(type)
  OBVIOUS
<1>2. Raises(e2, b) /\ UNCHANGED <<envs, funcs>>
  BY <1>1 DEF Fails, heap
<1>3. Fit(U, funcs, e2) /\ e2 # Null
  BY <1>1, ExcFits
<1> QED
  BY <1>2, <1>3, RaisedNow

LEMMA StackIs ==
  ASSUME NEW U, Now(U)
  PROVE  /\ stk \in Seq(U) /\ Len(stk) \in Nat /\ stk = Cropped(stk, 0)
         /\ \A n : Under(n) = Cropped(stk, n) /\ Top(n) = stk[Len(stk) - n]
<1>1. stk \in Seq(U) /\ Len(stk) \in Nat
  BY LenProperties DEF Now, Typed
<1> QED
  BY <1>1, EmptyIs DEF Under, Cropped, Top

LEMMA PushesOne ==
  ASSUME NEW U, Now(U), mode = "exec",
         NEW i, i = Executed(frames), i.op \in Plainly, i.op \notin {"ASSV", "FINALLY_END"},
         NEW c, c = Current(frames),
         NEW k, k = Takes(i), k \in 0 .. Len(c.stack),
         NEW kind \in Shapes, Puts(c, i) = <<kind>>, NEW v, Fit(U, funcs, v), IsA(kind, v),
         NEW b, b = Cropped(stk, k), Proceeds(Append(b, v)),
         UNCHANGED <<exc, envs, funcs, assv>>
  PROVE  Then
<1>1. Working(U, frames, stk, handlers, exc, assv, envs, funcs)
  BY AtWork DEF Now
<1>2. c \in States
  BY <1>1, WorkingIs
<1>3. Excepts(c.exc, exc) /\ exc \in U \cup {Null}
  BY <1>1, ExceptsNow
<1>4. Excepts(Pending(c, i), exc)
  BY <1>2, <1>3, PendingIs
<1>5. Excepts(Pending(c, i), exc') /\ exc' \in U \cup {Null}
  BY <1>3, <1>4
<1> QED
  BY <1>5, PushedOne

LEMMA PushesPlain ==
  ASSUME NEW U, Now(U), mode = "exec",
         NEW i, i = Executed(frames), i.op \in Plainly, i.op \notin {"ASSV", "FINALLY_END"},
         NEW c, c = Current(frames),
         NEW k, k = Takes(i), k \in 0 .. Len(c.stack),
         NEW kind \in Shapes, Puts(c, i) = <<kind>>, NEW v, Fit(U, funcs, v), IsA(kind, v),
         NEW b, b = Cropped(stk, k), Pushes(v, b)
  PROVE  Then
<1>1. Proceeds(Append(b, v)) /\ UNCHANGED <<exc, envs, funcs, assv>>
  BY DEF Pushes, Plain, heap
<1> QED
  BY <1>1, PushesOne

LEMMA KindIs ==
  ASSUME NEW U, NEW fu, NEW v, Fit(U, fu, v)
  PROVE  Kind(v) \in Kinds /\ Kind(v) \in Shapes /\ IsA(Kind(v), v) /\ IsA("any", v)
         /\ "any" \in Shapes /\ "list+" \in Shapes
<1>1. Kind(v) \in Kinds
  BY DEF Fit
<1>2. "list+" \notin Kinds
  BY DEF Kinds
<1> QED
  BY <1>1, <1>2 DEF Shapes, IsA

LEMMA FitNow ==
  ASSUME NEW U, Now(U), NEW v \in U
  PROVE  Fit(U, funcs, v)
BY FitIs DEF Now

LEMMA PushSound ==
  ASSUME NEW U, Now(U), Push
  PROVE  Then
<1>1. PICK i : i = Executed(frames)
  OBVIOUS
<1>2. PICK c : c = Current(frames)
  OBVIOUS
<1>3. At({"PUSH"})
  BY DEF Push
<1>4. i.op = "PUSH" /\ Arg = i.arg /\ mode = "exec" /\ WellFormed(i) /\ Len(c.stack) \in Nat
  BY <1>1, <1>2, <1>3, Begun
<1>5. i.arg \in U
  BY <1>4 DEF WellFormed, Now, Typed
<1>6. PICK v : v = i.arg
  OBVIOUS
<1>7. Fit(U, funcs, v)
  BY <1>5, <1>6, FitNow
<1>8. PICK kind : kind = Kind(v)
  OBVIOUS
<1>9. kind \in Shapes /\ IsA(kind, v)
  BY <1>7, <1>8, KindIs
<1>10. 0 = Takes(i) /\ Puts(c, i) = <<kind>> /\ 0 \in 0 .. Len(c.stack)
  BY <1>4, <1>6, <1>8 DEF Takes, Reads, Puts
<1>11. stk = Cropped(stk, 0) /\ Pushes(v, stk)
  BY <1>4, <1>6, StackIs DEF Push
<1>12. i.op \in Plainly /\ i.op \notin {"ASSV", "FINALLY_END"}
  BY <1>4 DEF Plainly, Ops
<1> QED
  BY <1>1, <1>2, <1>4, <1>7, <1>9, <1>10, <1>11, <1>12, PushesPlain

(* An instruction that leaves nothing in place of its operands *)
LEMMA LeftNow ==
  ASSUME NEW U, Now(U), mode = "exec",
         NEW i, i = Executed(frames), i.op \in Plainly, NEW c, c = Current(frames),
         NEW k, k = Takes(i), k \in 0 .. Len(c.stack), Puts(c, i) = <<>>,
         NEW b, b = Cropped(stk, k), Proceeds(b),
         Excepts(Pending(c, i), exc'), i.op = "ASSV" => assv' = i.arg
  PROVE  /\ frames' \in Seq(FrameIn(U, Len(envs))) /\ stk' \in Seq(U) /\ handlers' = handlers
         /\ Controlled(frames', stk', handlers', exc', assv', mode')
<1>1. Working(U, frames, stk, handlers, exc, assv, envs, funcs)
  BY AtWork DEF Now
<1>2. Goes(0, b)
  BY DEF Proceeds
<1>3. PICK gs : gs = Going(frames, Behind(frames))
  OBVIOUS
<1>4. frames' = gs /\ stk' = b /\ handlers' = handlers /\ mode' = "exec"
  BY <1>2, <1>3, WentOn
<1>5. PICK e2 : e2 = exc'
  OBVIOUS
<1>6. PICK av2 : av2 = assv'
  OBVIOUS
<1>7. Excepts(Pending(c, i), e2) /\ (i.op = "ASSV" => av2 = i.arg)
  BY <1>5, <1>6
<1>8. /\ gs \in Seq(FrameIn(U, Len(envs))) /\ Controlled(gs, b, handlers, e2, av2, "exec")
      /\ b \in Seq(U)
  BY <1>1, <1>3, <1>7, LeftAs
<1> QED
  BY <1>4, <1>5, <1>6, <1>8

LEMMA TypedThen ==
  ASSUME NEW U, Now(U), frames' \in Seq(FrameIn(U, Len(envs))), stk' \in Seq(U),
         handlers' \in Seq(Handlers), exc' \in U \cup {Null}, UNCHANGED <<envs, funcs>>,
         Controlled(frames', stk', handlers', exc', assv', mode')
  PROVE  Then
<1>1. Typed(U, frames, stk, handlers, exc, envs, funcs)
  BY DEF Now
<1>2. Typed(U, frames', stk', handlers', exc', envs', funcs')
  BY <1>1 DEF Typed
<1> QED
  BY <1>2 DEF Then, Sound

LEMMA HandlersIs ==
  ASSUME NEW U, Now(U)
  PROVE  handlers \in Seq(Handlers) /\ exc \in U \cup {Null}
BY DEF Now, Typed

LEMMA PendingNow ==
  ASSUME NEW U, Now(U), mode = "exec", NEW i, i.op # "FINALLY_END", NEW c, c = Current(frames)
  PROVE  Excepts(Pending(c, i), exc) /\ Excepts(c.exc, exc)
<1>1. Working(U, frames, stk, handlers, exc, assv, envs, funcs)
  BY AtWork DEF Now
<1>2. c \in States /\ Excepts(c.exc, exc)
  BY <1>1, WorkingIs, ExceptsNow
<1> QED
  BY <1>2, PendingIs

LEMMA DropsPlain ==
  ASSUME NEW U, Now(U), mode = "exec",
         NEW i, i = Executed(frames), i.op \in Plainly, i.op \notin {"ASSV", "FINALLY_END"},
         NEW c, c = Current(frames),
         NEW k, k = Takes(i), k \in 0 .. Len(c.stack), Puts(c, i) = <<>>,
         NEW b, b = Cropped(stk, k), Proceeds(b), Plain
  PROVE  Then
<1>1. UNCHANGED <<exc, envs, funcs, assv>>
  BY DEF Plain, heap
<1>2. Excepts(Pending(c, i), exc)
  BY PendingNow
<1>3. Excepts(Pending(c, i), exc')
  BY <1>1, <1>2
<1>4. /\ frames' \in Seq(FrameIn(U, Len(envs))) /\ stk' \in Seq(U) /\ handlers' = handlers
      /\ Controlled(frames', stk', handlers', exc', assv', mode')
  BY <1>3, LeftNow
<1>5. handlers' \in Seq(Handlers) /\ exc' \in U \cup {Null}
  BY <1>1, <1>4, HandlersIs
<1> QED
  BY <1>1, <1>4, <1>5, TypedThen

LEMMA PopuSound ==
  ASSUME NEW U, Now(U), Popu
  PROVE  Then
<1>1. PICK i : i = Executed(frames)
  OBVIOUS
<1>2. PICK c : c = Current(frames)
  OBVIOUS
<1>3. At({"POPU"})
  BY DEF Popu
<1>4. i.op = "POPU" /\ mode = "exec" /\ Reads(i) \in 0 .. Len(c.stack)
  BY <1>1, <1>2, <1>3, Begun
<1>5. 1 = Takes(i) /\ Puts(c, i) = <<>> /\ 1 \in 0 .. Len(c.stack)
  BY <1>4 DEF Takes, Reads, Puts
<1>6. PICK b : b = Cropped(stk, 1)
  OBVIOUS
<1>7. Proceeds(b) /\ Plain
  BY <1>6, StackIs DEF Popu
<1>8. i.op \in Plainly /\ i.op \notin {"ASSV", "FINALLY_END"}
  BY <1>4 DEF Plainly, Ops
<1> QED
  BY <1>1, <1>2, <1>4, <1>5, <1>6, <1>7, <1>8, DropsPlain

LEMMA AssvSound ==
  ASSUME NEW U, Now(U), Assv
  PROVE  Then
<1>1. PICK i : i = Executed(frames)
  OBVIOUS
<1>2. PICK c : c = Current(frames)
  OBVIOUS
<1>3. At({"ASSV"})
  BY DEF Assv
<1>4. i.op = "ASSV" /\ mode = "exec" /\ Len(c.stack) \in Nat /\ Arg = i.arg
  BY <1>1, <1>2, <1>3, Begun
<1>5. 0 = Takes(i) /\ Puts(c, i) = <<>> /\ 0 \in 0 .. Len(c.stack)
  BY <1>4 DEF Takes, Reads, Puts
<1>6. Proceeds(stk) /\ assv' = i.arg /\ UNCHANGED <<exc, envs, funcs>>
  BY <1>4 DEF Assv, heap
<1>7. i.op \in Plainly
  BY <1>4 DEF Plainly, Ops
<1>8. Excepts(Pending(c, i), exc)
  BY <1>2, <1>4, PendingNow
<1>9. Excepts(Pending(c, i), exc')
  BY <1>6, <1>8
<1>10. stk = Cropped(stk, 0)
  BY StackIs
<1>11. /\ frames' \in Seq(FrameIn(U, Len(envs))) /\ stk' \in Seq(U) /\ handlers' = handlers
       /\ Controlled(frames', stk', handlers', exc', assv', mode')
  BY <1>1, <1>2, <1>4, <1>5, <1>6, <1>7, <1>9, <1>10, LeftNow
<1>12. handlers' \in Seq(Handlers) /\ exc' \in U \cup {Null}
  BY <1>6, <1>11, HandlersIs
<1> QED
  BY <1>6, <1>11, <1>12, TypedThen

LEMMA LeastIs ==
  ASSUME NEW n \in Nat, NEW S \in SUBSET (1 .. n), S # {},
         NEW m, m = CHOOSE i \in S : \A j \in S : i <= j
  PROVE  m \in S
<1>1. IsFiniteSet(S) /\ Cardinality(S) \in Nat /\ Cardinality(S) # 0
  <2>1. IsFiniteSet(1 .. n)
    BY FS_Interval
  <2> QED
    BY <2>1, FS_Subset, FS_CardinalityType, FS_EmptySet
<1>2. 1 \in 1 .. Cardinality(S)
  BY <1>1
<1> DEFINE i == Nth(S, 1)
           upto == {j \in S : j <= i}
<1>3. i \in S /\ Cardinality(upto) = 1
  BY <1>2, Ranked
<1>a. \A j \in S : j \in Int
  OBVIOUS
<1>4. i \in Int /\ \A j \in S : j \in Int
  BY <1>3, <1>a
<1>5. IsFiniteSet(upto) /\ i \in upto
  BY <1>1, <1>3, <1>4, FS_Subset
<1> HIDE DEF i
<1>6. PICK x : upto = {x}
  <2> HIDE DEF upto
  <2> QED
    BY <1>3, <1>5, FS_Singleton
<1>7. \A j \in S : i <= j
  <2>1. SUFFICES ASSUME NEW j \in S, ~(i <= j)
                 PROVE  FALSE
    OBVIOUS
  <2>2. j \in upto
    BY <1>4, <2>1
  <2>3. j = i
    BY <1>5, <1>6, <2>2
  <2> QED
    BY <1>4, <2>1, <2>3
<1> QED
  BY <1>3, <1>7

LEMMA VariableIs ==
  ASSUME NEW U, NEW es \in Seq(EnvIn(U)), NEW scope \in Seq(1 .. Len(es)), NEW name,
         NEW found, found = Holders(es, scope, name), found # {},
         NEW i, i = CHOOSE k \in found : \A j \in found : k <= j
  PROVE  es[scope[i]][name] \in U /\ name \in Locals
<1>1. Len(scope) \in Nat /\ DOMAIN scope = 1 .. Len(scope)
  BY LenProperties
<1>2. found \in SUBSET (1 .. Len(scope))
  BY <1>1 DEF Holders
<1>3. i \in found
  BY <1>1, <1>2, LeastIs
<1>4. scope[i] \in 1 .. Len(es)
  BY <1>2, <1>3, SeqIs
<1>5. PICK env : env = es[scope[i]]
  OBVIOUS
<1>6. env \in EnvIn(U) /\ name \in DOMAIN env
  BY <1>3, <1>4, <1>5, SeqIs DEF Holders
<1>7. PICK N \in SUBSET Locals : env \in [N -> U]
  BY <1>6 DEF EnvIn
<1>8. name \in N /\ env[name] \in U
  BY <1>6, <1>7
<1> QED
  BY <1>5, <1>7, <1>8

LEMMA LoadSound ==
  ASSUME NEW U, Now(U), Load
  PROVE  Then
<1>1. PICK i : i = Executed(frames)
  OBVIOUS
<1>2. PICK c : c = Current(frames)
  OBVIOUS
<1>3. At({"LOAD"})
  BY DEF Load
<1>4. /\ i.op = "LOAD" /\ mode = "exec" /\ Len(c.stack) \in Nat /\ Arg = i.arg
      /\ Frame = Inner(frames) /\ Working(U, frames, stk, handlers, exc, assv, envs, funcs)
  BY <1>1, <1>2, <1>3, Begun
<1>5. PICK kind : kind = IF i.arg \in DOMAIN Globals \ Locals THEN Kind(Globals[i.arg]) ELSE "any"
  OBVIOUS
<1>6. 0 = Takes(i) /\ Puts(c, i) = <<kind>> /\ 0 \in 0 .. Len(c.stack)
  BY <1>4, <1>5 DEF Takes, Reads, Puts
<1>7. i.op \in Plainly /\ i.op \notin {"ASSV", "FINALLY_END"}
  BY <1>4 DEF Plainly, Ops
<1>8. stk = Cropped(stk, 0)
  BY StackIs
<1>9. PICK found : found = Holders(envs, Frame.scope, Arg)
  OBVIOUS
<1>10. PICK inner : inner = CHOOSE n \in found : \A j \in found : n <= j
  OBVIOUS
<1>11. CASE found # {}
  <2>1. Inner(frames) \in FrameIn(U, Len(envs))
    BY <1>4, WorkingIs
  <2>2. Frame.scope \in Seq(1 .. Len(envs)) /\ envs \in Seq(EnvIn(U))
    BY <1>4, <2>1 DEF FrameIn, Now, Typed
  <2>3. PICK v : v = envs[Frame.scope[inner]][Arg]
    OBVIOUS
  <2>4. v \in U /\ Arg \in Locals
    BY <1>9, <1>10, <1>11, <2>2, <2>3, VariableIs
  <2>5. kind = "any"
    BY <1>4, <1>5, <2>4
  <2>6. Fit(U, funcs, v)
    BY <2>4, FitNow
  <2>7. kind \in Shapes /\ IsA(kind, v)
    BY <2>5, <2>6, KindIs
  <2>8. Pushes(v, stk)
    BY <1>9, <1>10, <1>11, <2>3 DEF Load
  <2> QED
    BY <1>1, <1>2, <1>4, <1>6, <1>7, <1>8, <2>6, <2>7, <2>8, PushesPlain
<1>12. CASE found = {} /\ Arg \in DOMAIN Globals
  <2>1. PICK v : v = Globals[Arg]
    OBVIOUS
  <2>2. v \in U
    BY <1>12, <2>1, CertificateAssumption DEF Now, Typed
  <2>3. Fit(U, funcs, v)
    BY <2>2, FitNow
  <2>4. kind = Kind(v) \/ kind = "any"
    BY <1>4, <1>5, <2>1
  <2>5. kind \in Shapes /\ IsA(kind, v)
    BY <2>3, <2>4, KindIs
  <2>6. Pushes(v, stk)
    BY <1>9, <1>12, <2>1 DEF Load
  <2> QED
    BY <1>1, <1>2, <1>4, <1>6, <1>7, <1>8, <2>3, <2>5, <2>6, PushesPlain
<1>13. CASE found = {} /\ Arg \notin DOMAIN Globals
  <2>1. Fails("NameError", stk)
    BY <1>9, <1>13 DEF Load
  <2>2. 0 \in 0 .. Len(Current(frames).stack)
    BY <1>2, <1>6
  <2> QED
    BY <1>4, <1>8, <2>1, <2>2, FailedNow
<1> QED
  BY <1>11, <1>12, <1>13

(* What is on the stack *)
LEMMA OperandNow ==
  ASSUME NEW U, Now(U), mode = "exec", NEW c, c = Current(frames),
         NEW n \in 0 .. Len(c.stack) - 1
  PROVE  /\ Top(n) \in U /\ Fit(U, funcs, Top(n))
         /\ IsA(Peek(c, n), Top(n)) /\ Peek(c, n) \in Shapes
<1>1. Working(U, frames, stk, handlers, exc, assv, envs, funcs)
  BY AtWork DEF Now
<1>2. IsA(Peek(c, n), stk[Len(stk) - n]) /\ stk[Len(stk) - n] \in U /\ Peek(c, n) \in Shapes
  BY <1>1, OperandIs
<1>3. Top(n) = stk[Len(stk) - n]
  BY DEF Top
<1> QED
  BY <1>2, <1>3, FitNow

Sliced(s, n) == SubSeq(s, Len(s) - n + 1, Len(s))

LEMMA SlicedIs ==
  ASSUME NEW S, NEW s \in Seq(S), NEW n \in 0 .. Len(s)
  PROVE  /\ Sliced(s, n) \in Seq(S) /\ Len(Sliced(s, n)) = n /\ n \in Nat
         /\ \A j \in 1 .. n : Sliced(s, n)[j] = s[Len(s) - (n - j)]
<1>1. Len(s) \in Nat
  BY LenProperties
<1>2. PICK m \in Int : m = Len(s) - n + 1
  BY <1>1
<1>3. /\ 1 <= m /\ m <= Len(s) + 1 /\ Len(s) - m + 1 = n /\ Len(s) <= Len(s) /\ Len(s) \in Int
      /\ \A j \in 1 .. n : m + j - 1 = Len(s) - (n - j)
  BY <1>1, <1>2
<1>4. /\ SubSeq(s, m, Len(s)) \in Seq(S) /\ Len(SubSeq(s, m, Len(s))) = Len(s) - m + 1
      /\ \A i \in 1 .. Len(s) - m + 1 : SubSeq(s, m, Len(s))[i] = s[m + i - 1]
  BY <1>1, <1>3, MidSub
<1>5. Sliced(s, n) = SubSeq(s, m, Len(s))
  BY <1>2 DEF Sliced
<1> QED
  BY <1>3, <1>4, <1>5

LEMMA LastIs ==
  ASSUME NEW U, Now(U), NEW n \in 0 .. Len(stk)
  PROVE  /\ LastN(n) \in Seq(U) /\ Len(LastN(n)) = n /\ n \in Nat
         /\ \A j \in 1 .. n : LastN(n)[j] = Top(n - j)
<1>1. stk \in Seq(U)
  BY StackIs
<1>2. LastN(n) = Sliced(stk, n)
  BY DEF LastN, Sliced
<1>3. \A j \in 1 .. n : Top(n - j) = stk[Len(stk) - (n - j)]
  BY DEF Top
<1> QED
  BY <1>1, <1>2, <1>3, SlicedIs

LEMMA TopsIs ==
  ASSUME NEW s, s.stack \in Seq(Shapes), NEW n \in 0 .. Len(s.stack)
  PROVE  /\ Tops(s, n) \in Seq(Shapes) /\ Len(Tops(s, n)) = n
         /\ \A j \in 1 .. n : Tops(s, n)[j] = Peek(s, n - j)
<1>1. Tops(s, n) = Sliced(s.stack, n)
  BY DEF Tops, Sliced
<1>2. \A j \in 1 .. n : Peek(s, n - j) = s.stack[Len(s.stack) - (n - j)]
  BY DEF Peek
<1> QED
  BY <1>1, <1>2, SlicedIs, ZenonT(60)

LEMMA TopsMatch ==
  ASSUME NEW U, Now(U), mode = "exec", NEW c, c = Current(frames), NEW n \in 0 .. Len(c.stack)
  PROVE  Tops(c, n) \in Seq(Shapes) /\ LastN(n) \in Seq(U) /\ Matches(Tops(c, n), LastN(n))
<1>1. Working(U, frames, stk, handlers, exc, assv, envs, funcs)
  BY AtWork DEF Now
<1>2. c.stack \in Seq(Shapes) /\ Len(c.stack) \in 0 .. Len(stk) /\ Len(c.stack) \in Nat
      /\ Len(stk) \in Nat
  BY <1>1, WorkingIs, OperandIs DEF Outlined
<1>3. n \in 0 .. Len(stk)
  BY <1>2
<1>4. LastN(n) \in Seq(U) /\ Len(LastN(n)) = n /\ \A j \in 1 .. n : LastN(n)[j] = Top(n - j)
  BY <1>3, LastIs
<1>5. Tops(c, n) \in Seq(Shapes) /\ Len(Tops(c, n)) = n /\ \A j \in 1 .. n : Tops(c, n)[j] = Peek(c, n - j)
  BY <1>2, TopsIs
<1>6. ASSUME NEW j \in 1 .. n
      PROVE  IsA(Tops(c, n)[j], LastN(n)[j])
  <2>1. n - j \in 0 .. Len(c.stack) - 1
    BY <1>2
  <2>2. PICK m : m = n - j
    OBVIOUS
  <2>3. IsA(Peek(c, m), Top(m))
    BY <2>1, <2>2, OperandNow
  <2> QED
    BY <1>4, <1>5, <2>2, <2>3
<1> QED
  BY <1>4, <1>5, <1>6 DEF Matches

(* An instruction that exchanges operands for values *)
LEMMA PlacedNow ==
  ASSUME NEW U, Now(U), mode = "exec",
         NEW i, i = Executed(frames), i.op \in Plainly, NEW c, c = Current(frames),
         NEW k, k = Takes(i), k \in 0 .. Len(c.stack), NEW puts, puts = Puts(c, i),
         puts \in Seq(Shapes), NEW vals \in Seq(U), Matches(puts, vals),
         NEW b, b = Cropped(stk, k), Proceeds(b \o vals),
         Excepts(Pending(c, i), exc'), i.op # "ASSV"
  PROVE  /\ frames' \in Seq(FrameIn(U, Len(envs))) /\ stk' \in Seq(U) /\ handlers' = handlers
         /\ Controlled(frames', stk', handlers', exc', assv', mode')
<1>1. Working(U, frames, stk, handlers, exc, assv, envs, funcs)
  BY AtWork DEF Now
<1>2. PICK st2 : st2 = b \o vals
  OBVIOUS
<1>3. Goes(0, st2)
  BY <1>2 DEF Proceeds
<1>4. PICK gs : gs = Going(frames, Behind(frames))
  OBVIOUS
<1>5. frames' = gs /\ stk' = st2 /\ handlers' = handlers /\ mode' = "exec"
  BY <1>3, <1>4, WentOn
<1>6. stk \in Seq(U) /\ k \in 0 .. Len(stk)
  BY <1>1, WorkingIs, OperandIs
<1>7. st2 \in Seq(U) /\ Swapped(stk, st2, k, vals)
  BY <1>2, <1>6, UnderIs
<1>8. PICK e2 : e2 = exc'
  OBVIOUS
<1>9. PICK av2 : av2 = assv'
  OBVIOUS
<1>10. Excepts(Pending(c, i), e2) /\ (i.op = "ASSV" => av2 = i.arg)
  BY <1>8
<1>11. gs \in Seq(FrameIn(U, Len(envs))) /\ Controlled(gs, st2, handlers, e2, av2, "exec")
  BY <1>1, <1>4, <1>7, <1>10, Proceeded
<1> QED
  BY <1>5, <1>7, <1>8, <1>9, <1>11

LEMMA PlacesPlain ==
  ASSUME NEW U, Now(U), mode = "exec",
         NEW i, i = Executed(frames), i.op \in Plainly, i.op \notin {"ASSV", "FINALLY_END"},
         NEW c, c = Current(frames),
         NEW k, k = Takes(i), k \in 0 .. Len(c.stack), NEW puts, puts = Puts(c, i),
         puts \in Seq(Shapes), NEW vals \in Seq(U), Matches(puts, vals),
         NEW b, b = Cropped(stk, k), Proceeds(b \o vals), UNCHANGED <<exc, envs, funcs>>
  PROVE  Then
<1>1. Excepts(Pending(c, i), exc)
  BY PendingNow
<1>2. Excepts(Pending(c, i), exc') /\ i.op # "ASSV"
  BY <1>1
<1>3. /\ frames' \in Seq(FrameIn(U, Len(envs))) /\ stk' \in Seq(U) /\ handlers' = handlers
      /\ Controlled(frames', stk', handlers', exc', assv', mode')
  BY <1>2, PlacedNow
<1>4. handlers' \in Seq(Handlers) /\ exc' \in U \cup {Null}
  BY <1>3, HandlersIs
<1> QED
  BY <1>3, <1>4, TypedThen

LEMMA DupSound ==
  ASSUME NEW U, Now(U), Dup
  PROVE  Then
<1>1. PICK i : i = Executed(frames)
  OBVIOUS
<1>2. PICK c : c = Current(frames)
  OBVIOUS
<1>3. At({"DUP", "DUPI", "DUPN"})
  BY DEF Dup, At
<1>4. /\ i.op \in {"DUP", "DUPI", "DUPN"} /\ mode = "exec" /\ Op = i.op /\ Arg = i.arg
      /\ Len(c.stack) \in Nat /\ Reads(i) \in 0 .. Len(c.stack) /\ WellFormed(i) /\ c \in States
  BY <1>1, <1>2, <1>3, Begun
<1>5. i.op \in Plainly /\ i.op \notin {"ASSV", "FINALLY_END"}
  BY <1>4 DEF Plainly, Ops
<1>6. 0 = Takes(i) /\ 0 \in 0 .. Len(c.stack)
  BY <1>4 DEF Takes
<1>7. stk = Cropped(stk, 0) /\ UNCHANGED <<exc, envs, funcs>>
  BY StackIs DEF Dup, Plain, heap
<1>8. ASSUME NEW n \in 0 .. Len(c.stack) - 1, Puts(c, i) = <<Peek(c, n)>>,
             Proceeds(Append(stk, Top(n))), Plain
      PROVE  Then
  <2>1. PICK kind : kind = Peek(c, n)
    OBVIOUS
  <2>2. PICK v : v = Top(n)
    OBVIOUS
  <2>3. Fit(U, funcs, v) /\ IsA(kind, v) /\ kind \in Shapes
    BY <1>2, <1>4, <2>1, <2>2, OperandNow
  <2>4. Pushes(v, stk) /\ Puts(c, i) = <<kind>>
    BY <1>8, <2>1, <2>2 DEF Pushes
  <2> QED
    BY <1>1, <1>2, <1>4, <1>5, <1>6, <1>7, <2>3, <2>4, PushesPlain
<1>9. CASE i.op = "DUP"
  <2>1. Puts(c, i) = <<Peek(c, 0)>> /\ Reads(i) = 1
    BY <1>9 DEF Puts, Reads
  <2>2. 0 \in 0 .. Len(c.stack) - 1
    BY <1>4, <2>1
  <2>3. Proceeds(Append(stk, Top(0))) /\ Plain
    BY <1>4, <1>9 DEF Dup, At
  <2> QED
    BY <1>8, <2>1, <2>2, <2>3
<1>10. CASE i.op = "DUPI"
  <2>1. Reads(i) = -i.arg /\ i.arg \in Int /\ i.arg < 0 /\ Puts(c, i) = <<Peek(c, -i.arg - 1)>>
    BY <1>4, <1>10 DEF Reads, WellFormed, Puts
  <2>2. PICK n : n = -i.arg - 1
    OBVIOUS
  <2>3. n \in 0 .. Len(c.stack) - 1
    BY <1>4, <2>1, <2>2
  <2>4. Proceeds(Append(stk, Top(n))) /\ Plain
    BY <1>4, <1>10, <2>2 DEF Dup, At
  <2> QED
    BY <1>8, <2>1, <2>2, <2>3, <2>4
<1>11. CASE i.op = "DUPN"
  <2>1. Reads(i) = i.arg /\ Puts(c, i) = Tops(c, i.arg)
    BY <1>11 DEF Reads, Puts
  <2>2. PICK n : n = i.arg
    OBVIOUS
  <2>3. n \in 0 .. Len(c.stack)
    BY <1>4, <2>1, <2>2
  <2>4. PICK puts : puts = Tops(c, n)
    OBVIOUS
  <2>5. PICK vals : vals = LastN(n)
    OBVIOUS
  <2>6. puts \in Seq(Shapes) /\ vals \in Seq(U) /\ Matches(puts, vals) /\ puts = Puts(c, i)
    BY <1>2, <1>4, <2>1, <2>2, <2>3, <2>4, <2>5, TopsMatch
  <2>7. Proceeds(stk \o vals)
    BY <1>4, <1>11, <2>2, <2>5 DEF Dup, At
  <2> QED
    BY <1>1, <1>2, <1>4, <1>5, <1>6, <1>7, <2>6, <2>7, PlacesPlain
<1> QED
  BY <1>4, <1>9, <1>10, <1>11

LEMMA MatchesThree ==
  ASSUME NEW j, NEW k, NEW l, NEW v, NEW w, NEW x, IsA(j, v), IsA(k, w), IsA(l, x)
  PROVE  Matches(<<j, k, l>>, <<v, w, x>>)
<1>1. PICK kinds : kinds = <<j, k, l>>
  OBVIOUS
<1>2. PICK vals : vals = <<v, w, x>>
  OBVIOUS
<1>3. Len(kinds) = 3 /\ Len(vals) = 3
  BY <1>1, <1>2
<1>4. kinds[1] = j /\ kinds[2] = k /\ kinds[3] = l /\ vals[1] = v /\ vals[2] = w /\ vals[3] = x
  BY <1>1, <1>2
<1>5. \A n \in 1 .. 3 : n = 1 \/ n = 2 \/ n = 3
  OBVIOUS
<1>6. \A n \in 1 .. 3 : IsA(kinds[n], vals[n])
  BY <1>4, <1>5
<1> QED
  BY <1>1, <1>2, <1>3, <1>6 DEF Matches

LEMMA RcrSound ==
  ASSUME NEW U, Now(U), Rcr
  PROVE  Then
<1>1. PICK i : i = Executed(frames)
  OBVIOUS
<1>2. PICK c : c = Current(frames)
  OBVIOUS
<1>3. At({"RCR"})
  BY DEF Rcr
<1>4. /\ i.op = "RCR" /\ mode = "exec"
      /\ Len(c.stack) \in Nat /\ Reads(i) \in 0 .. Len(c.stack)
  BY <1>1, <1>2, <1>3, Begun
<1>5. i.op \in Plainly /\ i.op \notin {"ASSV", "FINALLY_END"}
  BY <1>4 DEF Plainly, Ops
<1>6. 2 = Takes(i) /\ 2 = Reads(i)
  BY <1>4 DEF Takes, Reads
<1>7. 2 \in 0 .. Len(c.stack) /\ 0 \in 0 .. Len(c.stack) - 1 /\ 1 \in 0 .. Len(c.stack) - 1
  BY <1>4, <1>6
<1>8. PICK vals : vals = <<Top(0), Top(1), Top(0)>>
  OBVIOUS
<1>9. PICK puts : puts = <<Peek(c, 0), Peek(c, 1), Peek(c, 0)>>
  OBVIOUS
<1>10. /\ Top(0) \in U /\ Top(1) \in U /\ IsA(Peek(c, 0), Top(0)) /\ IsA(Peek(c, 1), Top(1))
       /\ Peek(c, 0) \in Shapes /\ Peek(c, 1) \in Shapes
  BY <1>2, <1>4, <1>7, OperandNow
<1>11. puts \in Seq(Shapes) /\ vals \in Seq(U)
  BY <1>8, <1>9, <1>10
<1>12. Matches(puts, vals)
  BY <1>8, <1>9, <1>10, MatchesThree
<1>13. puts = Puts(c, i)
  BY <1>4, <1>9 DEF Puts
<1>14. PICK b : b = Cropped(stk, 2)
  OBVIOUS
<1>15. Proceeds(b \o vals) /\ UNCHANGED <<exc, envs, funcs>>
  BY <1>8, <1>14, StackIs DEF Rcr, Plain, heap
<1> QED
  BY <1>1, <1>2, <1>4, <1>5, <1>6, <1>7, <1>11, <1>12, <1>13, <1>14, <1>15, PlacesPlain

LEMMA BoundIn ==
  ASSUME NEW U, NEW env \in EnvIn(U), NEW name \in Locals, NEW v \in U
  PROVE  Bind(env, name, v) \in EnvIn(U)
<1>1. PICK N \in SUBSET Locals : env \in [N -> U]
  BY DEF EnvIn
<1>2. DOMAIN env = N /\ N \cup {name} \in SUBSET Locals
  BY <1>1
<1>3. Bind(env, name, v) \in [N \cup {name} -> U]
  BY <1>1, <1>2 DEF Bind
<1> QED
  BY <1>2, <1>3 DEF EnvIn

LEMMA StoreSound ==
  ASSUME NEW U, Now(U), Store
  PROVE  Then
<1>1. PICK i : i = Executed(frames)
  OBVIOUS
<1>2. PICK c : c = Current(frames)
  OBVIOUS
<1>3. At({"STORE"})
  BY DEF Store
<1>4. /\ i.op = "STORE" /\ mode = "exec" /\ Arg = i.arg /\ WellFormed(i)
      /\ Len(c.stack) \in Nat /\ Reads(i) \in 0 .. Len(c.stack)
      /\ Frame = Inner(frames) /\ Working(U, frames, stk, handlers, exc, assv, envs, funcs)
  BY <1>1, <1>2, <1>3, Begun
<1>5. i.op \in Plainly
  BY <1>4 DEF Plainly, Ops
<1>6. 0 = Takes(i) /\ 1 = Reads(i) /\ Puts(c, i) = <<>> /\ i.arg \in Locals
  BY <1>4 DEF Takes, Reads, Puts, WellFormed
<1>7. 0 \in 0 .. Len(c.stack) /\ 0 \in 0 .. Len(c.stack) - 1
  BY <1>4, <1>6
<1>8. Proceeds(stk) /\ stk = Cropped(stk, 0) /\ UNCHANGED <<exc, funcs>>
  BY StackIs DEF Store
<1>9. Excepts(Pending(c, i), exc)
  BY <1>2, <1>4, PendingNow
<1>10. Excepts(Pending(c, i), exc') /\ i.op # "ASSV"
  BY <1>4, <1>8, <1>9
<1>11. /\ frames' \in Seq(FrameIn(U, Len(envs))) /\ stk' \in Seq(U) /\ handlers' = handlers
       /\ Controlled(frames', stk', handlers', exc', assv', mode')
  BY <1>1, <1>2, <1>4, <1>5, <1>6, <1>7, <1>8, <1>10, LeftNow
<1>12. /\ Top(0) \in U
  BY <1>2, <1>4, <1>7, OperandNow
<1>13. PICK at : at = Head(Frame.scope)
  OBVIOUS
<1>14. at \in 1 .. Len(envs)
  <2>1. Frame \in FrameIn(U, Len(envs))
    BY <1>4, WorkingIs
  <2>2. Frame.scope \in Seq(1 .. Len(envs)) /\ Frame.scope # <<>>
    BY <2>1 DEF FrameIn
  <2> QED
    BY <1>13, <2>2
<1>15. envs \in Seq(EnvIn(U)) /\ Typed(U, frames, stk, handlers, exc, envs, funcs)
  BY DEF Now, Typed
<1>16. envs[at] \in EnvIn(U)
  BY <1>14, <1>15
<1>17. PICK env : env = Bind(envs[at], i.arg, Top(0))
  OBVIOUS
<1>18. env \in EnvIn(U)
  BY <1>6, <1>12, <1>16, <1>17, BoundIn
<1>19. envs' = [envs EXCEPT ![at] = env]
  BY <1>4, <1>13, <1>17 DEF Store
<1>20. envs' \in Seq(EnvIn(U)) /\ Len(envs') = Len(envs)
  BY <1>14, <1>15, <1>18, <1>19, ExceptSeq
<1>21. Typed(U, frames', stk', handlers', exc', envs', funcs')
  BY <1>8, <1>11, <1>15, <1>20 DEF Typed
<1> QED
  BY <1>11, <1>21 DEF Then, Sound

-----------------------------------------------------------------------------
(* External events *)

LEMMA OutcomeIs ==
  ASSUME NEW U, Now(U), prog \in Programs, NEW event \in Events, NEW k,
         NEW out \in Outcomes(event, k)
  PROVE  out.val \in U /\ Fit(U, funcs, out.val) /\ (out.thrown => out.val # Null)
<1>1. out \in Results(prog)[event].free \cup {Results(prog)[event].calm}
  BY DEF Outcomes
<1>2. out.val \in Base /\ (out.thrown => out.val # Null)
  BY <1>1, CertificateAssumption
<1>3. out.val \in U
  BY <1>2 DEF Now, Typed
<1> QED
  BY <1>2, <1>3, FitNow

LEMMA ExternalSound ==
  ASSUME NEW U, Now(U), mode = "exec", prog \in Programs,
         NEW i, i = Executed(frames), i.op \in Plainly, i.op \notin {"ASSV", "FINALLY_END"},
         NEW c, c = Current(frames), NEW event \in Events, NEW args,
         event \in {"getattr", "setattr"} => i.op \in {"GETATTR", "SETATTR"},
         NEW m \in 0 .. Len(c.stack), NEW lost, lost = Cropped(stk, m),
         NEW k, k = Takes(i), k \in 0 .. Len(c.stack), Puts(c, i) = <<"any">>,
         NEW below, below = Cropped(stk, k), NEW kept \in U \cup {Null},
         External(event, args, lost, below, kept)
  PROVE  Then
<1>1. UNCHANGED <<envs, funcs, assv>>
  BY DEF External, heap
<1>2. PICK out \in Outcomes(event, 0) :
          IF out.thrown THEN Raises(out.val, lost)
          ELSE /\ Proceeds(Append(below, IF kept = Null THEN out.val ELSE kept))
               /\ exc' \in IF event \in {"getattr", "setattr"} THEN {exc, Null} ELSE {exc}
  BY DEF External
<1>3. PICK o : o = out.val
  OBVIOUS
<1>4. o \in U /\ Fit(U, funcs, o) /\ (out.thrown => o # Null)
  BY <1>3, OutcomeIs
<1>5. CASE out.thrown
  <2>1. Raises(o, lost) /\ o # Null
    BY <1>2, <1>3, <1>4, <1>5
  <2>2. m \in 0 .. Len(Current(frames).stack)
    OBVIOUS
  <2> QED
    BY <1>1, <1>4, <2>1, <2>2, RaisedNow
<1>6. CASE ~out.thrown
  <2>1. PICK v : v = IF kept = Null THEN o ELSE kept
    OBVIOUS
  <2>2. v \in U
    BY <1>4, <2>1
  <2>3. Fit(U, funcs, v)
    BY <2>2, FitNow
  <2>4. "any" \in Shapes /\ IsA("any", v)
    BY <2>3, KindIs
  <2>5. Proceeds(Append(below, v))
    BY <1>2, <1>3, <1>6, <2>1
  <2>6. exc' \in IF event \in {"getattr", "setattr"} THEN {exc, Null} ELSE {exc}
    BY <1>2, <1>6
  <2>7. exc \in U \cup {Null} /\ Excepts(c.exc, exc) /\ c \in States
    <3>1. Working(U, frames, stk, handlers, exc, assv, envs, funcs)
      BY AtWork DEF Now
    <3> QED
      BY <3>1, ExceptsNow, WorkingIs
  <2>8. PICK e2 : e2 = exc'
    OBVIOUS
  <2>9. e2 = exc \/ (e2 = Null /\ i.op \in {"GETATTR", "SETATTR"})
    BY <2>6, <2>8
  <2>10. Excepts(Pending(c, i), e2) /\ e2 \in U \cup {Null}
    <3>1. Excepts(Pending(c, i), exc)
      BY <2>7, PendingIs
    <3>2. i.op \in {"GETATTR", "SETATTR"} => Excepts(Pending(c, i), Null)
      BY <2>7, PendingIs
    <3> QED
      BY <2>7, <2>9, <3>1, <3>2
  <2>11. Excepts(Pending(c, i), exc') /\ exc' \in U \cup {Null}
    BY <2>8, <2>10
  <2> QED
    BY <1>1, <2>3, <2>4, <2>5, <2>11, PushedOne
<1> QED
  BY <1>5, <1>6

LEMMA ComputesSound ==
  ASSUME NEW U, Now(U), mode = "exec", prog \in Programs,
         NEW i, i = Executed(frames), i.op \in Plainly, i.op \notin {"ASSV", "FINALLY_END"},
         NEW c, c = Current(frames), NEW event \in Events, NEW args,
         event \in {"getattr", "setattr"} => i.op \in {"GETATTR", "SETATTR"},
         NEW k, k = Takes(i), k \in 0 .. Len(c.stack), Puts(c, i) = <<"any">>,
         Computes(event, args, k)
  PROVE  Then
<1>1. PICK b : b = Cropped(stk, k)
  OBVIOUS
<1>2. b = Under(k)
  BY <1>1, StackIs
<1>3. PICK kept : kept = Null
  OBVIOUS
<1>4. External(event, args, b, b, kept) /\ kept \in U \cup {Null}
  BY <1>2, <1>3 DEF Computes
<1> QED
  BY <1>1, <1>4, ExternalSound

LEMMA GetattrSound ==
  ASSUME NEW U, Now(U), prog \in Programs, Getattr
  PROVE  Then
<1>1. PICK i : i = Executed(frames)
  OBVIOUS
<1>2. PICK c : c = Current(frames)
  OBVIOUS
<1>3. At({"GETATTR"})
  BY DEF Getattr
<1>4. i.op = "GETATTR" /\ mode = "exec" /\ Reads(i) \in 0 .. Len(c.stack)
  BY <1>1, <1>2, <1>3, Begun
<1>5. i.op \in Plainly /\ i.op \notin {"ASSV", "FINALLY_END"} /\ i.op \in {"GETATTR", "SETATTR"}
  BY <1>4 DEF Plainly, Ops
<1>6. 1 = Takes(i) /\ Puts(c, i) = <<"any">> /\ 1 = Reads(i)
  BY <1>4 DEF Takes, Puts, Reads
<1>7. 1 \in 0 .. Len(c.stack)
  BY <1>4, <1>6
<1>8. PICK args : args = <<Top(0), Arg>>
  OBVIOUS
<1>9. Computes("getattr", args, 1)
  BY <1>8 DEF Getattr
<1>10. "getattr" \in Events
  BY DEF Events
<1> QED
  BY <1>1, <1>2, <1>4, <1>5, <1>6, <1>7, <1>9, <1>10, ComputesSound

LEMMA SetattrSound ==
  ASSUME NEW U, Now(U), prog \in Programs, Setattr
  PROVE  Then
<1>1. PICK i : i = Executed(frames)
  OBVIOUS
<1>2. PICK c : c = Current(frames)
  OBVIOUS
<1>3. At({"SETATTR"})
  BY DEF Setattr
<1>4. /\ i.op = "SETATTR" /\ mode = "exec" /\ Reads(i) \in 0 .. Len(c.stack)
      /\ Len(c.stack) \in Nat
  BY <1>1, <1>2, <1>3, Begun
<1>5. i.op \in Plainly /\ i.op \notin {"ASSV", "FINALLY_END"} /\ i.op \in {"GETATTR", "SETATTR"}
  BY <1>4 DEF Plainly, Ops
<1>6. 2 = Takes(i) /\ Puts(c, i) = <<"any">> /\ 2 = Reads(i)
  BY <1>4 DEF Takes, Puts, Reads
<1>7. 2 \in 0 .. Len(c.stack) /\ 1 \in 0 .. Len(c.stack) - 1 /\ 0 \in 0 .. Len(c.stack)
  BY <1>4, <1>6
<1>8. PICK args : args = <<Top(0), Arg, Top(1)>>
  OBVIOUS
<1>9. PICK kept : kept = Top(1)
  OBVIOUS
<1>10. kept \in U \cup {Null}
  BY <1>2, <1>4, <1>7, <1>9, OperandNow
<1>11. PICK b : b = Cropped(stk, 2)
  OBVIOUS
<1>12. External("setattr", args, stk, b, kept) /\ stk = Cropped(stk, 0)
  BY <1>8, <1>9, <1>11, StackIs DEF Setattr
<1>13. "setattr" \in Events
  BY DEF Events
<1> QED
  BY <1>1, <1>2, <1>4, <1>5, <1>6, <1>7, <1>10, <1>11, <1>12, <1>13, ExternalSound

LEMMA GetelemsSound ==
  ASSUME NEW U, Now(U), prog \in Programs, Getelems
  PROVE  Then
<1>1. PICK i : i = Executed(frames)
  OBVIOUS
<1>2. PICK c : c = Current(frames)
  OBVIOUS
<1>3. At({"GETELEMS"})
  BY DEF Getelems
<1>4. i.op = "GETELEMS" /\ mode = "exec" /\ Reads(i) \in 0 .. Len(c.stack) /\ Arg = i.arg
  BY <1>1, <1>2, <1>3, Begun
<1>5. i.op \in Plainly /\ i.op \notin {"ASSV", "FINALLY_END"}
  BY <1>4 DEF Plainly, Ops
<1>6. PICK k : k = i.arg
  OBVIOUS
<1>7. k = Takes(i) /\ Puts(c, i) = <<"any">> /\ k = Reads(i)
  BY <1>4, <1>6 DEF Takes, Puts, Reads
<1>8. k \in 0 .. Len(c.stack)
  BY <1>4, <1>7
<1>9. PICK args : args = LastN(Arg)
  OBVIOUS
<1>10. Computes("getelems", args, k)
  BY <1>4, <1>6, <1>9 DEF Getelems
<1>11. "getelems" \in Events /\ "getelems" \notin {"getattr", "setattr"}
  BY DEF Events
<1> QED
  BY <1>1, <1>2, <1>4, <1>5, <1>7, <1>8, <1>10, <1>11, ComputesSound

LEMMA SetelemsSound ==
  ASSUME NEW U, Now(U), prog \in Programs, Setelems
  PROVE  Then
<1>1. PICK i : i = Executed(frames)
  OBVIOUS
<1>2. PICK c : c = Current(frames)
  OBVIOUS
<1>3. At({"SETELEMS"})
  BY DEF Setelems
<1>4. /\ i.op = "SETELEMS" /\ mode = "exec" /\ Reads(i) \in 0 .. Len(c.stack) /\ Arg = i.arg
      /\ WellFormed(i) /\ Len(c.stack) \in Nat
  BY <1>1, <1>2, <1>3, Begun
<1>5. i.op \in Plainly /\ i.op \notin {"ASSV", "FINALLY_END"}
  BY <1>4 DEF Plainly, Ops
<1>6. PICK k : k = i.arg
  OBVIOUS
<1>7. k = Takes(i) /\ Puts(c, i) = <<"any">> /\ k = Reads(i) /\ k > 0
  BY <1>4, <1>6 DEF Takes, Puts, Reads, WellFormed
<1>8. k \in 0 .. Len(c.stack) /\ 0 \in 0 .. Len(c.stack) - 1
  BY <1>4, <1>7
<1>9. PICK args : args = LastN(Arg)
  OBVIOUS
<1>10. PICK kept : kept = Top(0)
  OBVIOUS
<1>11. kept \in U \cup {Null}
  BY <1>2, <1>4, <1>8, <1>10, OperandNow
<1>12. PICK b : b = Cropped(stk, k)
  OBVIOUS
<1>13. External("setelems", args, b, b, kept)
  BY <1>4, <1>6, <1>9, <1>10, <1>12, StackIs DEF Setelems
<1>14. "setelems" \in Events /\ "setelems" \notin {"getattr", "setattr"}
  BY DEF Events
<1> QED
  BY <1>1, <1>2, <1>4, <1>5, <1>7, <1>8, <1>11, <1>12, <1>13, <1>14, ExternalSound

LEMMA OperatorSound ==
  ASSUME NEW U, Now(U), prog \in Programs, Operator
  PROVE  Then
<1>1. PICK i : i = Executed(frames)
  OBVIOUS
<1>2. PICK c : c = Current(frames)
  OBVIOUS
<1>3. At({"BOP", "UOP"})
  BY DEF Operator, At
<1>4. /\ i.op \in {"BOP", "UOP"} /\ mode = "exec" /\ Reads(i) \in 0 .. Len(c.stack)
      /\ Op = i.op
  BY <1>1, <1>2, <1>3, Begun
<1>5. i.op \in Plainly /\ i.op \notin {"ASSV", "FINALLY_END"}
  BY <1>4 DEF Plainly, Ops
<1>6. PICK k : k = IF i.op = "BOP" THEN 2 ELSE 1
  OBVIOUS
<1>7. k = Takes(i) /\ Puts(c, i) = <<"any">> /\ k = Reads(i)
  BY <1>4, <1>6 DEF Takes, Puts, Reads
<1>8. k \in 0 .. Len(c.stack)
  BY <1>4, <1>7
<1>9. \E args : Computes("op", args, k)
  BY <1>4, <1>6 DEF Operator, At
<1>10. PICK args : Computes("op", args, k)
  BY <1>9
<1>11. "op" \in Events /\ "op" \notin {"getattr", "setattr"}
  BY DEF Events
<1> QED
  BY <1>1, <1>2, <1>4, <1>5, <1>7, <1>8, <1>10, <1>11, ComputesSound

-----------------------------------------------------------------------------
(* Values that are made *)

LEMMA PlainFits ==
  ASSUME NEW U, NEW fu, NEW v, Kind(v) \in Kinds,
         Kind(v) \notin Parted
  PROVE  Fit(U, fu, v)
BY DEF Fit, Iterable, Parted

LEMMA NotSound ==
  ASSUME NEW U, Now(U), Not
  PROVE  Then
<1>1. PICK i : i = Executed(frames)
  OBVIOUS
<1>2. PICK c : c = Current(frames)
  OBVIOUS
<1>3. At({"NOT"})
  BY DEF Not
<1>4. i.op = "NOT" /\ mode = "exec" /\ Reads(i) \in 0 .. Len(c.stack)
  BY <1>1, <1>2, <1>3, Begun
<1>5. i.op \in Plainly /\ i.op \notin {"ASSV", "FINALLY_END"}
  BY <1>4 DEF Plainly, Ops
<1>6. 1 = Takes(i) /\ Puts(c, i) = <<"any">> /\ 1 = Reads(i)
  BY <1>4 DEF Takes, Puts, Reads
<1>7. 1 \in 0 .. Len(c.stack)
  BY <1>4, <1>6
<1>8. PICK b : b = Cropped(stk, 1)
  OBVIOUS
<1>9. b = Under(1)
  BY <1>8, StackIs
<1>10. CASE TruthThrows(Top(0))
  <2>1. Fails("Error", b)
    BY <1>9, <1>10 DEF Not
  <2>2. 1 \in 0 .. Len(Current(frames).stack)
    BY <1>2, <1>7
  <2> QED
    BY <1>4, <1>8, <2>1, <2>2, FailedNow
<1>11. CASE ~TruthThrows(Top(0))
  <2>1. PICK v : v = Bool(~Truthy(Top(0)))
    OBVIOUS
  <2>2. Pushes(v, b)
    BY <1>9, <1>11, <2>1 DEF Not
  <2>3. Kind(v) \in {"true", "false"}
    BY <2>1 DEF Bool, Kind
  <2>4. Kind(v) \in Kinds /\ Kind(v) \notin Parted
    BY <2>3 DEF Kinds, Parted
  <2>5. Fit(U, funcs, v)
    BY <2>4, PlainFits
  <2>6. "any" \in Shapes /\ IsA("any", v)
    BY <2>5, KindIs
  <2> QED
    BY <1>1, <1>2, <1>4, <1>5, <1>6, <1>7, <1>8, <2>2, <2>5, <2>6, PushesPlain
<1> QED
  BY <1>10, <1>11

LEMMA SliceSound ==
  ASSUME NEW U, Now(U), Slice
  PROVE  Then
<1>1. PICK i : i = Executed(frames)
  OBVIOUS
<1>2. PICK c : c = Current(frames)
  OBVIOUS
<1>3. At({"SLICE"})
  BY DEF Slice
<1>4. i.op = "SLICE" /\ mode = "exec" /\ Reads(i) \in 0 .. Len(c.stack)
  BY <1>1, <1>2, <1>3, Begun
<1>5. i.op \in Plainly /\ i.op \notin {"ASSV", "FINALLY_END"}
  BY <1>4 DEF Plainly, Ops
<1>6. 3 = Takes(i) /\ Puts(c, i) = <<"any">> /\ 3 = Reads(i)
  BY <1>4 DEF Takes, Puts, Reads
<1>7. 3 \in 0 .. Len(c.stack)
  BY <1>4, <1>6
<1>8. PICK b : b = Cropped(stk, 3)
  OBVIOUS
<1>9. PICK v : v = <<"slice", LastN(3)>>
  OBVIOUS
<1>10. Pushes(v, b)
  BY <1>8, <1>9, StackIs DEF Slice
<1>11. Kind(v) = "slice"
  BY <1>9 DEF Kind
<1>12. Kind(v) \in Kinds /\ Kind(v) \notin Parted
  BY <1>11 DEF Kinds, Parted
<1>13. Fit(U, funcs, v)
  BY <1>12, PlainFits
<1>14. "any" \in Shapes /\ IsA("any", v)
  BY <1>13, KindIs
<1> QED
  BY <1>1, <1>2, <1>4, <1>5, <1>6, <1>7, <1>8, <1>10, <1>13, <1>14, PushesPlain

LEMMA ExtendedHas ==
  ASSUME NEW U, NEW kind, kind \in Kinds, NEW old \in Seq(U),
         NEW v, v = <<kind, old>>, NEW elems \in Seq(U), NEW w, w = Extended(v, elems)
  PROVE  /\ Kind(w) = kind /\ w[2] \in Seq(U)
         /\ \A k \in Shapes : kind \in {"list", "tuple", "set"} /\ IsA(k, v) => IsA(k, w)
<1>1. Kind(v) = kind /\ v[2] = old
  BY DEF Kind
<1>2. old \o elems \in Seq(U) /\ WithoutRepeats(old \o elems) \in Seq(U)
  <2>1. PICK both : both = old \o elems
    OBVIOUS
  <2>2. both \in Seq(U)
    BY <2>1, ConcatProperties
  <2> QED
    BY <2>1, <2>2, WithoutRepeatsIs
<1>3. Kind(w) = kind /\ w[2] = IF kind = "set" THEN WithoutRepeats(old \o elems) ELSE old \o elems
  BY <1>1 DEF Extended, Kind
<1>4. w[2] \in Seq(U)
  BY <1>2, <1>3
<1>6. ASSUME NEW k \in Shapes, kind \in {"list", "tuple", "set"}, IsA(k, v)
      PROVE  IsA(k, w)
  <2>1. CASE k # "list+"
    BY <1>1, <1>3, <1>6, <2>1 DEF IsA
  <2>2. CASE k = "list+"
    <3>1. "list+" \notin Kinds
      BY DEF Kinds
    <3>2. kind = "list" /\ old # <<>>
      BY <1>1, <1>6, <2>2, <3>1 DEF IsA
    <3>3. Len(old) \in Nat /\ Len(old) # 0 /\ Len(elems) \in Nat
      BY <3>2, LenProperties, EmptySeq
    <3>4. Len(old \o elems) = Len(old) + Len(elems)
      BY ConcatProperties
    <3>5. old \o elems # <<>>
      BY <3>3, <3>4, EmptySeq
    <3> QED
      BY <1>3, <2>2, <3>2, <3>5 DEF IsA
  <2> QED
    BY <2>1, <2>2
<1> QED
  BY <1>3, <1>4, <1>6

LEMMA KeysIs ==
  ASSUME NEW S, NEW s \in Seq(S)
  PROVE  Keys(s) \in Seq(S)
<1>1. Len(s) \in Nat /\ \A i \in 1 .. Len(s) : s[i] \in S
  BY SeqIs
<1>2. PICK n \in Nat : n = Len(s) \div 2 /\ 2 * n <= Len(s)
  BY <1>1
<1>3. \A i \in 1 .. n : 2 * i - 1 \in 1 .. Len(s)
  BY <1>1, <1>2
<1>4. \A i \in 1 .. n : s[2 * i - 1] \in S
  BY <1>1, <1>3
<1>5. [i \in 1 .. n |-> s[2 * i - 1]] \in Seq(S)
  BY <1>4
<1> QED
  BY <1>2, <1>5 DEF Keys

LEMMA ExtendedFits ==
  ASSUME NEW U, NEW fu, NEW kind \in {"list", "tuple", "set", "dict"}, NEW old \in Seq(U),
         NEW v, v = <<kind, old>>, NEW elems \in Seq(U), NEW w, w = Extended(v, elems)
  PROVE  Fit(U, fu, w)
<1>1. kind \in Kinds /\ kind \notin {"none", "str", "code", "func"}
  BY DEF Kinds
<1>2. Kind(w) = kind /\ w[2] \in Seq(U)
  BY <1>1, ExtendedHas
<1>3. Elements(w) \in Seq(U)
  <2>1. CASE kind = "dict"
    <3>1. PICK keys : keys = Keys(w[2])
      OBVIOUS
    <3>2. keys \in Seq(U)
      BY <1>2, <3>1, KeysIs
    <3>3. WithoutRepeats(keys) \in Seq(U)
      BY <3>2, WithoutRepeatsIs
    <3>4. Elements(w) = WithoutRepeats(keys)
      BY <1>2, <2>1, <3>1 DEF Elements
    <3> QED
      BY <3>3, <3>4
  <2>2. CASE kind # "dict"
    BY <1>1, <1>2, <2>2 DEF Elements
  <2> QED
    BY <2>1, <2>2
<1> QED
  BY <1>1, <1>2, <1>3 DEF Fit

LEMMA ConstructSound ==
  ASSUME NEW U, Now(U), Construct
  PROVE  Then
<1>1. PICK i : i = Executed(frames)
  OBVIOUS
<1>2. PICK c : c = Current(frames)
  OBVIOUS
<1>3. At({"DISPLAY"})
  BY DEF Construct
<1>4. /\ i.op = "DISPLAY" /\ mode = "exec" /\ Reads(i) \in 0 .. Len(c.stack) /\ Arg = i.arg
      /\ Len(c.stack) \in Nat /\ Len(c.stack) \in 0 .. Len(stk) /\ WellFormed(i)
  BY <1>1, <1>2, <1>3, Begun
<1>5. i.op \in Plainly /\ i.op \notin {"ASSV", "FINALLY_END"}
  BY <1>4 DEF Plainly, Ops
<1>6. PICK n : n = i.arg[2]
  OBVIOUS
<1>7. PICK kind : kind = i.arg[1]
  OBVIOUS
<1>8. PICK k : k = IF kind = "list" /\ n > 0 THEN "list+" ELSE kind
  OBVIOUS
<1>9. n = Takes(i) /\ Puts(c, i) = <<k>> /\ n = Reads(i)
  BY <1>4, <1>6, <1>7, <1>8 DEF Takes, Puts, Reads
<1>10. n \in 0 .. Len(c.stack) /\ n \in 0 .. Len(stk) /\ Len(stk) \in Nat
  BY <1>4, <1>9, StackIs
<1>11. PICK elems : elems = LastN(n)
  OBVIOUS
<1>12. elems \in Seq(U) /\ Len(elems) = n
  BY <1>10, <1>11, LastIs
<1>13. kind \in {"list", "tuple", "set", "dict"}
  BY <1>4, <1>7 DEF WellFormed
<1>14. kind \in Kinds \ {"code", "func"} /\ kind \in Shapes /\ "list+" \in Shapes /\ k \in Shapes
  BY <1>8, <1>13 DEF Kinds, Shapes
<1>15. PICK old : old = <<>>
  OBVIOUS
<1>16. old \in Seq(U)
  BY <1>15
<1>17. PICK v : v = <<kind, old>>
  OBVIOUS
<1>18. PICK w : w = Extended(v, elems)
  OBVIOUS
<1>19. w = Display(Arg[1], LastN(Arg[2]))
  BY <1>4, <1>6, <1>7, <1>11, <1>15, <1>17, <1>18 DEF Display
<1>20. Fit(U, funcs, w) /\ Kind(w) = kind /\ (kind # "set" => w[2] = old \o elems)
  <2>1. kind \in Kinds /\ elems \in Seq(U)
    BY <1>12, <1>14
  <2>2. Fit(U, funcs, w)
    BY <1>13, <1>16, <1>17, <1>18, <2>1, ExtendedFits
  <2>3. Kind(w) = kind /\ w[2] \in Seq(U)
    BY <1>16, <1>17, <1>18, <2>1, ExtendedHas
  <2>4. kind # "set" => w[2] = old \o elems
    BY <1>17, <1>18 DEF Extended, Kind
  <2> QED
    BY <2>2, <2>3, <2>4
<1>21. IsA(k, w)
  <2>1. CASE kind = "list" /\ n > 0
    <3>1. w[2] = elems
      BY <1>12, <1>15, <1>20, <2>1, ConcatEmptySeq
    <3>2. elems # <<>>
      BY <1>12, <2>1, EmptySeq
    <3> QED
      BY <1>8, <1>20, <2>1, <3>1, <3>2 DEF IsA
  <2>2. CASE ~(kind = "list" /\ n > 0)
    BY <1>8, <1>13, <1>20, <2>2 DEF IsA
  <2> QED
    BY <2>1, <2>2
<1>22. PICK b : b = Cropped(stk, n)
  OBVIOUS
<1>23. CASE Fails("TypeError", b)
  <2>1. n \in 0 .. Len(Current(frames).stack)
    BY <1>2, <1>10
  <2> QED
    BY <1>4, <1>22, <1>23, <2>1, FailedNow
<1>24. CASE Pushes(w, b)
  BY <1>1, <1>2, <1>4, <1>5, <1>9, <1>10, <1>14, <1>20, <1>21, <1>22, <1>24, PushesPlain
<1>25. Fails("TypeError", b) \/ Pushes(w, b)
  BY <1>4, <1>6, <1>19, <1>22, StackIs DEF Construct
<1> QED
  BY <1>23, <1>24, <1>25

LEMMA AcceptedIs ==
  ASSUME NEW U, NEW elems \in Seq(U), NEW kind \in {"list", "tuple", "set"}, Refused(kind, elems)
  PROVE  Accepted(elems) \in Seq(U)
<1>1. Len(elems) \in Nat /\ DOMAIN elems = 1 .. Len(elems)
  BY SeqIs
<1>2. PICK hashed : hashed = Hashed(kind, elems)
  OBVIOUS
<1>3. PICK v \in ToSet(hashed) : ~Hashable(v)
  BY <1>2 DEF Refused
<1>4. hashed = elems
  <2>1. ToSet(<<>>) = {}
    BY DEF ToSet
  <2>2. hashed # <<>>
    BY <1>3, <2>1
  <2> QED
    BY <1>2, <2>2 DEF Hashed
<1>5. PICK i \in 1 .. Len(elems) : ~Hashable(elems[i])
  BY <1>1, <1>3, <1>4 DEF ToSet
<1>6. PICK refused : refused = {l \in DOMAIN elems : ~Hashable(elems[l])}
  OBVIOUS
<1>7. refused \in SUBSET (1 .. Len(elems)) /\ refused # {}
  BY <1>1, <1>5, <1>6
<1>8. PICK j : j = CHOOSE l \in refused : \A k \in refused : l <= k
  OBVIOUS
<1>9. j \in 1 .. Len(elems)
  BY <1>1, <1>7, <1>8, LeastIs
<1>10. Accepted(elems) = SubSeq(elems, 1, j - 1)
  BY <1>6, <1>8 DEF Accepted, Min
<1>11. j - 1 \in Int /\ 0 <= j - 1 /\ j - 1 <= Len(elems)
  BY <1>1, <1>9
<1> QED
  BY <1>10, <1>11, FrontSub

(* More values for the n-th object from the top *)
LEMMA ExtendsSound ==
  ASSUME NEW U, Now(U), mode = "exec",
         NEW i, i = Executed(frames), i.op \in Plainly, i.op \notin {"ASSV", "FINALLY_END"},
         Arg[1] \in {"list", "tuple", "set"}, NEW c, c = Current(frames),
         NEW n \in 0 .. Len(c.stack) - 1, n + 1 = Takes(i), Len(c.stack) \in Nat,
         Suits(Arg[1], Peek(c, n)), Puts(c, i) = <<Peek(c, n)>>,
         NEW elems \in Seq(U), Extends(n, elems)
  PROVE  Then
<1>1. PICK v : v = Top(n)
  OBVIOUS
<1>2. PICK k : k = Peek(c, n)
  OBVIOUS
<1>3. Fit(U, funcs, v) /\ IsA(k, v) /\ k \in Shapes
  BY <1>1, <1>2, OperandNow
<1>4. Kind(v) = Arg[1]
  <2>1. "any" \notin Kinds /\ "list+" \notin Kinds
    BY DEF Kinds
  <2>2. Arg[1] \in Kinds
    BY DEF Kinds
  <2> QED
    BY <1>2, <1>3, <2>1, <2>2 DEF Suits, IsA
<1>5. v[2] \in Seq(U)
  <2>1. Iterable(v) /\ Elements(v) = v[2]
    BY <1>4 DEF Iterable, Elements
  <2> QED
    BY <1>3, <2>1 DEF Fit
<1>6. PICK kind : kind = Arg[1]
  OBVIOUS
<1>7. kind \in {"list", "tuple", "set", "dict"} /\ kind \in {"list", "tuple", "set"} /\ kind \in Kinds
  BY <1>6 DEF Kinds
<1>8. PICK old : old = v[2]
  OBVIOUS
<1>9. PICK x : x = <<kind, old>>
  OBVIOUS
<1>10. old \in Seq(U)
  BY <1>5, <1>8
<1>11. Kind(x) = Kind(v) /\ x[2] = v[2]
  BY <1>4, <1>6, <1>8, <1>9 DEF Kind
<1>12. ASSUME NEW more \in Seq(U), NEW w, w = Extended(v, more)
       PROVE  Fit(U, funcs, w) /\ IsA(k, w)
  <2>1. w = Extended(x, more)
    BY <1>11, <1>12 DEF Extended
  <2>2. IsA(k, x)
    BY <1>3, <1>11 DEF IsA
  <2>3. Fit(U, funcs, w)
    BY <1>7, <1>9, <1>10, <2>1, ExtendedFits
  <2>4. k \in Shapes
    BY <1>3
  <2>5. IsA(k, w)
    BY <1>7, <1>9, <1>10, <2>1, <2>2, <2>4, ExtendedHas
  <2> QED
    BY <2>3, <2>5
<1>13. PICK m : m = n + 1
  OBVIOUS
<1>14. PICK b : b = Cropped(stk, m)
  OBVIOUS
<1>15. b = Under(n + 1)
  BY <1>13, <1>14, StackIs
<1>16. m \in 0 .. Len(c.stack) /\ m = Takes(i) /\ Puts(c, i) = <<k>>
  BY <1>2, <1>13
<1>17. CASE Refused(Arg[1], elems)
  <2>1. PICK w : w = Extended(v, Accepted(elems))
    OBVIOUS
  <2>2. Accepted(elems) \in Seq(U)
    BY <1>7, <1>6, <1>17, AcceptedIs
  <2>3. Fit(U, funcs, w)
    BY <1>12, <2>1, <2>2
  <2>4. PICK V : V = U \cup {w}
    OBVIOUS
  <2>5. Now(V)
    BY <2>3, <2>4, NowGrown
  <2>6. PICK vals : vals = <<w>>
    OBVIOUS
  <2>7. vals \in Seq(V) /\ Len(vals) \in Nat
    BY <2>4, <2>6
  <2>8. stk \in Seq(V) /\ m \in 0 .. Len(stk) /\ m \in 0 .. Len(Current(frames).stack)
    BY <1>16, <2>5, StackIs, AtWork, OperandIs DEF Now
  <2>9. b \o vals \in Seq(V) /\ Swapped(stk, b \o vals, m, vals)
    BY <1>14, <2>7, <2>8, UnderIs
  <2>10. b \in Seq(V)
    BY <1>14, <2>8, PopIs
  <2>11. Append(b, w) = b \o vals
    BY <2>6, <2>10, EmptyIs
  <2>12. Fails("TypeError", Append(b, w))
    BY <1>1, <1>4, <1>15, <1>17, <2>1 DEF Extends
  <2>13. PICK st2 : st2 = Append(b, w)
    OBVIOUS
  <2>14. st2 \in Seq(V) /\ Swapped(stk, st2, m, vals) /\ Fails("TypeError", st2)
    BY <2>9, <2>11, <2>12, <2>13
  <2> QED
    BY <2>5, <2>7, <2>8, <2>14, FailedWith
<1>18. CASE ~Refused(Arg[1], elems)
  <2>1. PICK w : w = Extended(v, elems)
    OBVIOUS
  <2>2. Fit(U, funcs, w) /\ IsA(k, w)
    BY <1>12, <2>1
  <2>3. Pushes(w, b)
    BY <1>1, <1>4, <1>15, <1>18, <2>1 DEF Extends
  <2> QED
    BY <1>3, <1>14, <1>16, <2>2, <2>3, PushesPlain
<1> QED
  BY <1>17, <1>18

LEMMA PushnSound ==
  ASSUME NEW U, Now(U), Pushn
  PROVE  Then
<1>1. PICK i : i = Executed(frames)
  OBVIOUS
<1>2. PICK c : c = Current(frames)
  OBVIOUS
<1>3. At({"PUSHN"})
  BY DEF Pushn
<1>4. /\ i.op = "PUSHN" /\ mode = "exec" /\ Reads(i) \in 0 .. Len(c.stack) /\ Arg = i.arg
      /\ Len(c.stack) \in Nat /\ Len(c.stack) \in 0 .. Len(stk) /\ WellFormed(i) /\ Ready(c, i)
  BY <1>1, <1>2, <1>3, Begun
<1>5. i.op \in Plainly /\ i.op \notin {"ASSV", "FINALLY_END"}
  BY <1>4 DEF Plainly, Ops
<1>6. PICK n : n = i.arg[2]
  OBVIOUS
<1>7. n + 1 = Takes(i) /\ n + 1 = Reads(i) /\ Puts(c, i) = <<Peek(c, n)>>
  BY <1>4, <1>6 DEF Takes, Puts, Reads
<1>8. Arg[1] \in {"list", "tuple"} /\ n \in Nat /\ Suits(Arg[1], Peek(c, n))
  BY <1>4, <1>6 DEF WellFormed, Ready
<1>9. n \in 0 .. Len(c.stack) - 1 /\ n \in 0 .. Len(stk)
  BY <1>4, <1>7, <1>8, StackIs
<1>10. PICK elems : elems = SubSeq(LastN(n), 1, n)
  OBVIOUS
<1>11. elems \in Seq(U)
  <2>1. LastN(n) \in Seq(U) /\ Len(LastN(n)) = n
    BY <1>9, LastIs
  <2> QED
    BY <1>10, <2>1, SubSeqFull
<1>12. Extends(n, elems)
  BY <1>4, <1>6, <1>8, <1>10 DEF Pushn
<1> QED
  BY <1>1, <1>2, <1>4, <1>5, <1>7, <1>8, <1>9, <1>11, <1>12, ExtendsSound

LEMMA PushiSound ==
  ASSUME NEW U, Now(U), Pushi
  PROVE  Then
<1>1. PICK i : i = Executed(frames)
  OBVIOUS
<1>2. PICK c : c = Current(frames)
  OBVIOUS
<1>3. At({"PUSHI"})
  BY DEF Pushi
<1>4. /\ i.op = "PUSHI" /\ mode = "exec" /\ Reads(i) \in 0 .. Len(c.stack) /\ Arg = i.arg
      /\ Len(c.stack) \in Nat /\ WellFormed(i) /\ Ready(c, i)
  BY <1>1, <1>2, <1>3, Begun
<1>5. i.op \in Plainly /\ i.op \notin {"ASSV", "FINALLY_END"}
  BY <1>4 DEF Plainly, Ops
<1>6. 2 = Takes(i) /\ 2 = Reads(i) /\ Puts(c, i) = <<Peek(c, 1)>>
  BY <1>4 DEF Takes, Puts, Reads
<1>7. Arg[1] \in {"list", "tuple", "set"} /\ Suits(Arg[1], Peek(c, 1))
  BY <1>4 DEF WellFormed, Ready
<1>8. /\ 1 \in 0 .. Len(c.stack) /\ 1 \in 0 .. Len(c.stack) - 1 /\ 0 \in 0 .. Len(c.stack) - 1
      /\ 1 + 1 = Takes(i)
  BY <1>4, <1>6
<1>9. CASE Iterable(Top(0))
  <2>1. PICK elems : elems = Elements(Top(0))
    OBVIOUS
  <2>2. Fit(U, funcs, Top(0))
    BY <1>2, <1>4, <1>8, OperandNow
  <2>3. elems \in Seq(U)
    BY <1>9, <2>1, <2>2 DEF Fit
  <2>4. Extends(1, elems)
    BY <1>9, <2>1 DEF Pushi
  <2> QED
    BY <1>1, <1>2, <1>4, <1>5, <1>6, <1>7, <1>8, <2>3, <2>4, ExtendsSound
<1>10. CASE ~Iterable(Top(0))
  <2>1. PICK b : b = Cropped(stk, 1)
    OBVIOUS
  <2>2. Fails("Error", b)
    BY <1>10, <2>1, StackIs DEF Pushi
  <2>3. 1 \in 0 .. Len(Current(frames).stack)
    BY <1>2, <1>8
  <2> QED
    BY <1>4, <2>1, <2>2, <2>3, FailedNow
<1> QED
  BY <1>9, <1>10

LEMMA AssertSound ==
  ASSUME NEW U, Now(U), Assert_
  PROVE  Then
<1>1. PICK i : i = Executed(frames)
  OBVIOUS
<1>2. PICK c : c = Current(frames)
  OBVIOUS
<1>3. At({"ASSERT"})
  BY DEF Assert_
<1>4. i.op = "ASSERT" /\ mode = "exec" /\ Reads(i) \in 0 .. Len(c.stack)
  BY <1>1, <1>2, <1>3, Begun
<1>5. i.op \in Plainly /\ i.op \notin {"ASSV", "FINALLY_END"}
  BY <1>4 DEF Plainly, Ops
<1>6. 1 = Takes(i) /\ Puts(c, i) = <<>> /\ 1 = Reads(i)
  BY <1>4 DEF Takes, Puts, Reads
<1>7. 1 \in 0 .. Len(c.stack) /\ 1 \in 0 .. Len(Current(frames).stack)
  BY <1>2, <1>4, <1>6
<1>8. PICK b : b = Cropped(stk, 1)
  OBVIOUS
<1>9. b = Under(1)
  BY <1>8, StackIs
<1>10. CASE \E type : Fails(type, b)
  BY <1>4, <1>7, <1>8, <1>10, FailedNow
<1>11. CASE Proceeds(b) /\ Plain
  BY <1>1, <1>2, <1>4, <1>5, <1>6, <1>7, <1>8, <1>11, DropsPlain
<1>12. (\E type : Fails(type, b)) \/ (Proceeds(b) /\ Plain)
  BY <1>9 DEF Assert_
<1> QED
  BY <1>10, <1>11, <1>12

LEMMA ThrowSound ==
  ASSUME NEW U, Now(U), Throw_
  PROVE  Then
<1>1. PICK i : i = Executed(frames)
  OBVIOUS
<1>2. PICK c : c = Current(frames)
  OBVIOUS
<1>3. At({"THROW"})
  BY DEF Throw_
<1>4. i.op = "THROW" /\ mode = "exec" /\ Reads(i) \in 0 .. Len(c.stack)
  BY <1>1, <1>2, <1>3, Begun
<1>5. 1 = Reads(i)
  BY <1>4 DEF Reads
<1>6. 1 \in 0 .. Len(Current(frames).stack)
  BY <1>2, <1>4, <1>5
<1>7. PICK b : b = Cropped(stk, 1)
  OBVIOUS
<1>8. b = Under(1)
  BY <1>7, StackIs
<1>9. \E type : Fails(type, b)
  BY <1>8 DEF Throw_
<1> QED
  BY <1>4, <1>6, <1>7, <1>9, FailedNow

LEMMA ForStartSound ==
  ASSUME NEW U, Now(U), ForStart
  PROVE  Then
<1>1. PICK i : i = Executed(frames)
  OBVIOUS
<1>2. PICK c : c = Current(frames)
  OBVIOUS
<1>3. At({"FOR_START"})
  BY DEF ForStart
<1>4. i.op = "FOR_START" /\ mode = "exec" /\ Reads(i) \in 0 .. Len(c.stack) /\ Len(c.stack) \in Nat
  BY <1>1, <1>2, <1>3, Begun
<1>5. i.op \in Plainly /\ i.op \notin {"ASSV", "FINALLY_END"}
  BY <1>4 DEF Plainly, Ops
<1>6. 1 = Takes(i) /\ Puts(c, i) = <<"any">> /\ 1 = Reads(i)
  BY <1>4 DEF Takes, Puts, Reads
<1>7. 1 \in 0 .. Len(c.stack) /\ 0 \in 0 .. Len(c.stack) - 1 /\ 1 \in 0 .. Len(Current(frames).stack)
  BY <1>2, <1>4, <1>6
<1>8. PICK b : b = Cropped(stk, 1)
  OBVIOUS
<1>9. b = Under(1)
  BY <1>8, StackIs
<1>10. CASE ~Iterable(Top(0))
  <2>1. Fails("Error", b)
    BY <1>9, <1>10 DEF ForStart
  <2> QED
    BY <1>4, <1>7, <1>8, <2>1, FailedNow
<1>11. CASE Iterable(Top(0))
  <2>1. PICK v : v = Iterator(Top(0))
    OBVIOUS
  <2>2. Pushes(v, b)
    BY <1>9, <1>11, <2>1 DEF ForStart
  <2>3. v = Top(0) \/ Kind(v) = "iter"
    BY <2>1 DEF Iterator, Kind
  <2>4. Kind(v) = "iter" => Kind(v) \in Kinds /\ Kind(v) \notin Parted
    BY DEF Kinds, Parted
  <2>7. Fit(U, funcs, Top(0))
    BY <1>2, <1>4, <1>7, OperandNow
  <2>5. Fit(U, funcs, v)
    BY <2>3, <2>4, <2>7, PlainFits
  <2>6. "any" \in Shapes /\ IsA("any", v)
    BY <2>5, KindIs
  <2> QED
    BY <1>1, <1>2, <1>4, <1>5, <1>6, <1>7, <1>8, <2>2, <2>5, <2>6, PushesPlain
<1> QED
  BY <1>10, <1>11

LEMMA FinallyEndSound ==
  ASSUME NEW U, Now(U), FinallyEnd
  PROVE  Then
<1>1. PICK i : i = Executed(frames)
  OBVIOUS
<1>2. PICK c : c = Current(frames)
  OBVIOUS
<1>3. At({"FINALLY_END"})
  BY DEF FinallyEnd
<1>4. i.op = "FINALLY_END" /\ mode = "exec" /\ Reads(i) \in 0 .. Len(c.stack) /\ Len(c.stack) \in Nat
  BY <1>1, <1>2, <1>3, Begun
<1>5. i.op \in Plainly /\ i.op # "ASSV"
  BY <1>4 DEF Plainly, Ops
<1>6. 0 = Takes(i) /\ Puts(c, i) = <<>> /\ Pending(c, i) = "none"
  BY <1>4 DEF Takes, Puts, Reads, Pending
<1>7. 0 \in 0 .. Len(c.stack) /\ 0 \in 0 .. Len(Current(frames).stack) /\ stk = Cropped(stk, 0)
  BY <1>2, <1>4, StackIs
<1>8. handlers \in Seq(Handlers) /\ exc \in U \cup {Null}
  BY HandlersIs
<1>9. CASE exc # Null
  <2>1. PICK e2 : e2 = exc
    OBVIOUS
  <2>2. e2 # Null /\ Fit(U, funcs, e2)
    BY <1>8, <1>9, <2>1, FitNow
  <2>3. Raises(e2, stk) /\ UNCHANGED <<envs, funcs>>
    BY <1>9, <2>1 DEF FinallyEnd, heap
  <2> QED
    BY <1>4, <1>7, <2>2, <2>3, RaisedNow
<1>10. CASE exc = Null
  <2>1. Proceeds(stk) /\ UNCHANGED <<exc, envs, funcs, assv>>
    BY <1>10 DEF FinallyEnd, Plain, heap
  <2>2. Excepts(Pending(c, i), exc')
    BY <1>6, <1>10, <2>1 DEF Excepts
  <2>3. /\ frames' \in Seq(FrameIn(U, Len(envs))) /\ stk' \in Seq(U) /\ handlers' = handlers
        /\ Controlled(frames', stk', handlers', exc', assv', mode')
    BY <1>1, <1>2, <1>4, <1>5, <1>6, <1>7, <2>1, <2>2, LeftNow
  <2>4. handlers' \in Seq(Handlers) /\ exc' \in U \cup {Null}
    BY <1>8, <2>1, <2>3
  <2> QED
    BY <2>1, <2>3, <2>4, TypedThen
<1> QED
  BY <1>9, <1>10

LEMMA ImportSound ==
  ASSUME NEW U, Now(U), prog \in Programs, Import
  PROVE  Then
<1>1. PICK i : i = Executed(frames)
  OBVIOUS
<1>2. PICK c : c = Current(frames)
  OBVIOUS
<1>3. At({"IMPORT"})
  BY DEF Import
<1>4. /\ i.op = "IMPORT" /\ mode = "exec" /\ Reads(i) \in 0 .. Len(c.stack) /\ Arg = i.arg
      /\ Len(c.stack) \in Nat /\ c \in States
  BY <1>1, <1>2, <1>3, Begun
<1>5. i.op \in Plainly /\ i.op # "ASSV"
  BY <1>4 DEF Plainly, Ops
<1>6. 0 = Takes(i) /\ Puts(c, i) = <<"any">>
  BY <1>4 DEF Takes, Puts, Reads
<1>7. 0 \in 0 .. Len(c.stack) /\ 0 \in 0 .. Len(Current(frames).stack) /\ stk = Cropped(stk, 0)
  BY <1>2, <1>4, StackIs
<1>8. UNCHANGED <<envs, funcs, assv>>
  BY DEF Import, heap
<1>9. PICK mod \in Outcomes("import", 0), sub \in Outcomes("import", 1) :
          IF mod.thrown THEN Raises(mod.val, stk)
          ELSE /\ Proceeds(Append(stk, mod.val))
               /\ exc' = IF Len(Arg) > 1 /\ ~mod.thrown /\ sub.thrown THEN sub.val ELSE exc
  BY DEF Import
<1>10. "import" \in Events
  BY DEF Events
<1>11. PICK m : m = mod.val
  OBVIOUS
<1>12. m \in U /\ Fit(U, funcs, m) /\ (mod.thrown => m # Null)
  BY <1>10, <1>11, OutcomeIs
<1>13. sub.val \in U /\ (sub.thrown => sub.val # Null)
  BY <1>10, OutcomeIs
<1>14. CASE mod.thrown
  <2>1. Raises(m, stk) /\ m # Null
    BY <1>9, <1>11, <1>12, <1>14
  <2> QED
    BY <1>4, <1>7, <1>8, <1>12, <2>1, RaisedNow
<1>15. CASE ~mod.thrown
  <2>1. Proceeds(Append(stk, m))
    BY <1>9, <1>11, <1>15
  <2>2. PICK e2 : e2 = exc'
    OBVIOUS
  <2>3. e2 = IF Len(i.arg) > 1 /\ sub.thrown THEN sub.val ELSE exc
    BY <1>4, <1>9, <1>15, <2>2
  <2>4. Excepts(c.exc, exc) /\ Excepts(Pending(c, i), exc) /\ exc \in U \cup {Null}
    BY <1>2, <1>4, PendingNow, HandlersIs
  <2>5. sub.thrown => MayFail("import")
    <3>1. sub \in Results(prog)["import"].free \cup {Results(prog)["import"].calm}
      BY DEF Outcomes
    <3> QED
      BY <3>1 DEF MayFail
  <2>6. Excepts(Pending(c, i), e2)
    <3>1. CASE Len(i.arg) > 1 /\ sub.thrown
      <4>1. Pending(c, i) = IF c.exc = "none" THEN "maybe" ELSE c.exc
        BY <1>4, <2>5, <3>1 DEF Pending
      <4>2. Pending(c, i) \in {"some", "maybe"}
        BY <1>4, <4>1 DEF States
      <4> QED
        BY <1>13, <2>3, <3>1, <4>2 DEF Excepts
    <3>2. CASE ~(Len(i.arg) > 1 /\ sub.thrown)
      BY <2>3, <2>4, <3>2
    <3> QED
      BY <3>1, <3>2
  <2>7. e2 \in U \cup {Null}
    BY <1>13, <2>3, <2>4
  <2>8. Excepts(Pending(c, i), exc') /\ exc' \in U \cup {Null}
    BY <2>2, <2>6, <2>7
  <2>9. "any" \in Shapes /\ IsA("any", m)
    BY <1>12, KindIs
  <2> QED
    BY <1>1, <1>2, <1>4, <1>5, <1>6, <1>7, <1>8, <1>12, <2>1, <2>8, <2>9, PushedOne
<1> QED
  BY <1>14, <1>15

LEMMA AnysIs ==
  ASSUME NEW n \in Nat, NEW S, NEW vals \in Seq(S), Len(vals) = n,
         NEW puts, puts = [j \in 1 .. n |-> "any"]
  PROVE  puts \in Seq(Shapes) /\ Matches(puts, vals)
<1>1. "any" \in Shapes
  BY DEF Shapes
<1>2. puts \in Seq(Shapes) /\ Len(puts) = n /\ \A j \in 1 .. n : puts[j] = "any"
  BY <1>1
<1> QED
  BY <1>2 DEF Matches, IsA

(* s has n elements: values there have been and maybe a new one *)
Parts(U, fu, s, n) == \E v : Fit(U, fu, v) /\ s \in Seq(U \cup {v}) /\ Len(s) = n

LEMMA UnpackedFits ==
  ASSUME NEW U, NEW fu, NEW s \in Seq(U), NEW n \in Nat, NEW star \in Stars(n),
         ~UnpackFails(s, n, star), NEW un, un = Unpacked(s, n, star)
  PROVE  Parts(U, fu, un, n)
<1>4. Listed(U, un, n)
  BY UnpackedIs
<1>5. PICK rest \in Seq(U) : un \in Seq(U \cup {<<"list", rest>>}) /\ Len(un) = n
  BY <1>4 DEF Listed
<1>6. Fit(U, fu, <<"list", rest>>)
  BY DEF Fit, Kind, Kinds, Elements
<1> QED
  BY <1>5, <1>6 DEF Parts

LEMMA AssmSound ==
  ASSUME NEW U, Now(U), Assm
  PROVE  Then
<1>1. PICK i : i = Executed(frames)
  OBVIOUS
<1>2. PICK c : c = Current(frames)
  OBVIOUS
<1>3. At({"ASSM"})
  BY DEF Assm
<1>4. /\ i.op = "ASSM" /\ mode = "exec" /\ Reads(i) \in 0 .. Len(c.stack) /\ Arg = i.arg
      /\ Len(c.stack) \in Nat /\ WellFormed(i) /\ Ready(c, i)
      /\ Working(U, frames, stk, handlers, exc, assv, envs, funcs)
  BY <1>1, <1>2, <1>3, Begun
<1>5. i.op \in Plainly /\ i.op \notin {"ASSV", "FINALLY_END"}
  BY <1>4 DEF Plainly, Ops
<1>6. PICK n : n = i.arg
  OBVIOUS
<1>7. PICK puts : puts = [j \in 1 .. n |-> "any"]
  OBVIOUS
<1>8. 0 = Takes(i) /\ 1 = Reads(i) /\ puts = Puts(c, i)
  BY <1>4, <1>6, <1>7 DEF Takes, Puts, Reads
<1>9. n \in Nat
  BY <1>4, <1>6 DEF WellFormed
<1>10. /\ 0 \in 0 .. Len(c.stack) /\ 0 \in 0 .. Len(c.stack) - 1
       /\ 0 \in 0 .. Len(Current(frames).stack) /\ stk = Cropped(stk, 0)
  BY <1>2, <1>4, <1>8, StackIs
<1>11. assv \in -1 .. n - 1
  <2>1. PICK k \in -1 .. n - 1 : c.star = <<k>>
    BY <1>4, <1>6 DEF Ready
  <2>2. c.star = <<>> \/ c.star = <<assv>>
    BY <1>2, <1>4, WorkingIs DEF In
  <2>3. <<k>>[1] = k /\ <<k>> # <<>> /\ <<assv>>[1] = assv
    OBVIOUS
  <2>4. <<k>> = <<assv>>
    BY <2>1, <2>2, <2>3
  <2> QED
    BY <2>3, <2>4
<1>12. CASE ~Iterable(Top(0)) \/ UnpackFails(Elements(Top(0)), Arg, assv)
  <2>1. Fails("Error", stk)
    BY <1>12 DEF Assm
  <2> QED
    BY <1>4, <1>10, <2>1, FailedNow
<1>13. CASE Iterable(Top(0)) /\ ~UnpackFails(Elements(Top(0)), Arg, assv)
  <2>1. PICK elems : elems = Elements(Top(0))
    OBVIOUS
  <2>2. Fit(U, funcs, Top(0))
    BY <1>2, <1>4, <1>10, OperandNow
  <2>3. elems \in Seq(U)
    BY <1>13, <2>1, <2>2 DEF Fit
  <2>6. PICK star : star = assv
    OBVIOUS
  <2>7. star \in Stars(n)
    BY <1>11, <2>6 DEF Stars
  <2>8. ~UnpackFails(elems, n, star)
    BY <1>4, <1>6, <1>13, <2>1, <2>6
  <2>13. PICK un : un = Unpacked(elems, n, star)
    OBVIOUS
  <2>9. PICK list : Fit(U, funcs, list) /\ un \in Seq(U \cup {list}) /\ Len(un) = n
    <3>1. Parts(U, funcs, un, n)
      BY <1>9, <2>3, <2>7, <2>8, <2>13, UnpackedFits
    <3> QED
      BY <3>1 DEF Parts
  <2>11. PICK V : V = U \cup {list}
    OBVIOUS
  <2>12. Now(V)
    BY <2>9, <2>11, NowGrown
  <2>14. un \in Seq(V) /\ Len(un) = n
    BY <2>9, <2>11
  <2>15. PICK vals : vals = Reverse(un)
    OBVIOUS
  <2>16. vals \in Seq(V) /\ Len(vals) = n
    BY <2>14, <2>15, ReversedIs
  <2>17. puts \in Seq(Shapes) /\ Matches(puts, vals)
    BY <1>7, <1>9, <2>16, AnysIs
  <2>18. Proceeds(stk \o vals) /\ UNCHANGED <<exc, envs, funcs>>
    BY <1>4, <1>6, <1>13, <2>1, <2>6, <2>13, <2>15 DEF Assm, heap
  <2> QED
    BY <1>1, <1>2, <1>4, <1>5, <1>8, <1>10, <2>12, <2>16, <2>17, <2>18, PlacesPlain
<1> QED
  BY <1>12, <1>13

-----------------------------------------------------------------------------
(* Jumps and exceptions *)

LEMMA HoldingIs ==
  ASSUME NEW s \in States, NEW stack, NEW pending, NEW t, t = Holding(s, stack, pending)
  PROVE  /\ t.stack = stack /\ t.exc = pending /\ t.star = <<>>
         /\ t.whole = s.whole /\ t.tries = s.tries
BY DEF Holding, States

LEMMA FlowedNow ==
  ASSUME NEW U, Now(U), mode = "exec",
         NEW i, i = Executed(frames), NEW c, c = Current(frames),
         NEW k \in 0 .. Len(c.stack), NEW puts \in Seq(Shapes), NEW vals \in Seq(U),
         Matches(puts, vals), NEW b, b = Cropped(stk, k),
         NEW l, NEW s, <<l, s>> \in Flows(i, Behind(frames), c),
         s.stack = Cropped(c.stack, k) \o puts, s.whole = c.whole, s.tries = c.tries, s.star = <<>>,
         Excepts(s.exc, exc'), exc' \in U \cup {Null}, UNCHANGED <<envs, funcs, handlers>>,
         frames' = Going(frames, l), stk' = b \o vals, mode' = "exec"
  PROVE  Then
<1>1. Working(U, frames, stk, handlers, exc, assv, envs, funcs)
  BY AtWork DEF Now
<1>2. PICK st2 : st2 = b \o vals
  OBVIOUS
<1>3. PICK gs : gs = Going(frames, l)
  OBVIOUS
<1>4. stk \in Seq(U) /\ k \in 0 .. Len(stk)
  BY <1>1, WorkingIs, OperandIs
<1>5. st2 \in Seq(U) /\ Swapped(stk, st2, k, vals)
  BY <1>2, <1>4, UnderIs
<1>6. PICK e2 : e2 = exc'
  OBVIOUS
<1>7. PICK av2 : av2 = assv'
  OBVIOUS
<1>8. Excepts(s.exc, e2) /\ (s.star = <<>> \/ s.star = <<av2>>)
  BY <1>6
<1>9. /\ k \in 0 .. Len(Current(frames).stack)
      /\ <<l, s>> \in Flows(Executed(frames), Behind(frames), Current(frames))
      /\ s.stack = Cropped(Current(frames).stack, k) \o puts
      /\ s.whole = Current(frames).whole /\ s.tries = Current(frames).tries
  OBVIOUS
<1>10. gs \in Seq(FrameIn(U, Len(envs))) /\ Controlled(gs, st2, handlers, e2, av2, "exec")
  BY <1>1, <1>3, <1>5, <1>8, <1>9, Flowed
<1>11. /\ frames' \in Seq(FrameIn(U, Len(envs))) /\ stk' \in Seq(U)
       /\ Controlled(frames', stk', handlers', exc', assv', mode')
  BY <1>2, <1>3, <1>5, <1>6, <1>7, <1>10
<1>12. handlers' \in Seq(Handlers)
  BY HandlersIs
<1> QED
  BY <1>11, <1>12, TypedThen

LEMMA MatchesOne2 ==
  ASSUME NEW U, NEW fu, NEW v, Fit(U, fu, v), v \in U, NEW puts, puts = <<"any">>,
         NEW vals, vals = <<v>>
  PROVE  puts \in Seq(Shapes) /\ vals \in Seq(U) /\ Matches(puts, vals)
<1>1. "any" \in Shapes /\ IsA("any", v)
  BY KindIs
<1> QED
  BY <1>1, MatchesOne

LEMMA NoneIs ==
  ASSUME NEW U, NEW none, none = <<>>
  PROVE  none \in Seq(Shapes) /\ none \in Seq(U) /\ Matches(none, none)
BY MatchesNone, EmptySeq

LEMMA StackShapes ==
  ASSUME NEW U, Now(U), mode = "exec", NEW c, c = Current(frames)
  PROVE  /\ c \in States /\ c.stack \in Seq(Shapes) /\ Cropped(c.stack, 0) = c.stack
         /\ \A k : Below(c, k) = Cropped(c.stack, k)
<1>1. Working(U, frames, stk, handlers, exc, assv, envs, funcs)
  BY AtWork DEF Now
<1>2. c \in States /\ c.stack \in Seq(Shapes)
  BY <1>1, WorkingIs DEF Outlined
<1> QED
  BY <1>2, EmptyIs DEF Below, Cropped

(* What jumps or not, and takes k operands from the stack *)
LEMMA JumpedNow ==
  ASSUME NEW U, Now(U), mode = "exec",
         NEW i, i = Executed(frames), i.op \in {"JMP", "JMPT", "JMPF"}, NEW c, c = Current(frames),
         NEW k, k = Takes(i), k \in 0 .. Len(c.stack), NEW b, b = Cropped(stk, k),
         NEW l, <<l, Moved(c, i)>> \in Flows(i, Behind(frames), c),
         frames' = Going(frames, l), stk' = b, mode' = "exec", handlers' = handlers, Plain
  PROVE  Then
<1>1. PICK none : none = <<>>
  OBVIOUS
<1>2. PICK s : s = Moved(c, i)
  OBVIOUS
<1>3. c \in States /\ c.stack \in Seq(Shapes)
  BY StackShapes
<1>4. Puts(c, i) = none /\ i.op # "ASSV" /\ i.op # "FINALLY_END"
  BY <1>1 DEF Puts
<1>5. /\ s.stack = Cropped(c.stack, k) \o none /\ s.whole = c.whole /\ s.tries = c.tries
      /\ s.exc = Pending(c, i) /\ s.star = <<>>
  BY <1>2, <1>3, <1>4, MovedIs
<1>6. none \in Seq(Shapes) /\ none \in Seq(U) /\ Matches(none, none)
  BY <1>1, NoneIs
<1>7. Excepts(s.exc, exc) /\ exc \in U \cup {Null}
  BY <1>4, <1>5, PendingNow, HandlersIs
<1>8. UNCHANGED <<exc, envs, funcs>>
  BY DEF Plain, heap
<1>9. Excepts(s.exc, exc') /\ exc' \in U \cup {Null} /\ UNCHANGED <<envs, funcs, handlers>>
  BY <1>7, <1>8
<1>10. stk' = b \o none
  <2>1. stk \in Seq(U) /\ k \in 0 .. Len(stk)
    <3>1. Working(U, frames, stk, handlers, exc, assv, envs, funcs)
      BY AtWork DEF Now
    <3> QED
      BY <3>1, WorkingIs, OperandIs
  <2>2. b \in Seq(U)
    BY <2>1, PopIs
  <2> QED
    BY <1>1, <2>2, ConcatEmptySeq
<1>11. <<l, s>> \in Flows(i, Behind(frames), c)
  BY <1>2
<1> QED
  BY <1>5, <1>6, <1>9, <1>10, <1>11, FlowedNow

LEMMA JmpSound ==
  ASSUME NEW U, Now(U), Jmp
  PROVE  Then
<1>1. PICK i : i = Executed(frames)
  OBVIOUS
<1>2. PICK c : c = Current(frames)
  OBVIOUS
<1>3. At({"JMP"})
  BY DEF Jmp
<1>4. i.op = "JMP" /\ mode = "exec" /\ Arg = i.arg /\ Len(c.stack) \in Nat
  BY <1>1, <1>2, <1>3, Begun
<1>5. 0 = Takes(i) /\ 0 \in 0 .. Len(c.stack) /\ stk = Cropped(stk, 0)
  BY <1>4, StackIs DEF Takes, Reads
<1>6. PICK by : by = Arg
  OBVIOUS
<1>7. PICK l : l = Behind(frames) + by
  OBVIOUS
<1>8. Goes(by, stk) /\ Plain
  BY <1>6 DEF Jmp
<1>9. frames' = Going(frames, l) /\ stk' = stk /\ mode' = "exec" /\ handlers' = handlers
  BY <1>4, <1>7, <1>8, WentOn
<1>10. <<l, Moved(c, i)>> \in Flows(i, Behind(frames), c)
  BY <1>4, <1>6, <1>7 DEF Flows
<1> QED
  BY <1>1, <1>2, <1>4, <1>5, <1>8, <1>9, <1>10, JumpedNow

LEMMA JmpIfSound ==
  ASSUME NEW U, Now(U), JmpIf
  PROVE  Then
<1>1. PICK i : i = Executed(frames)
  OBVIOUS
<1>2. PICK c : c = Current(frames)
  OBVIOUS
<1>3. At({"JMPT", "JMPF"})
  BY DEF JmpIf
<1>4. /\ i.op \in {"JMPT", "JMPF"} /\ mode = "exec" /\ Arg = i.arg /\ Len(c.stack) \in Nat
      /\ Reads(i) \in 0 .. Len(c.stack)
  BY <1>1, <1>2, <1>3, Begun
<1>5. 1 = Takes(i) /\ 1 = Reads(i)
  BY <1>4 DEF Takes, Reads
<1>6. 1 \in 0 .. Len(c.stack) /\ 1 \in 0 .. Len(Current(frames).stack)
  BY <1>2, <1>4, <1>5
<1>7. PICK b : b = Cropped(stk, 1)
  OBVIOUS
<1>8. b = Under(1)
  BY <1>7, StackIs
<1>9. CASE TruthThrows(Top(0))
  <2>1. Fails("Error", b)
    BY <1>8, <1>9 DEF JmpIf
  <2> QED
    BY <1>4, <1>6, <1>7, <2>1, FailedNow
<1>10. CASE ~TruthThrows(Top(0))
  <2>1. PICK by : by = IF Truthy(Top(0)) <=> Op = "JMPT" THEN Arg ELSE 0
    OBVIOUS
  <2>2. Goes(by, b) /\ Plain
    BY <1>8, <1>10, <2>1 DEF JmpIf
  <2>3. /\ frames' = Going(frames, Behind(frames) + by)
        /\ by = 0 => frames' = Going(frames, Behind(frames))
        /\ stk' = b /\ mode' = "exec" /\ handlers' = handlers
    BY <1>4, <2>2, WentOn
  <2>4. PICK l : frames' = Going(frames, l) /\ (l = Behind(frames) \/ l = Behind(frames) + i.arg)
    <3>1. by = Arg \/ by = 0
      BY <2>1
    <3> QED
      BY <1>4, <2>3, <3>1
  <2>5. <<l, Moved(c, i)>> \in Flows(i, Behind(frames), c)
    BY <1>4, <2>4 DEF Flows
  <2>6. i.op \in {"JMP", "JMPT", "JMPF"}
    BY <1>4
  <2> QED
    BY <1>1, <1>2, <1>4, <1>5, <1>6, <1>7, <2>2, <2>3, <2>4, <2>5, <2>6, JumpedNow
<1> QED
  BY <1>9, <1>10

(* One value is put on the stack in place of k. *)
LEMMA HeldNow ==
  ASSUME NEW U, Now(U), mode = "exec",
         NEW i, i = Executed(frames), NEW c, c = Current(frames),
         NEW k \in 0 .. Len(c.stack), NEW b, b = Cropped(stk, k),
         NEW v \in U, NEW pending, NEW stack, stack = Append(Cropped(c.stack, k), "any"),
         NEW l, <<l, Holding(c, stack, pending)>> \in Flows(i, Behind(frames), c),
         Excepts(pending, exc'), exc' \in U \cup {Null}, UNCHANGED <<envs, funcs, handlers>>,
         frames' = Going(frames, l), stk' = Append(b, v), mode' = "exec"
  PROVE  Then
<1>1. PICK s : s = Holding(c, stack, pending)
  OBVIOUS
<1>2. c \in States /\ c.stack \in Seq(Shapes)
  BY StackShapes
<1>3. PICK puts : puts = <<"any">>
  OBVIOUS
<1>4. PICK vals : vals = <<v>>
  OBVIOUS
<1>5. puts \in Seq(Shapes) /\ vals \in Seq(U) /\ Matches(puts, vals)
  BY <1>3, <1>4, FitNow, MatchesOne2
<1>6. Cropped(c.stack, k) \in Seq(Shapes)
  BY <1>2, PopIs
<1>7. stack = Cropped(c.stack, k) \o puts
  BY <1>3, <1>6, EmptyIs
<1>8. /\ s.stack = Cropped(c.stack, k) \o puts /\ s.whole = c.whole /\ s.tries = c.tries
      /\ s.star = <<>> /\ s.exc = pending
  <2>1. /\ s.stack = stack /\ s.exc = pending /\ s.star = <<>>
        /\ s.whole = c.whole /\ s.tries = c.tries
    <3>1. ASSUME NEW u, NEW r, s = Holding(c, u, r)
          PROVE  s.stack = u /\ s.exc = r /\ s.star = <<>> /\ s.whole = c.whole /\ s.tries = c.tries
      BY <1>2, <3>1, HoldingIs
    <3> QED
      BY <1>1, <3>1
  <2> QED
    BY <1>7, <2>1
<1>9. stk' = b \o vals
  <2>1. stk \in Seq(U) /\ k \in 0 .. Len(stk)
    <3>1. Working(U, frames, stk, handlers, exc, assv, envs, funcs)
      BY AtWork DEF Now
    <3> QED
      BY <3>1, WorkingIs, OperandIs
  <2>2. b \in Seq(U)
    BY <2>1, PopIs
  <2> QED
    BY <1>4, <2>2, EmptyIs
<1>10. <<l, s>> \in Flows(i, Behind(frames), c) /\ Excepts(s.exc, exc')
  BY <1>1, <1>8
<1> QED
  BY <1>5, <1>8, <1>9, <1>10, FlowedNow

(* k values go. *)
LEMMA DroppedNow ==
  ASSUME NEW U, Now(U), mode = "exec",
         NEW i, i = Executed(frames), NEW c, c = Current(frames),
         NEW k \in 0 .. Len(c.stack), NEW b, b = Cropped(stk, k),
         NEW pending, NEW stack, stack = Cropped(c.stack, k),
         NEW l, <<l, Holding(c, stack, pending)>> \in Flows(i, Behind(frames), c),
         Excepts(pending, exc'), exc' \in U \cup {Null}, UNCHANGED <<envs, funcs, handlers>>,
         frames' = Going(frames, l), stk' = b, mode' = "exec"
  PROVE  Then
<1>1. PICK s : s = Holding(c, stack, pending)
  OBVIOUS
<1>2. c \in States /\ c.stack \in Seq(Shapes)
  BY StackShapes
<1>3. PICK none : none = <<>>
  OBVIOUS
<1>5. none \in Seq(Shapes) /\ none \in Seq(U) /\ Matches(none, none)
  BY <1>3, NoneIs
<1>6. stack \in Seq(Shapes)
  BY <1>2, PopIs
<1>7. stack = Cropped(c.stack, k) \o none
  <2>1. stack \o <<>> = stack
    BY <1>6, ConcatEmptySeq
  <2> QED
    BY <1>3, <2>1
<1>8. /\ s.stack = Cropped(c.stack, k) \o none /\ s.whole = c.whole /\ s.tries = c.tries
      /\ s.star = <<>> /\ s.exc = pending
  <2>1. /\ s.stack = stack /\ s.exc = pending /\ s.star = <<>>
        /\ s.whole = c.whole /\ s.tries = c.tries
    BY <1>1, <1>2, HoldingIs
  <2> QED
    BY <1>7, <2>1
<1>9. stk' = b \o none
  <2>1. stk \in Seq(U) /\ k \in 0 .. Len(stk)
    <3>1. Working(U, frames, stk, handlers, exc, assv, envs, funcs)
      BY AtWork DEF Now
    <3> QED
      BY <3>1, WorkingIs, OperandIs
  <2>2. b \in Seq(U)
    BY <2>1, PopIs
  <2> QED
    BY <1>3, <2>2, ConcatEmptySeq
<1>10. <<l, s>> \in Flows(i, Behind(frames), c) /\ Excepts(s.exc, exc')
  BY <1>1, <1>8
<1> QED
  BY <1>5, <1>8, <1>9, <1>10, FlowedNow

LEMMA ForNextSound ==
  ASSUME NEW U, Now(U), prog \in Programs, ForNext
  PROVE  Then
<1>1. PICK i : i = Executed(frames)
  OBVIOUS
<1>2. PICK c : c = Current(frames)
  OBVIOUS
<1>3. At({"FOR_NEXTT", "FOR_NEXTF"})
  BY DEF ForNext
<1>4. /\ i.op \in {"FOR_NEXTT", "FOR_NEXTF"} /\ mode = "exec" /\ Arg = i.arg /\ Op = i.op
      /\ Len(c.stack) \in Nat /\ Reads(i) \in 0 .. Len(c.stack)
  BY <1>1, <1>2, <1>3, Begun
<1>5. 1 = Reads(i)
  BY <1>4 DEF Reads
<1>6. /\ 1 \in 0 .. Len(c.stack) /\ 0 \in 0 .. Len(c.stack) /\ 0 \in 0 .. Len(Current(frames).stack)
      /\ stk = Cropped(stk, 0)
  BY <1>2, <1>4, <1>5, StackIs
<1>7. Cropped(c.stack, 0) = c.stack /\ Below(c, 1) = Cropped(c.stack, 1)
  BY <1>2, <1>4, StackShapes
<1>8. PICK b : b = Cropped(stk, 1)
  OBVIOUS
<1>9. b = Under(1)
  BY <1>8, StackIs
<1>10. CASE ~Advances(Top(0))
  <2>1. Fails("Error", stk)
    BY <1>10 DEF ForNext
  <2> QED
    BY <1>4, <1>6, <2>1, FailedNow
<1>11. CASE Advances(Top(0))
  <2>1. PICK out \in Outcomes("next", 0) :
            IF out.thrown /\ out.val = RunsOut
            THEN Goes(IF Op = "FOR_NEXTF" THEN Arg ELSE 0, Under(1)) /\ exc' = Null
            ELSE IF out.thrown THEN Raises(out.val, stk)
            ELSE /\ Goes(IF Op = "FOR_NEXTT" THEN Arg ELSE 0, Append(stk, out.val))
                 /\ UNCHANGED exc
    BY <1>11 DEF ForNext
  <2>2. UNCHANGED <<envs, funcs, assv>>
    BY <1>11 DEF ForNext, heap
  <2>3. "next" \in Events
    BY DEF Events
  <2>4. PICK o : o = out.val
    OBVIOUS
  <2>5. o \in U /\ Fit(U, funcs, o) /\ (out.thrown => o # Null)
    BY <2>3, <2>4, OutcomeIs
  <2>6. CASE out.thrown /\ o = RunsOut
    <3>1. PICK by : by = IF Op = "FOR_NEXTF" THEN Arg ELSE 0
      OBVIOUS
    <3>2. Goes(by, b) /\ exc' = Null
      BY <1>9, <2>1, <2>4, <2>6, <3>1
    <3>3. /\ frames' = Going(frames, Behind(frames) + by)
          /\ by = 0 => frames' = Going(frames, Behind(frames))
          /\ stk' = b /\ mode' = "exec" /\ handlers' = handlers
      BY <1>4, <3>2, WentOn
    <3>4. PICK l : l = IF i.op = "FOR_NEXTF" THEN Behind(frames) + i.arg ELSE Behind(frames)
      OBVIOUS
    <3>5. frames' = Going(frames, l)
      BY <1>4, <3>1, <3>3, <3>4
    <3>6. PICK stack : stack = Cropped(c.stack, 1)
      OBVIOUS
    <3>7. <<l, Holding(c, stack, "none")>> \in Flows(i, Behind(frames), c)
      BY <1>4, <1>7, <3>4, <3>6 DEF Flows
    <3>8. Excepts("none", exc') /\ exc' \in U \cup {Null} /\ UNCHANGED <<envs, funcs, handlers>>
      BY <2>2, <3>2, <3>3 DEF Excepts
    <3> QED
      BY <1>1, <1>2, <1>4, <1>6, <1>8, <3>3, <3>5, <3>6, <3>7, <3>8, DroppedNow
  <2>7. CASE out.thrown /\ o # RunsOut
    <3>1. Raises(o, stk) /\ o # Null
      BY <2>1, <2>4, <2>5, <2>7
    <3> QED
      BY <1>4, <1>6, <2>2, <2>5, <3>1, RaisedNow
  <2>8. CASE ~out.thrown
    <3>1. PICK by : by = IF Op = "FOR_NEXTT" THEN Arg ELSE 0
      OBVIOUS
    <3>a. PICK st2 : st2 = Append(stk, o)
      OBVIOUS
    <3>2. Goes(by, st2) /\ exc' = exc
      BY <2>1, <2>4, <2>8, <3>1, <3>a
    <3>3. /\ frames' = Going(frames, Behind(frames) + by)
          /\ by = 0 => frames' = Going(frames, Behind(frames))
          /\ stk' = st2 /\ mode' = "exec" /\ handlers' = handlers
      BY <1>4, <3>2, WentOn
    <3>4. PICK l : l = IF i.op = "FOR_NEXTT" THEN Behind(frames) + i.arg ELSE Behind(frames)
      OBVIOUS
    <3>5. frames' = Going(frames, l)
      BY <1>4, <3>1, <3>3, <3>4
    <3>6. PICK stack : stack = Append(Cropped(c.stack, 0), "any")
      OBVIOUS
    <3>7. PICK pending : pending = c.exc
      OBVIOUS
    <3>8. <<l, Holding(c, stack, pending)>> \in Flows(i, Behind(frames), c)
      BY <1>4, <1>7, <3>4, <3>6, <3>7 DEF Flows
    <3>9. Excepts(c.exc, exc) /\ exc \in U \cup {Null}
      <4>1. i.op # "FINALLY_END"
        BY <1>4
      <4> QED
        BY <1>2, <1>4, <4>1, PendingNow, HandlersIs
    <3>10. Excepts(pending, exc') /\ exc' \in U \cup {Null} /\ UNCHANGED <<envs, funcs, handlers>>
      BY <2>2, <3>2, <3>3, <3>7, <3>9
    <3>11. stk' = Append(stk, o)
      BY <3>3, <3>a
    <3> QED
      BY <1>1, <1>2, <1>4, <1>6, <2>5, <3>3, <3>5, <3>6, <3>8, <3>10, <3>11, HeldNow
  <2> QED
    BY <2>6, <2>7, <2>8
<1> QED
  BY <1>10, <1>11

LEMMA CatchesSound ==
  ASSUME NEW U, Now(U), mode = "exec", exc # Null,
         NEW i, i = Executed(frames), NEW c, c = Current(frames),
         NEW k \in 0 .. Len(c.stack), NEW b, b = Cropped(stk, k),
         NEW stack, stack = Append(Cropped(c.stack, k), "any"), NEW by, Catches(by, b),
         NEW l, l = Behind(frames) + by \/ (by = 0 /\ l = Behind(frames)),
         <<l, Holding(c, stack, "none")>> \in Flows(i, Behind(frames), c)
  PROVE  Then
<1>1. PICK e : e = exc
  OBVIOUS
<1>2. e \in U
  BY <1>1, HandlersIs
<1>3. PICK st2 : st2 = Append(b, e)
  OBVIOUS
<1>4. Goes(by, st2) /\ exc' = Null /\ UNCHANGED <<envs, funcs>>
  BY <1>1, <1>3 DEF Catches, heap
<1>5. /\ frames' = Going(frames, Behind(frames) + by)
      /\ by = 0 => frames' = Going(frames, Behind(frames))
      /\ stk' = st2 /\ mode' = "exec" /\ handlers' = handlers
  BY <1>4, WentOn
<1>6. frames' = Going(frames, l)
  BY <1>5
<1>7. Excepts("none", exc') /\ exc' \in U \cup {Null} /\ UNCHANGED <<envs, funcs, handlers>>
  BY <1>4, <1>5 DEF Excepts
<1>8. stk' = Append(b, e)
  BY <1>3, <1>5
<1> QED
  BY <1>2, <1>5, <1>6, <1>7, <1>8, HeldNow

LEMMA TryCatchAllSound ==
  ASSUME NEW U, Now(U), TryCatchAll
  PROVE  Then
<1>1. PICK i : i = Executed(frames)
  OBVIOUS
<1>2. PICK c : c = Current(frames)
  OBVIOUS
<1>3. At({"TRY_CATCH_ALL"})
  BY DEF TryCatchAll
<1>4. i.op = "TRY_CATCH_ALL" /\ mode = "exec" /\ Arg = i.arg /\ Len(c.stack) \in Nat
  BY <1>1, <1>2, <1>3, Begun
<1>5. 0 \in 0 .. Len(c.stack) /\ stk = Cropped(stk, 0)
  BY <1>4, StackIs
<1>6. PICK by : by = Arg
  OBVIOUS
<1>7. Catches(by, stk) /\ exc # Null
  BY <1>6 DEF TryCatchAll
<1>8. PICK stack : stack = Append(Cropped(c.stack, 0), "any")
  OBVIOUS
<1>9. stack = Append(c.stack, "any")
  BY <1>2, <1>4, <1>8, StackShapes
<1>10. PICK l : l = Behind(frames) + by
  OBVIOUS
<1>11. <<l, Holding(c, stack, "none")>> \in Flows(i, Behind(frames), c)
  BY <1>4, <1>6, <1>9, <1>10 DEF Flows
<1> QED
  BY <1>1, <1>2, <1>4, <1>5, <1>7, <1>8, <1>10, <1>11, CatchesSound

LEMMA TryCatchSound ==
  ASSUME NEW U, Now(U), TryCatch
  PROVE  Then
<1>1. PICK i : i = Executed(frames)
  OBVIOUS
<1>2. PICK c : c = Current(frames)
  OBVIOUS
<1>3. At({"TRY_CATCH"})
  BY DEF TryCatch
<1>4. /\ i.op = "TRY_CATCH" /\ mode = "exec" /\ Arg = i.arg /\ Len(c.stack) \in Nat
      /\ Reads(i) \in 0 .. Len(c.stack)
  BY <1>1, <1>2, <1>3, Begun
<1>5. 1 = Reads(i)
  BY <1>4 DEF Reads
<1>6. 1 \in 0 .. Len(c.stack) /\ 1 \in 0 .. Len(Current(frames).stack)
  BY <1>2, <1>4, <1>5
<1>7. PICK b : b = Cropped(stk, 1)
  OBVIOUS
<1>8. b = Under(1)
  BY <1>7, StackIs
<1>9. Below(c, 1) = Cropped(c.stack, 1)
  BY <1>2, <1>4, StackShapes
<1>10. exc # Null
  BY DEF TryCatch
<1>11. \/ Catches(0, b)
       \/ Goes(Arg, b) /\ Plain
       \/ Fails("TypeError", b)
  <2>1. Verdict(Top(0), exc) \in {"malformed", "caught", "passed"}
    BY DEF Verdict
  <2> QED
    BY <1>8, <2>1 DEF TryCatch
<1>12. CASE Catches(0, b)
  <2>1. PICK stack : stack = Append(Cropped(c.stack, 1), "any")
    OBVIOUS
  <2>2. PICK l : l = Behind(frames)
    OBVIOUS
  <2>3. <<l, Holding(c, stack, "none")>> \in Flows(i, Behind(frames), c)
    BY <1>4, <1>9, <2>1, <2>2 DEF Flows
  <2>4. PICK by : by = 0
    OBVIOUS
  <2>5. Catches(by, b) /\ (l = Behind(frames) + by \/ (by = 0 /\ l = Behind(frames)))
    BY <1>12, <2>2, <2>4
  <2> QED
    BY <1>1, <1>2, <1>4, <1>6, <1>7, <1>10, <2>1, <2>3, <2>5, CatchesSound
<1>13. CASE Goes(Arg, b) /\ Plain
  <2>1. PICK stack : stack = Cropped(c.stack, 1)
    OBVIOUS
  <2>2. PICK by : by = Arg
    OBVIOUS
  <2>3. PICK l : l = Behind(frames) + by
    OBVIOUS
  <2>4. PICK pending : pending = c.exc
    OBVIOUS
  <2>5. <<l, Holding(c, stack, pending)>> \in Flows(i, Behind(frames), c)
    BY <1>4, <1>9, <2>1, <2>2, <2>3, <2>4 DEF Flows
  <2>6. Goes(by, b)
    BY <1>13, <2>2
  <2>7. frames' = Going(frames, l) /\ stk' = b /\ mode' = "exec" /\ handlers' = handlers
    BY <1>4, <2>3, <2>6, WentOn
  <2>8. Excepts(c.exc, exc) /\ exc \in U \cup {Null}
    <3>1. i.op # "FINALLY_END"
      BY <1>4
    <3> QED
      BY <1>2, <1>4, <3>1, PendingNow, HandlersIs
  <2>9. Excepts(pending, exc') /\ exc' \in U \cup {Null} /\ UNCHANGED <<envs, funcs, handlers>>
    BY <1>13, <2>4, <2>7, <2>8 DEF Plain, heap
  <2> QED
    BY <1>1, <1>2, <1>4, <1>6, <1>7, <2>1, <2>5, <2>7, <2>9, DroppedNow
<1>14. CASE Fails("TypeError", b)
  BY <1>4, <1>6, <1>7, <1>14, FailedNow
<1> QED
  BY <1>11, <1>12, <1>13, <1>14

-----------------------------------------------------------------------------
(* Handlers *)

LEMMA FrameNow ==
  ASSUME NEW U, Now(U), mode = "exec", NEW c, c = Current(frames), NEW f, f = Inner(frames)
  PROVE  /\ Working(U, frames, stk, handlers, exc, assv, envs, funcs)
         /\ c \in States /\ stk \in Seq(U) /\ f.ssl \in Nat /\ f.snh \in Nat /\ f.pc \in Nat
         /\ f.code \in DOMAIN Code /\ f.scope \in Seq(1 .. Len(envs)) /\ f.func \in U
         /\ handlers \in Seq(Handlers) /\ Len(handlers) \in Nat /\ Len(stk) \in Nat
         /\ In(c, f, stk, handlers, exc, assv) /\ f.snh <= Len(handlers)
<1>1. Working(U, frames, stk, handlers, exc, assv, envs, funcs)
  BY AtWork DEF Now
<1>2. /\ c \in States /\ stk \in Seq(U) /\ f.ssl \in Nat /\ f.snh \in Nat /\ f.pc \in Nat
      /\ f.code \in DOMAIN Code /\ f \in FrameIn(U, Len(envs)) /\ Outlined(c)
      /\ handlers \in Seq(Handlers) /\ Len(handlers) \in Nat /\ Len(stk) \in Nat
      /\ In(c, f, stk, handlers, exc, assv)
  BY <1>1, WorkingIs
<1>3. f.scope \in Seq(1 .. Len(envs)) /\ f.func \in U
  BY <1>2 DEF FrameIn
<1>4. Len(handlers) = f.snh + Len(c.tries) /\ Len(c.tries) \in Nat
  BY <1>2, OutlinedIs DEF In
<1> QED
  BY <1>1, <1>2, <1>3, <1>4

LEMMA ThenArrived ==
  ASSUME NEW U, Now(U), mode = "exec",
         NEW l, NEW s, <<l, s>> \in Flows(Executed(frames), Behind(frames), Current(frames)),
         Outlined(s), s.whole \in BOOLEAN, handlers' \in Seq(Handlers),
         In(s, Inner(frames), stk, handlers', exc, assv),
         Same(handlers, handlers', Inner(frames).snh), Inner(frames).snh <= Len(handlers'),
         frames' = Going(frames, l), stk' = stk, mode' = "exec", Plain
  PROVE  Then
<1>1. PICK hs2 : hs2 = handlers'
  OBVIOUS
<1>2. PICK gs : gs = Going(frames, l)
  OBVIOUS
<1>3. Working(U, frames, stk, handlers, exc, assv, envs, funcs) /\ stk \in Seq(U)
  BY FrameNow
<1>4. /\ hs2 \in Seq(Handlers) /\ In(s, Inner(frames), stk, hs2, exc, assv)
      /\ Same(handlers, hs2, Inner(frames).snh) /\ Inner(frames).snh <= Len(hs2)
  BY <1>1
<1>5. Same(stk, stk, Inner(frames).ssl)
  BY DEF Same
<1>6. gs \in Seq(FrameIn(U, Len(envs))) /\ Controlled(gs, stk, hs2, exc, assv, "exec")
  BY <1>2, <1>3, <1>4, <1>5, Arrived
<1>7. UNCHANGED <<exc, envs, funcs, assv>>
  BY DEF Plain, heap
<1>8. /\ frames' \in Seq(FrameIn(U, Len(envs))) /\ stk' \in Seq(U)
      /\ Controlled(frames', stk', handlers', exc', assv', mode')
  BY <1>1, <1>2, <1>3, <1>6, <1>7
<1>9. exc' \in U \cup {Null}
  BY <1>7, HandlersIs
<1> QED
  BY <1>7, <1>8, <1>9, TypedThen

Lengthened(S, s, t, v) ==
    t \in Seq(S) /\ Len(t) = Len(s) + 1 /\ Same(s, t, Len(s)) /\ t[Len(s) + 1] = v

LEMMA AppendIs ==
  ASSUME NEW S, NEW s \in Seq(S), NEW v \in S, NEW t, t = Append(s, v)
  PROVE  Lengthened(S, s, t, v)
BY AppendProperties DEF Same, Lengthened

LEMMA TargetIs ==
  ASSUME NEW U, NEW fs, NEW st, NEW hs, NEW e, NEW av, NEW es, NEW fu,
         Working(U, fs, st, hs, e, av, es, fu), NEW to, NEW l,
         <<l, Tried(Current(fs), to)>> \in Flows(Executed(fs), Behind(fs), Current(fs))
  PROVE  to \in Nat
<1>1. PICK c : c = Current(fs)
  OBVIOUS
<1>2. c \in States /\ Outlined(c)
  BY <1>1, WorkingIs
<1>3. PICK s : s = Tried(c, to)
  OBVIOUS
<1>4. PICK t : t = Plan[Inner(fs).code][l]
  OBVIOUS
<1>5. Agrees(t, s) /\ Outlined(t)
  BY <1>1, <1>3, <1>4, FlowIs
<1>6. Len(c.tries) \in Nat /\ c.tries \in Seq([to : Nat, stack : Seq(Shapes), whole : BOOLEAN])
  BY <1>2, OutlinedIs DEF Outlined
<1>7. s.tries = Append(c.tries, [to |-> to, stack |-> c.stack, whole |-> c.whole])
  BY <1>2, <1>3 DEF Tried, States
<1>8. PICK k : k = Len(c.tries) + 1
  OBVIOUS
<1>9. k \in Nat \ {0} /\ Len(s.tries) = k /\ s.tries[k].to = to
  BY <1>6, <1>7, <1>8
<1>10. Len(t.tries) = k /\ t.tries \in Seq([to : Nat, stack : Seq(Shapes), whole : BOOLEAN])
  BY <1>5, <1>9 DEF Agrees, Outlined
<1>11. k \in DOMAIN t.tries /\ t.tries[k] \in [to : Nat, stack : Seq(Shapes), whole : BOOLEAN]
  <2>1. PICK T : T = [to : Nat, stack : Seq(Shapes), whole : BOOLEAN]
    OBVIOUS
  <2>2. PICK ts \in Seq(T) : ts = t.tries
    BY <1>10, <2>1
  <2>3. Len(ts) = k /\ k \in 1 .. k
    BY <1>9, <1>10, <2>2
  <2>4. k \in DOMAIN ts /\ ts[k] \in T
    BY <2>3, SeqIs
  <2> QED
    BY <2>1, <2>2, <2>4
<1>12. t.tries[k].to = s.tries[k].to
  BY <1>5, <1>11 DEF Agrees
<1> QED
  BY <1>9, <1>11, <1>12

LEMMA TryStartSound ==
  ASSUME NEW U, Now(U), TryStart
  PROVE  Then
<1>1. PICK i : i = Executed(frames)
  OBVIOUS
<1>2. PICK c : c = Current(frames)
  OBVIOUS
<1>3. At({"TRY_START"})
  BY DEF TryStart
<1>4. i.op = "TRY_START" /\ mode = "exec" /\ Arg = i.arg /\ Op = i.op /\ Frame = Inner(frames)
  BY <1>1, <1>2, <1>3, Begun
<1>5. PICK f : f = Inner(frames)
  OBVIOUS
<1>6. PICK to : to = Behind(frames) + i.arg
  OBVIOUS
<1>7. PICK l : l = Behind(frames)
  OBVIOUS
<1>8. PICK s : s = Tried(c, to)
  OBVIOUS
<1>9. <<l, s>> \in Flows(Executed(frames), Behind(frames), Current(frames))
  BY <1>1, <1>2, <1>4, <1>6, <1>7, <1>8 DEF Flows
<1>10. /\ Working(U, frames, stk, handlers, exc, assv, envs, funcs)
       /\ c \in States /\ stk \in Seq(U) /\ f.ssl \in Nat /\ f.snh \in Nat
       /\ f.code \in DOMAIN Code /\ f.snh <= Len(handlers)
       /\ handlers \in Seq(Handlers) /\ Len(handlers) \in Nat /\ Len(stk) \in Nat
       /\ In(c, f, stk, handlers, exc, assv)
  BY <1>2, <1>4, <1>5, FrameNow
<1>11. to \in Nat
  BY <1>2, <1>8, <1>9, <1>10, TargetIs
<1>12. PICK h : h = [code |-> f.code, to |-> to, len |-> Len(stk)]
  OBVIOUS
<1>13. h \in Handlers
  BY <1>10, <1>11, <1>12 DEF Handlers
<1>14. PICK hs2 : hs2 = Append(handlers, h)
  OBVIOUS
<1>15. /\ hs2 \in Seq(Handlers) /\ Len(hs2) = Len(handlers) + 1
       /\ Same(handlers, hs2, Len(handlers)) /\ hs2[Len(handlers) + 1] = h
  <2>1. Lengthened(Handlers, handlers, hs2, h)
    BY <1>10, <1>13, <1>14, AppendIs
  <2> QED
    BY <2>1 DEF Lengthened
<1>16. handlers' = hs2
  BY <1>1, <1>4, <1>5, <1>6, <1>12, <1>14 DEF TryStart, Behind
<1>17. In(s, f, stk, hs2, exc, assv) /\ Outlined(s) /\ s.whole \in BOOLEAN
  BY <1>8, <1>10, <1>11, <1>12, <1>15, TryStarted
<1>18. Same(handlers, hs2, f.snh) /\ f.snh <= Len(hs2)
  BY <1>10, <1>15, Shorter
<1>19. frames' = Going(frames, l) /\ stk' = stk /\ mode' = "exec" /\ Plain
  <2>1. Advanced(0) = Going(frames, l)
    <3>1. Advanced(0) = [frames EXCEPT ![Len(frames)].pc = @ + Size(Executed(frames).op) + 0]
      BY <1>4, AtWork DEF Now
    <3> QED
      BY <1>7, <1>10, <3>1, GoingIs
  <2> QED
    BY <1>4, <2>1 DEF TryStart
<1>20. /\ handlers' \in Seq(Handlers) /\ In(s, Inner(frames), stk, handlers', exc, assv)
       /\ Same(handlers, handlers', Inner(frames).snh) /\ Inner(frames).snh <= Len(handlers')
  BY <1>5, <1>15, <1>16, <1>17, <1>18
<1> QED
  BY <1>4, <1>9, <1>17, <1>19, <1>20, ThenArrived

LEMMA FrontCuts ==
  ASSUME NEW S, NEW s \in Seq(S), s # <<>>, NEW t, t = Front(s)
  PROVE  t \in Seq(S) /\ Cut(s, t, Len(s) - 1)
BY FrontIs DEF Cut, Same

LEMMA TryEndSound ==
  ASSUME NEW U, Now(U), TryEnd
  PROVE  Then
<1>1. PICK i : i = Executed(frames)
  OBVIOUS
<1>2. PICK c : c = Current(frames)
  OBVIOUS
<1>3. At({"TRY_END"})
  BY DEF TryEnd
<1>4. i.op = "TRY_END" /\ mode = "exec" /\ Arg = i.arg /\ Ready(c, i)
  BY <1>1, <1>2, <1>3, Begun
<1>5. PICK f : f = Inner(frames)
  OBVIOUS
<1>6. PICK by : by = Arg
  OBVIOUS
<1>7. PICK l : l = Behind(frames) + by
  OBVIOUS
<1>8. PICK s : s = Joined(c)
  OBVIOUS
<1>9. <<l, s>> \in Flows(Executed(frames), Behind(frames), Current(frames))
  BY <1>1, <1>2, <1>4, <1>6, <1>7, <1>8 DEF Flows
<1>10. /\ Working(U, frames, stk, handlers, exc, assv, envs, funcs)
       /\ c \in States /\ stk \in Seq(U) /\ f.ssl \in Nat /\ f.snh \in Nat
       /\ handlers \in Seq(Handlers) /\ In(c, f, stk, handlers, exc, assv)
  BY <1>2, <1>4, <1>5, FrameNow
<1>11. c.tries # <<>>
  BY <1>4 DEF Ready
<1>12. PICK hs2 : hs2 = Front(handlers)
  OBVIOUS
<1>13. hs2 \in Seq(Handlers) /\ Cut(handlers, hs2, Len(handlers) - 1)
  BY <1>10, <1>12, FrontCuts DEF TryEnd
<1>14. /\ In(s, f, stk, hs2, exc, assv) /\ Outlined(s) /\ s.whole \in BOOLEAN
       /\ Same(handlers, hs2, f.snh) /\ f.snh <= Len(hs2)
  BY <1>8, <1>10, <1>11, <1>13, TryEnded
<1>15. handlers' = hs2
  BY <1>12 DEF TryEnd
<1>16. frames' = Going(frames, l) /\ stk' = stk /\ mode' = "exec" /\ Plain
  <2>1. Advanced(by) = Going(frames, l)
    <3>1. Advanced(by) = [frames EXCEPT ![Len(frames)].pc = @ + Size(Executed(frames).op) + by]
      BY <1>4, AtWork DEF Now
    <3> QED
      BY <1>7, <1>10, <3>1, GoingIs
  <2> QED
    BY <1>4, <1>6, <2>1 DEF TryEnd
<1>17. /\ handlers' \in Seq(Handlers) /\ In(s, Inner(frames), stk, handlers', exc, assv)
       /\ Same(handlers, handlers', Inner(frames).snh) /\ Inner(frames).snh <= Len(handlers')
  BY <1>5, <1>13, <1>14, <1>15
<1> QED
  BY <1>4, <1>9, <1>14, <1>16, <1>17, ThenArrived

-----------------------------------------------------------------------------
(* The way out of a frame *)

LEMMA TrimIs ==
  ASSUME NEW S, NEW s \in Seq(S), NEW n \in Nat, n <= Len(s), NEW t, t = Trim(s, n)
  PROVE  t \in Seq(S) /\ Cut(s, t, n)
<1>1. Len(s) \in Nat
  BY LenProperties
<1>2. (IF Len(s) > n THEN n ELSE Len(s)) = n
  BY <1>1
<1>3. t = SubSeq(s, 1, n)
  BY <1>2 DEF Trim
<1>4. SubSeq(s, 1, n) \in Seq(S) /\ Len(SubSeq(s, 1, n)) = n /\ \A i \in 1 .. n : SubSeq(s, 1, n)[i] = s[i]
  BY <1>1, FrontSub
<1> QED
  BY <1>3, <1>4 DEF Cut, Same

LEMMA FallingIs ==
  ASSUME NEW U, Now(U), mode = "thrown", NEW c, c = Current(frames), NEW f, f = Inner(frames)
  PROVE  /\ frames \in Seq(FrameIn(U, Len(envs))) /\ Len(envs) \in Nat /\ frames # <<>>
         /\ Len(frames) \in Nat \ {0} /\ Nested(frames, stk, handlers)
         /\ Frame = f /\ Depth = Len(frames) /\ f \in FrameIn(U, Len(envs))
         /\ f.code \in DOMAIN Code /\ f.pc \in DOMAIN Plan[f.code]
         /\ c \in States /\ Outlined(c)
         /\ f.ssl \in Nat /\ f.snh \in Nat /\ stk \in Seq(U) /\ Len(stk) \in Nat
         /\ handlers \in Seq(Handlers) /\ Len(handlers) \in Nat
         /\ Out(c, f, stk, handlers, exc) /\ Len(c.tries) \in Nat /\ f.snh <= Len(handlers)
<1>1. /\ frames \in Seq(FrameIn(U, Len(envs))) /\ stk \in Seq(U) /\ handlers \in Seq(Handlers)
      /\ envs \in Seq(EnvIn(U))
  BY DEF Now, Typed
<1>2. /\ Nested(frames, stk, handlers) /\ frames # <<>>
      /\ Falls(frames[Len(frames)], stk, handlers, exc)
  BY DEF Now, Controlled
<1>3. Len(envs) \in Nat /\ Len(frames) \in Nat \ {0} /\ Len(stk) \in Nat /\ Len(handlers) \in Nat
  BY <1>1, <1>2, LenProperties, EmptySeq
<1>4. f \in FrameIn(U, Len(envs))
  BY <1>1, <1>3, SeqIs DEF Inner
<1>5. f.code \in DOMAIN Code /\ f.ssl \in Nat /\ f.snh \in Nat
  BY <1>3, <1>4, FrameIs
<1>6. f.pc \in DOMAIN Plan[f.code] /\ Out(c, f, stk, handlers, exc)
  BY <1>2 DEF Falls, Inner, Current
<1>7. c \in States /\ Outlined(c)
  BY <1>5, <1>6, CertifiedAt DEF Current, Planned
<1>8. Len(c.tries) \in Nat /\ f.snh <= Len(handlers)
  <2>1. Len(handlers) = f.snh + Len(c.tries) /\ Len(c.tries) \in Nat
    BY <1>6, <1>7, OutlinedIs DEF Out
  <2> QED
    BY <1>5, <2>1
<1>9. Frame = f /\ Depth = Len(frames)
  BY DEF Frame, Depth, Inner
<1> QED
  BY <1>1, <1>2, <1>3, <1>4, <1>5, <1>6, <1>7, <1>8, <1>9

LEMMA HandleSound ==
  ASSUME NEW U, Now(U), Handle
  PROVE  Then
<1>1. mode = "thrown" /\ Len(handlers) > Frame.snh
  BY DEF Handle
<1>2. PICK c : c = Current(frames)
  OBVIOUS
<1>3. PICK f : f = Inner(frames)
  OBVIOUS
<1>4. /\ frames \in Seq(FrameIn(U, Len(envs))) /\ Len(envs) \in Nat /\ frames # <<>>
      /\ Nested(frames, stk, handlers) /\ Frame = f /\ Depth = Len(frames)
      /\ f.code \in DOMAIN Code /\ f.pc \in DOMAIN Plan[f.code] /\ c \in States /\ Outlined(c)
      /\ f.ssl \in Nat /\ f.snh \in Nat /\ stk \in Seq(U) /\ Len(stk) \in Nat
      /\ handlers \in Seq(Handlers) /\ Len(handlers) \in Nat
      /\ Out(c, f, stk, handlers, exc) /\ Len(c.tries) \in Nat
  BY <1>1, <1>2, <1>3, FallingIs
<1>5. Len(handlers) = f.snh + Len(c.tries)
  BY <1>4 DEF Out
<1>6. Len(c.tries) > 0
  BY <1>1, <1>4, <1>5
<1>7. c.tries # <<>>
  BY <1>6
<1>8. PICK last : last = handlers[Len(handlers)]
  OBVIOUS
<1>9. handlers # <<>>
  BY <1>1, <1>4
<1>10. last = Last(handlers) /\ last \in Handlers
  BY <1>4, <1>8, <1>9, FrontIs
<1>11. last.len \in Nat /\ last.len <= Len(stk)
  <2>1. Lowest(c, f, handlers) = handlers[f.snh + Len(c.tries)].len
    BY <1>4, <1>6 DEF Lowest, Mark
  <2>2. Lowest(c, f, handlers) <= Len(stk)
    BY <1>4 DEF Out
  <2> QED
    BY <1>5, <1>8, <1>10, <2>1, <2>2 DEF Handlers
<1>12. PICK st2 : st2 = Trim(stk, last.len)
  OBVIOUS
<1>13. st2 \in Seq(U) /\ Cut(stk, st2, handlers[Len(handlers)].len)
  BY <1>4, <1>8, <1>11, <1>12, TrimIs
<1>14. PICK hs2 : hs2 = Front(handlers)
  OBVIOUS
<1>15. hs2 \in Seq(Handlers) /\ Cut(handlers, hs2, Len(handlers) - 1)
  BY <1>4, <1>9, <1>14, FrontCuts
<1>16. PICK s : s = Caught(c)
  OBVIOUS
<1>17. /\ In(s, f, st2, hs2, exc, assv) /\ Outlined(s) /\ s.whole \in BOOLEAN
       /\ Same(stk, st2, f.ssl) /\ Same(handlers, hs2, f.snh) /\ f.snh <= Len(hs2)
       /\ handlers[Len(handlers)].code = f.code /\ handlers[Len(handlers)].to = Last(c.tries).to
  BY <1>4, <1>7, <1>13, <1>15, <1>16, Handled, ZenonT(60)
<1>18. PICK l : l = last.to
  OBVIOUS
<1>19. l \in DOMAIN Plan[f.code] /\ Agrees(Plan[f.code][l], s)
  <2>1. PICK flow : flow = <<l, s>>
    OBVIOUS
  <2>2. PICK p : p = f.code
    OBVIOUS
  <2>3. PICK at : at = f.pc
    OBVIOUS
  <2>4. c = Plan[p][at]
    BY <1>2, <1>3, <2>2, <2>3 DEF Current, Planned
  <2>5. flow \in AllFlows(Code[p][at], at + Size(Code[p][at].op), Plan[p][at])
    BY <1>7, <1>8, <1>16, <1>17, <1>18, <2>1, <2>4 DEF AllFlows
  <2>6. flow[1] \in DOMAIN Plan[p] /\ Agrees(Plan[p][flow[1]], flow[2])
    BY <1>4, <2>2, <2>3, <2>5, CertifiedAt
  <2> QED
    BY <2>1, <2>2, <2>6
<1>20. PICK gs : gs = Going(frames, l)
  OBVIOUS
<1>21. gs \in Seq(FrameIn(U, Len(envs))) /\ Controlled(gs, st2, hs2, exc, assv, "exec")
  <2>1. PICK n \in Nat : n = Len(envs)
    BY <1>4
  <2>2. frames \in Seq(FrameIn(U, n))
    BY <1>4, <2>1
  <2>3. /\ In(s, Inner(frames), st2, hs2, exc, assv) /\ Same(stk, st2, Inner(frames).ssl)
        /\ Same(handlers, hs2, Inner(frames).snh) /\ Inner(frames).snh <= Len(hs2)
        /\ l \in DOMAIN Plan[Inner(frames).code] /\ Agrees(Plan[Inner(frames).code][l], s)
    BY <1>3, <1>17, <1>19
  <2>4. gs \in Seq(FrameIn(U, n)) /\ Controlled(gs, st2, hs2, exc, assv, "exec")
    BY <1>4, <1>13, <1>15, <1>17, <1>20, <2>2, <2>3, ArrivedAt
  <2> QED
    BY <2>1, <2>4
<1>22. /\ frames' = gs /\ stk' = st2 /\ handlers' = hs2 /\ mode' = "exec"
       /\ UNCHANGED <<exc, envs, funcs, assv>>
  BY <1>3, <1>4, <1>8, <1>10, <1>12, <1>14, <1>17, <1>18, <1>20 DEF Handle, Plain, heap, Going
<1>23. exc' \in U \cup {Null}
  BY <1>22, HandlersIs
<1>24. /\ frames' \in Seq(FrameIn(U, Len(envs))) /\ stk' \in Seq(U) /\ handlers' \in Seq(Handlers)
       /\ Controlled(frames', stk', handlers', exc', assv', mode')
  BY <1>13, <1>15, <1>21, <1>22
<1> QED
  BY <1>22, <1>23, <1>24, TypedThen

LEMMA LeftFrame ==
  ASSUME NEW U, NEW n \in Nat, NEW fs \in Seq(FrameIn(U, n)), fs # <<>>,
         NEW hs \in Seq(Handlers), NEW st, Nested(fs, st, hs), Inner(fs).snh <= Len(hs),
         NEW st2, Same(st, st2, Inner(fs).ssl), NEW gs, gs = Front(fs)
  PROVE  /\ gs \in Seq(FrameIn(U, n)) /\ Nested(gs, st2, hs)
         /\ Len(fs) = 1 => gs = <<>>
         /\ Len(fs) # 1 => /\ gs # <<>> /\ Inner(gs) \in FrameIn(U, n)
                           /\ Suspended(Inner(gs), Inner(fs), st, hs)
<1>1. gs \in Seq(FrameIn(U, n)) /\ Cut(fs, gs, Len(fs) - 1) /\ Len(fs) \in Nat \ {0}
  BY FrontCuts, FrontIs
<1>2. Len(gs) = Len(fs) - 1
  BY <1>1 DEF Cut
<1>3. CASE Len(fs) = 1
  <2>1. gs = <<>>
    BY <1>1, <1>2, <1>3, EmptySeq
  <2>2. Nested(gs, st2, hs)
    BY <2>1 DEF Nested
  <2> QED
    BY <1>1, <1>3, <2>1, <2>2
<1>4. CASE Len(fs) # 1
  <2>1. gs # <<>> /\ Len(gs) \in Nat \ {0} /\ Len(fs) > 1
    BY <1>1, <1>2, <1>4, EmptySeq
  <2>2. /\ Nested(gs, st, hs) /\ Suspended(gs[Len(gs)], fs[Len(fs)], st, hs)
        /\ gs[Len(gs)].ssl <= fs[Len(fs)].ssl /\ gs[Len(gs)].snh <= fs[Len(fs)].snh
    BY <1>1, <2>1, NestedPopped
  <2>3. Inner(gs) \in FrameIn(U, n)
    BY <1>1, <2>1, SeqIs DEF Inner
  <2>4. Inner(fs) \in FrameIn(U, n)
    BY <1>1, SeqIs DEF Inner
  <2>5. Inner(gs).ssl \in Nat /\ Inner(gs).snh \in Nat /\ Inner(fs).ssl \in Nat /\ Inner(fs).snh \in Nat
    BY <2>3, <2>4, FrameIs
  <2>6. Len(hs) \in Nat
    BY LenProperties
  <2>7. Same(st, st2, Inner(gs).ssl) /\ Inner(gs).snh <= Len(hs)
    BY <2>2, <2>5, <2>6, Shorter DEF Inner
  <2>8. Nested(gs, st2, hs)
    <3>1. Same(gs, gs, Len(gs) - 1) /\ Same(hs, hs, gs[Len(gs)].snh)
      BY DEF Same
    <3>2. Same(st, st2, gs[Len(gs)].ssl) /\ gs[Len(gs)].snh <= Len(hs)
      BY <2>7 DEF Inner
    <3> QED
      BY <1>1, <2>1, <2>2, <3>1, <3>2, NestedKept
  <2> QED
    BY <1>1, <1>4, <2>1, <2>2, <2>3, <2>8 DEF Inner
<1> QED
  BY <1>3, <1>4

LEMMA NoTries ==
  ASSUME NEW c, NEW f, f.ssl \in Nat, f.snh \in Nat, NEW hs, Len(c.tries) = 0
  PROVE  Lowest(c, f, hs) = f.ssl
BY DEF Lowest, Mark

LEMMA UnwindSound ==
  ASSUME NEW U, Now(U), Unwind
  PROVE  Then
<1>1. mode = "thrown" /\ Len(handlers) <= Frame.snh
  BY DEF Unwind
<1>2. PICK c : c = Current(frames)
  OBVIOUS
<1>3. PICK f : f = Inner(frames)
  OBVIOUS
<1>4. /\ frames \in Seq(FrameIn(U, Len(envs))) /\ Len(envs) \in Nat /\ frames # <<>>
      /\ Nested(frames, stk, handlers) /\ Frame = f /\ Depth = Len(frames)
      /\ f.ssl \in Nat /\ f.snh \in Nat /\ stk \in Seq(U) /\ Len(stk) \in Nat
      /\ handlers \in Seq(Handlers) /\ Len(handlers) \in Nat
      /\ Out(c, f, stk, handlers, exc) /\ Len(c.tries) \in Nat /\ f.snh <= Len(handlers)
  BY <1>1, <1>2, <1>3, FallingIs
<1>5. Len(handlers) = f.snh + Len(c.tries) /\ Lowest(c, f, handlers) <= Len(stk) /\ exc # Null
  BY <1>4 DEF Out
<1>6. Len(handlers) = f.snh /\ Len(c.tries) = 0
  BY <1>1, <1>4, <1>5
<1>7. f.ssl <= Len(stk)
  BY <1>4, <1>5, <1>6, NoTries
<1>8. PICK st2 : st2 = Trim(stk, f.ssl)
  OBVIOUS
<1>9. st2 \in Seq(U) /\ Cut(stk, st2, f.ssl) /\ Same(stk, st2, f.ssl)
  <2>1. st2 \in Seq(U) /\ Cut(stk, st2, f.ssl)
    BY <1>4, <1>7, <1>8, TrimIs
  <2> QED
    BY <2>1 DEF Cut
<1>10. PICK gs : gs = Front(frames)
  OBVIOUS
<1>11. PICK n \in Nat : n = Len(envs)
  BY <1>4
<1>12. frames \in Seq(FrameIn(U, n)) /\ f \in FrameIn(U, n)
  BY <1>1, <1>3, <1>4, <1>11, FallingIs
<1>13. /\ gs \in Seq(FrameIn(U, n)) /\ Nested(gs, st2, handlers)
       /\ Len(frames) = 1 => gs = <<>>
       /\ Len(frames) # 1 => /\ gs # <<>> /\ Inner(gs) \in FrameIn(U, n)
                             /\ Suspended(Inner(gs), f, stk, handlers)
  <2>1. Inner(frames).snh <= Len(handlers) /\ Same(stk, st2, Inner(frames).ssl)
    BY <1>3, <1>4, <1>9
  <2>2. handlers \in Seq(Handlers) /\ frames # <<>> /\ Nested(frames, stk, handlers)
    BY <1>4
  <2> QED
    BY <1>3, <1>10, <1>12, <2>1, <2>2, LeftFrame
<1>14. /\ frames' = gs /\ stk' = st2 /\ handlers' = handlers
       /\ mode' = (IF Len(frames) = 1 THEN "done" ELSE "thrown")
       /\ UNCHANGED <<exc, envs, funcs, assv>>
  BY <1>4, <1>8, <1>10 DEF Unwind, Plain, heap
<1>15. Controlled(gs, st2, handlers, exc, assv, mode')
  <2>1. CASE Len(frames) = 1
    BY <1>13, <1>14, <2>1 DEF Controlled
  <2>2. CASE Len(frames) # 1
    <3>1. PICK g : g = Inner(gs)
      OBVIOUS
    <3>2. /\ g \in FrameIn(U, n) /\ g.code \in DOMAIN Code /\ g.ssl \in Nat /\ g.snh \in Nat
      BY <1>13, <2>2, <3>1, FrameIs
    <3>3. g.pc \in DOMAIN Plan[g.code] /\ Awaits(Planned(g), g, f, stk, handlers)
      BY <1>13, <2>2, <3>1 DEF Suspended
    <3>4. Outlined(Planned(g))
      BY <3>2, <3>3, CertifiedAt DEF Planned
    <3>5. Out(Planned(g), g, st2, handlers, exc)
      BY <1>4, <1>5, <1>6, <1>9, <3>2, <3>3, <3>4, Unwound
    <3>6. Falls(gs[Len(gs)], st2, handlers, exc)
      BY <3>1, <3>3, <3>5 DEF Falls, Inner
    <3> QED
      BY <1>13, <1>14, <2>2, <3>6 DEF Controlled
  <2> QED
    BY <2>1, <2>2
<1>16. exc' \in U \cup {Null}
  BY <1>14, HandlersIs
<1>17. /\ frames' \in Seq(FrameIn(U, Len(envs))) /\ stk' \in Seq(U) /\ handlers' \in Seq(Handlers)
       /\ Controlled(frames', stk', handlers', exc', assv', mode')
  BY <1>4, <1>9, <1>11, <1>13, <1>14, <1>15
<1> QED
  BY <1>14, <1>16, <1>17, TypedThen

LEMMA RetSound ==
  ASSUME NEW U, Now(U), Ret_
  PROVE  Then
<1>1. PICK i : i = Executed(frames)
  OBVIOUS
<1>2. PICK c : c = Current(frames)
  OBVIOUS
<1>3. PICK f : f = Inner(frames)
  OBVIOUS
<1>4. At({"RET"})
  BY DEF Ret_
<1>5. /\ i.op = "RET" /\ mode = "exec" /\ Ready(c, i) /\ Frame = f /\ Depth = Len(frames)
      /\ Reads(i) \in 0 .. Len(c.stack) /\ Len(c.stack) \in Nat
      /\ Working(U, frames, stk, handlers, exc, assv, envs, funcs)
  BY <1>1, <1>2, <1>3, <1>4, Begun
<1>6. c.tries = <<>> /\ c.exc = "none" /\ Reads(i) = 1
  BY <1>5 DEF Ready, Reads
<1>7. /\ stk \in Seq(U) /\ f.ssl \in Nat /\ f.snh \in Nat /\ Len(stk) \in Nat
      /\ handlers \in Seq(Handlers) /\ Len(handlers) \in Nat
      /\ In(c, f, stk, handlers, exc, assv) /\ f.snh <= Len(handlers)
  BY <1>2, <1>3, <1>5, FrameNow
<1>8. Len(c.tries) = 0
  BY <1>6
<1>9. Len(handlers) = f.snh /\ exc = Null /\ f.ssl <= Len(stk) - 1
  <2>1. Lowest(c, f, handlers) = f.ssl
    BY <1>7, <1>8, NoTries
  <2>2. Len(handlers) = f.snh + Len(c.tries) /\ Lowest(c, f, handlers) + Len(c.stack) <= Len(stk)
    BY <1>7 DEF In, Known
  <2>3. Excepts(c.exc, exc)
    BY <1>7 DEF In
  <2> QED
    BY <1>5, <1>6, <1>7, <1>8, <2>1, <2>2, <2>3 DEF Excepts
<1>10. PICK b : b = Cropped(stk, 1)
  OBVIOUS
<1>11. b \in Seq(U) /\ Len(b) = Len(stk) - 1 /\ Same(stk, b, Len(stk) - 1)
  <2>1. 1 \in 0 .. Len(stk)
    BY <1>7, <1>9
  <2> QED
    BY <1>7, <1>10, <2>1, PopIs DEF Swapped
<1>12. PICK low : low = Trim(b, f.ssl)
  OBVIOUS
<1>13. low \in Seq(U) /\ Len(low) = f.ssl /\ Same(b, low, f.ssl)
  <2>1. f.ssl <= Len(b)
    BY <1>9, <1>11
  <2> QED
    BY <1>7, <1>11, <1>12, <2>1, TrimIs, SMTT(30) DEF Cut
<1>14. Same(stk, low, f.ssl)
  BY <1>7, <1>9, <1>11, <1>13 DEF Same
<1>15. PICK v : v = IF f.made = Null THEN stk[Len(stk)] ELSE f.made
  OBVIOUS
<1>16. PICK n \in Nat : n = Len(envs)
  BY <1>5, WorkingIs
<1>17. /\ frames \in Seq(FrameIn(U, n)) /\ f \in FrameIn(U, n) /\ frames # <<>>
       /\ Nested(frames, stk, handlers)
  <2>1. /\ frames \in Seq(FrameIn(U, Len(envs))) /\ f \in FrameIn(U, Len(envs))
        /\ Nested(frames, stk, handlers)
    BY <1>3, <1>5, WorkingIs
  <2>2. frames # <<>>
    BY <1>5 DEF Working
  <2> QED
    BY <1>16, <2>1, <2>2
<1>18. v \in U
  <2>1. stk[Len(stk)] \in U
    <3>1. Len(stk) \in 1 .. Len(stk)
      BY <1>7, <1>9
    <3> QED
      BY <1>7, <3>1, SeqIs
  <2>2. f.made \in U \cup {Null}
    BY <1>17, FrameIs
  <2> QED
    BY <1>15, <2>1, <2>2
<1>19. PICK st2 : st2 = Append(low, v)
  OBVIOUS
<1>20. st2 \in Seq(U) /\ Len(st2) = f.ssl + 1 /\ Same(stk, st2, f.ssl)
  <2>1. st2 \in Seq(U) /\ Len(st2) = f.ssl + 1 /\ Same(low, st2, f.ssl)
    <3>1. st2 \in Seq(U) /\ Len(st2) = Len(low) + 1 /\ Same(low, st2, Len(low))
      <4>1. low \in Seq(U) /\ v \in U /\ st2 = Append(low, v)
        BY <1>13, <1>18, <1>19
      <4>2. Lengthened(U, low, st2, v)
        BY <4>1, AppendIs
      <4> QED
        BY <4>2 DEF Lengthened
    <3> QED
      BY <1>13, <3>1
  <2> QED
    BY <1>14, <2>1 DEF Same
<1>21. PICK gs : gs = Front(frames)
  OBVIOUS
<1>22. PICK st3 : st3 = IF Len(frames) = 1 THEN <<>> ELSE st2
  OBVIOUS
<1>23. /\ frames' = gs /\ stk' = st3 /\ handlers' = handlers
       /\ mode' = (IF Len(frames) = 1 THEN "done" ELSE "exec")
       /\ UNCHANGED <<exc, envs, funcs, assv>>
  <2>1. Under(1) = b /\ Top(0) = stk[Len(stk) - 0]
    BY <1>10, StackIs
  <2>2. Len(stk) - 0 = Len(stk)
    BY <1>7
  <2>3. Top(0) = stk[Len(stk)]
    BY <2>1, <2>2
  <2>4. Append(Trim(Under(1), Frame.ssl), IF Frame.made = Null THEN Top(0) ELSE Frame.made) = st2
    BY <1>5, <1>12, <1>15, <1>19, <2>1, <2>3
  <2>5. /\ frames' = Front(frames)
        /\ stk' = IF Depth = 1 THEN <<>>
                  ELSE Append(Trim(Under(1), Frame.ssl), IF Frame.made = Null THEN Top(0) ELSE Frame.made)
        /\ mode' = (IF Depth = 1 THEN "done" ELSE "exec")
        /\ UNCHANGED <<exc, envs, funcs, assv, handlers>>
    BY DEF Ret_, Return, heap
  <2> QED
    BY <1>5, <1>21, <1>22, <2>4, <2>5
<1>24. /\ gs \in Seq(FrameIn(U, n)) /\ Nested(gs, st2, handlers)
       /\ Len(frames) = 1 => gs = <<>>
       /\ Len(frames) # 1 => /\ gs # <<>> /\ Inner(gs) \in FrameIn(U, n)
                             /\ Suspended(Inner(gs), f, stk, handlers)
  <2>1. Inner(frames).snh <= Len(handlers) /\ Same(stk, st2, Inner(frames).ssl)
    BY <1>3, <1>7, <1>20
  <2>2. handlers \in Seq(Handlers)
    BY <1>7
  <2> QED
    BY <1>3, <1>17, <1>21, <2>1, <2>2, LeftFrame
<1>25. Controlled(gs, st3, handlers, exc, assv, mode') /\ st3 \in Seq(U)
  <2>1. CASE Len(frames) = 1
    <3>1. st3 \in Seq(U)
      BY <1>22, <2>1, EmptySeq
    <3>2. Nested(gs, st3, handlers)
      BY <1>24, <2>1 DEF Nested
    <3> QED
      BY <1>23, <1>24, <2>1, <3>1, <3>2 DEF Controlled
  <2>2. CASE Len(frames) # 1
    <3>1. PICK g : g = Inner(gs)
      OBVIOUS
    <3>2. /\ g \in FrameIn(U, n) /\ g.code \in DOMAIN Code /\ g.ssl \in Nat /\ g.snh \in Nat
      BY <1>24, <2>2, <3>1, FrameIs
    <3>3. g.pc \in DOMAIN Plan[g.code] /\ Awaits(Planned(g), g, f, stk, handlers)
      BY <1>24, <2>2, <3>1 DEF Suspended
    <3>4. Outlined(Planned(g))
      BY <3>2, <3>3, CertifiedAt DEF Planned
    <3>5. In(Planned(g), g, st2, handlers, Null, assv)
      BY <1>7, <1>9, <1>20, <3>2, <3>3, <3>4, Returned
    <3>6. Executes(gs[Len(gs)], st2, handlers, exc, assv)
      BY <1>9, <3>1, <3>3, <3>5 DEF Executes, Inner
    <3> QED
      BY <1>20, <1>22, <1>23, <1>24, <2>2, <3>6 DEF Controlled
  <2> QED
    BY <2>1, <2>2
<1>26. exc' \in U \cup {Null}
  BY <1>23, HandlersIs
<1>27. /\ frames' \in Seq(FrameIn(U, Len(envs))) /\ stk' \in Seq(U) /\ handlers' \in Seq(Handlers)
       /\ Controlled(frames', stk', handlers', exc', assv', mode')
  BY <1>7, <1>16, <1>23, <1>24, <1>25
<1> QED
  BY <1>23, <1>26, <1>27, TypedThen

-----------------------------------------------------------------------------
(* Calls *)

LEMMA GoneOn ==
  ASSUME NEW U, NEW n \in Nat, NEW fs \in Seq(FrameIn(U, n)), fs # <<>>, NEW l \in Nat,
         NEW gs, gs = Going(fs, l), NEW f, f = Inner(fs), NEW g, g = Inner(gs)
  PROVE  /\ gs \in Seq(FrameIn(U, n)) /\ Len(gs) = Len(fs) /\ Len(fs) \in Nat \ {0}
         /\ Same(fs, gs, Len(fs) - 1) /\ gs[Len(fs)] = g
         /\ g \in FrameIn(U, n) /\ g.code = f.code /\ g.ssl = f.ssl /\ g.snh = f.snh /\ g.pc = l
<1>1. PICK h : h = [f EXCEPT !.pc = l]
  OBVIOUS
<1>2. Len(fs) \in Nat \ {0}
  BY LenProperties, EmptySeq
<1>3. f \in FrameIn(U, n)
  BY <1>2, SeqIs DEF Inner
<1>4. h \in FrameIn(U, n) /\ h.code = f.code /\ h.ssl = f.ssl /\ h.snh = f.snh /\ h.pc = l
  BY <1>1, <1>3 DEF FrameIn
<1>5. gs = [fs EXCEPT ![Len(fs)] = h]
  BY <1>1 DEF Inner, Going
<1>6. /\ gs \in Seq(FrameIn(U, n)) /\ Len(gs) = Len(fs) /\ gs[Len(fs)] = h
      /\ \A i \in 1 .. Len(fs) - 1 : gs[i] = fs[i]
  <2>1. /\ [fs EXCEPT ![Len(fs)] = h] \in Seq(FrameIn(U, n))
        /\ Len([fs EXCEPT ![Len(fs)] = h]) = Len(fs)
        /\ [fs EXCEPT ![Len(fs)] = h][Len(fs)] = h
        /\ \A i \in 1 .. Len(fs) - 1 : [fs EXCEPT ![Len(fs)] = h][i] = fs[i]
    BY <1>4, LastReplaced
  <2> QED
    BY <1>5, <2>1
<1>7. g = h
  BY <1>6 DEF Inner
<1> QED
  BY <1>2, <1>4, <1>6, <1>7 DEF Same

(* A frame begins. *)
LEMMA Started ==
  ASSUME NEW g, g.code \in DOMAIN Code, g.pc = 1, g.snh \in Nat, NEW U, NEW st \in Seq(U),
         NEW hs \in Seq(Handlers), g.ssl = Len(st), g.snh = Len(hs), NEW av
  PROVE  Executes(g, st, hs, Null, av)
<1>1. PICK p \in DOMAIN Code : p = g.code
  OBVIOUS
<1>2. Certifies(p)
  BY CertificateAssumption
<1>3. PICK t : t = Plan[p][1]
  OBVIOUS
<1>4. 1 \in DOMAIN Plan[p] /\ Agrees(t, Entry)
  BY <1>2, <1>3 DEF Certifies
<1>5. Outlined(t) /\ t.whole \in BOOLEAN
  BY <1>3, <1>4, CertifiedAt
<1>6. PICK s : s = Entry
  OBVIOUS
<1>7. /\ s.stack = <<>> /\ s.whole = TRUE /\ s.tries = <<>> /\ s.exc = "none" /\ s.star = <<>>
      /\ Outlined(s) /\ Len(s.tries) = 0 /\ Len(s.stack) = 0
  BY <1>6 DEF Entry, Outlined
<1>8. Len(st) \in Nat /\ g.ssl \in Nat
  BY LenProperties
<1>9. Mark(g, hs, 0) = Len(st)
  BY DEF Mark
<1>10. Tries(s, g, st, hs)
  BY <1>7, <1>8, <1>9 DEF Tries
<1>11. Known(s, st, Lowest(s, g, hs), Len(st))
  BY <1>7, <1>8, <1>9 DEF Known, Lowest
<1>12. In(s, g, st, hs, Null, av)
  BY <1>7, <1>10, <1>11 DEF In, Excepts
<1>13. In(t, g, st, hs, Null, av)
  BY <1>4, <1>5, <1>6, <1>7, <1>8, <1>12, InLess
<1> QED
  BY <1>1, <1>3, <1>4, <1>13 DEF Executes, Planned

LEMMA Entered ==
  ASSUME NEW U, NEW fs, NEW st, NEW hs, NEW e, NEW av, NEW es, NEW fu,
         Working(U, fs, st, hs, e, av, es, fu),
         NEW i, i = Executed(fs), i.op \in Plainly \ {"ASSV"},
         NEW c, c = Current(fs), c.exc = "none", Pending(c, i) = "none",
         NEW k, k = Takes(i), k \in 0 .. Len(c.stack), Puts(c, i) = <<"any">>,
         NEW st2, st2 = Cropped(st, k), NEW g \in FrameIn(U, Len(es)),
         g.ssl = Len(st2), g.snh = Len(hs), g.pc = 1,
         NEW gs, gs = Append(Going(fs, Behind(fs)), g)
  PROVE  /\ gs \in Seq(FrameIn(U, Len(es))) /\ st2 \in Seq(U)
         /\ Controlled(gs, st2, hs, e, av, "exec")
<1>1. PICK f : f = Inner(fs)
  OBVIOUS
<1>2. /\ fs \in Seq(FrameIn(U, Len(es))) /\ Len(es) \in Nat /\ hs \in Seq(Handlers)
      /\ st \in Seq(U) /\ Nested(fs, st, hs) /\ f.ssl \in Nat /\ f.snh \in Nat
      /\ In(c, f, st, hs, e, av) /\ c \in States /\ Outlined(c) /\ c.whole \in BOOLEAN
      /\ f.code \in DOMAIN Code
  BY <1>1, WorkingIs
<1>3. PICK n \in Nat : n = Len(es)
  BY <1>2
<1>4. fs \in Seq(FrameIn(U, n)) /\ g \in FrameIn(U, n) /\ fs # <<>>
  BY <1>2, <1>3 DEF Working
<1>5. PICK s : s = Moved(c, i)
  OBVIOUS
<1>6. PICK l : l = Behind(fs)
  OBVIOUS
<1>7. PICK t : t = Plan[Inner(fs).code][l]
  OBVIOUS
<1>8. /\ s.stack = Cropped(c.stack, k) \o <<"any">> /\ s.whole = c.whole /\ s.tries = c.tries
      /\ s.exc = "none" /\ s.star = <<>>
  BY <1>2, <1>5, MovedIs
<1>9. <<l, s>> \in Flows(Executed(fs), Behind(fs), Current(fs))
  BY <1>5, <1>6, PlainFlow
<1>10. /\ l \in DOMAIN Plan[f.code] /\ Agrees(t, s) /\ Outlined(t) /\ t.whole \in BOOLEAN
       /\ l \in Nat
  BY <1>1, <1>7, <1>9, FlowIs
<1>11. s.stack \in Seq(Shapes) /\ Swapped(c.stack, s.stack, k, <<"any">>)
  <2>1. c.stack \in Seq(Shapes)
    BY <1>2 DEF Outlined
  <2>2. PICK any : any = <<"any">>
    OBVIOUS
  <2>3. any \in Seq(Shapes)
    BY <2>2 DEF Shapes
  <2>4. s.stack = Cropped(c.stack, k) \o any
    BY <1>8, <2>2
  <2> QED
    BY <2>1, <2>2, <2>3, <2>4, Exchanged
<1>12. Outlined(s) /\ s.whole \in BOOLEAN
  BY <1>2, <1>8, <1>11 DEF Outlined
<1>13. st2 \in Seq(U) /\ Swapped(st, st2, k, <<>>)
  <2>1. k \in 0 .. Len(st)
    BY OperandIs
  <2> QED
    BY <1>2, <2>1, PopIs
<1>14. /\ Awaits(s, f, g, st2, hs) /\ Same(st, st2, f.ssl) /\ f.ssl <= g.ssl /\ f.snh <= g.snh
       /\ g.ssl \in Nat /\ g.snh \in Nat
  <2>1. s.exc # "some" /\ s.star = <<>> /\ s.whole = c.whole /\ s.tries = c.tries
    BY <1>8
  <2>2. Outlined(c) /\ Outlined(s) /\ c.whole \in BOOLEAN
    BY <1>2, <1>12
  <2>3. st \in Seq(U) /\ f.ssl \in Nat /\ f.snh \in Nat /\ hs \in Seq(Handlers) /\ In(c, f, st, hs, e, av)
    BY <1>2
  <2>4. Swapped(c.stack, s.stack, k, <<"any">>) /\ Swapped(st, st2, k, <<>>)
    BY <1>11, <1>13
  <2>5. k \in 0 .. Len(c.stack) /\ g.ssl = Len(st2) /\ g.snh = Len(hs)
    OBVIOUS
  <2>6. PICK m : m = k
    OBVIOUS
  <2>7. m \in 0 .. Len(c.stack) /\ Swapped(c.stack, s.stack, m, <<"any">>) /\ Swapped(st, st2, m, <<>>)
    BY <2>4, <2>5, <2>6
  <2> QED
    <3>1. Awaits(s, f, g, st2, hs)
      BY <2>1, <2>2, <2>3, <2>5, <2>7, Called
    <3>2. Tries(c, f, st, hs) /\ Len(hs) = f.snh + Len(c.tries) /\ Known(c, st, Lowest(c, f, hs), Len(st))
      BY <1>2 DEF In
    <3>3. Lowest(c, f, hs) \in Nat /\ f.ssl <= Lowest(c, f, hs)
      BY <1>2, <3>2, LowestIs
    <3>4. Lowest(c, f, hs) + Len(c.stack) <= Len(st)
      BY <3>2 DEF Known
    <3>5. Len(c.tries) \in Nat /\ Len(c.stack) \in Nat /\ Len(st) \in Nat /\ Len(hs) \in Nat
      BY <1>2, OutlinedIs, LenProperties
    <3>6. Len(st2) = Len(st) - m /\ Same(st, st2, Len(st) - m)
      BY <2>7, <3>5 DEF Swapped
    <3>7. PICK h \in Int : h = Len(st) - m
      BY <2>7, <3>5
    <3>8. f.ssl <= h /\ h \in Nat /\ g.ssl = h /\ f.snh <= g.snh /\ g.snh \in Nat
      BY <2>3, <2>5, <2>7, <3>2, <3>3, <3>4, <3>5, <3>6, <3>7, SMTT(30)
    <3>9. Same(st, st2, f.ssl)
      BY <2>3, <3>6, <3>7, <3>8, Shorter
    <3> QED
      BY <3>1, <3>8, <3>9
<1>15. Awaits(t, f, g, st2, hs)
  BY <1>2, <1>10, <1>12, <1>14, AwaitsLess
<1>16. PICK hs1 : hs1 = Going(fs, l)
  OBVIOUS
<1>17. PICK h : h = Inner(hs1)
  OBVIOUS
<1>18. /\ hs1 \in Seq(FrameIn(U, n)) /\ Len(hs1) = Len(fs) /\ Len(fs) \in Nat \ {0}
       /\ Same(fs, hs1, Len(fs) - 1) /\ hs1[Len(fs)] = h
       /\ h \in FrameIn(U, n) /\ h.code = f.code /\ h.ssl = f.ssl /\ h.snh = f.snh /\ h.pc = l
  BY <1>1, <1>4, <1>10, <1>16, <1>17, GoneOn
<1>19. Suspended(h, g, st2, hs)
  <2>1. Awaits(t, h, g, st2, hs)
    BY <1>15, <1>18 DEF Awaits, Tries, Lowest, Mark
  <2>2. t = Planned(h) /\ h.pc \in DOMAIN Plan[h.code]
    BY <1>1, <1>7, <1>10, <1>18 DEF Planned
  <2> QED
    BY <2>1, <2>2 DEF Suspended
<1>20. Nested(hs1, st2, hs)
  <2>1. hs1[Len(fs)].ssl = fs[Len(fs)].ssl /\ hs1[Len(fs)].snh = fs[Len(fs)].snh
    BY <1>1, <1>18 DEF Inner
  <2>2. Same(st, st2, fs[Len(fs)].ssl) /\ Same(hs, hs, fs[Len(fs)].snh) /\ fs[Len(fs)].snh <= Len(hs)
    BY <1>1, <1>14 DEF Inner, Same
  <2> QED
    BY <1>2, <1>4, <1>18, <2>1, <2>2, NestedKept
<1>21. /\ gs \in Seq(FrameIn(U, n)) /\ Len(gs) = Len(hs1) + 1 /\ Same(hs1, gs, Len(hs1))
       /\ gs[Len(hs1) + 1] = g
  <2>1. gs = Append(hs1, g)
    BY <1>6, <1>16
  <2>2. hs1 \in Seq(FrameIn(U, n)) /\ g \in FrameIn(U, n)
    BY <1>4, <1>18
  <2> QED
    <3>1. PICK S : S = FrameIn(U, n)
      OBVIOUS
    <3>2. hs1 \in Seq(S) /\ g \in S
      BY <2>2, <3>1
    <3>3. Lengthened(S, hs1, gs, g)
      BY <2>1, <3>2, AppendIs
    <3> QED
      BY <3>1, <3>3 DEF Lengthened
<1>22. hs1 # <<>>
  BY <1>18, EmptySeq
<1>23. Nested(gs, st2, hs)
  <2>1. PICK d \in Nat : d = Len(hs1)
    BY <1>18
  <2>2. hs1[Len(hs1)] = h /\ gs[Len(hs1) + 1] = g
    BY <1>18, <1>21
  <2>3. /\ hs1[Len(hs1)].ssl <= gs[Len(hs1) + 1].ssl /\ hs1[Len(hs1)].snh <= gs[Len(hs1) + 1].snh
        /\ gs[Len(hs1) + 1].ssl \in Nat /\ gs[Len(hs1) + 1].snh \in Nat
        /\ Suspended(hs1[Len(hs1)], gs[Len(hs1) + 1], st2, hs)
    BY <1>14, <1>18, <1>19, <2>2
  <2>4. Len(gs) = Len(hs1) + 1 /\ Same(hs1, gs, Len(hs1)) /\ hs1 \in Seq(FrameIn(U, n))
    BY <1>18, <1>21
  <2> QED
    BY <1>20, <1>22, <2>3, <2>4, NestedPushed
<1>24. e = Null
  <2>1. Excepts(c.exc, e)
    BY ExceptsNow
  <2> QED
    BY <2>1 DEF Excepts
<1>25. Executes(g, st2, hs, e, av)
  <2>1. g.code \in DOMAIN Code
    BY <1>3, <1>4, FrameIs
  <2> QED
    BY <1>2, <1>13, <1>14, <1>24, <2>1, Started
<1>26. Executes(gs[Len(gs)], st2, hs, e, av) /\ gs # <<>>
  <2>1. gs[Len(gs)] = g /\ Len(gs) # 0
    BY <1>18, <1>21
  <2> QED
    BY <1>25, <2>1, EmptySeq
<1> QED
  BY <1>3, <1>13, <1>21, <1>23, <1>26 DEF Controlled

LEMMA MoreEnvs ==
  ASSUME NEW U, NEW fs, NEW st, NEW hs, NEW e, NEW es, NEW fu,
         Typed(U, fs, st, hs, e, es, fu), NEW env \in EnvIn(U), NEW es2, es2 = Append(es, env)
  PROVE  Typed(U, fs, st, hs, e, es2, fu)
<1>1. es \in Seq(EnvIn(U)) /\ fs \in Seq(FrameIn(U, Len(es))) /\ fu \in Seq(FuncIn(U, Len(es)))
  BY DEF Typed
<1>2. es2 \in Seq(EnvIn(U)) /\ Len(es2) = Len(es) + 1 /\ Len(es) \in Nat
  BY <1>1, AppendProperties, LenProperties
<1>3. PICK n \in Nat : n = Len(es)
  BY <1>2
<1>4. PICK m \in Nat : m = Len(es2)
  BY <1>2
<1>5. n <= m /\ U \subseteq U
  BY <1>2, <1>3, <1>4
<1>6. FrameIn(U, n) \subseteq FrameIn(U, m) /\ FuncIn(U, n) \subseteq FuncIn(U, m)
  BY <1>5, MoreFrames
<1>7. fs \in Seq(FrameIn(U, m))
  BY <1>1, <1>3, <1>6, SeqMonotonic
<1>8. fu \in Seq(FuncIn(U, m))
  BY <1>1, <1>3, <1>6, SeqMonotonic
<1> QED
  BY <1>2, <1>4, <1>7, <1>8 DEF Typed

LEMMA EnteredNow ==
  ASSUME NEW U, Now(U), mode = "exec",
         NEW i, i = Executed(frames), i.op \in {"CALL", "CALLV", "TYPE"},
         NEW c, c = Current(frames), c.exc = "none",
         NEW k, k = Takes(i), k \in 0 .. Len(c.stack), NEW b, b = Cropped(stk, k),
         NEW callee \in U, NEW code \in DOMAIN Code, NEW made \in U \cup {Null},
         NEW env \in EnvIn(U), NEW scope, scope \in Seq(1 .. Len(envs) + 1), scope # <<>>,
         Enters(callee, code, scope, b, made), envs' = Append(envs, env)
  PROVE  Then
<1>1. Typed(U, frames, stk, handlers, exc, envs, funcs) /\ frames # <<>> /\ Nested(frames, stk, handlers)
      /\ Working(U, frames, stk, handlers, exc, assv, envs, funcs)
  BY AtWork DEF Now, Working
<1>2. PICK es2 : es2 = Append(envs, env)
  OBVIOUS
<1>3. Typed(U, frames, stk, handlers, exc, es2, funcs) /\ Len(es2) = Len(envs) + 1 /\ Len(envs) \in Nat
  <2>1. Typed(U, frames, stk, handlers, exc, envs, funcs)
    BY <1>1
  <2>2. Typed(U, frames, stk, handlers, exc, es2, funcs)
    BY <1>2, <2>1, MoreEnvs
  <2>3. envs \in Seq(EnvIn(U))
    BY <2>1 DEF Typed
  <2>4. Len(es2) = Len(envs) + 1 /\ Len(envs) \in Nat
    BY <1>2, <2>3, AppendProperties, LenProperties
  <2> QED
    BY <2>2, <2>4
<1>4. Working(U, frames, stk, handlers, exc, assv, es2, funcs)
  BY <1>1, <1>3 DEF Working
<1>5. PICK g : g = NewFrame(callee, code, scope, Len(b), made)
  OBVIOUS
<1>6. stk \in Seq(U) /\ Len(handlers) \in Nat /\ k \in 0 .. Len(stk)
  BY <1>1, WorkingIs, OperandIs
<1>7. b \in Seq(U) /\ Len(b) \in Nat
  <2>1. b \in Seq(U)
    BY <1>6, PopIs
  <2> QED
    BY <2>1, LenProperties
<1>8. g \in FrameIn(U, Len(es2)) /\ g.ssl = Len(b) /\ g.snh = Len(handlers) /\ g.pc = 1
  <2>1. scope \in Seq(1 .. Len(es2))
    BY <1>3
  <2> QED
    BY <1>5, <1>6, <1>7, <2>1 DEF NewFrame, FrameIn
<1>9. PICK gs : gs = Append(Going(frames, Behind(frames)), g)
  OBVIOUS
<1>10. i.op \in Plainly \ {"ASSV"} /\ Pending(c, i) = "none" /\ Puts(c, i) = <<"any">>
  BY DEF Plainly, Ops, Pending, Puts
<1>11. gs \in Seq(FrameIn(U, Len(es2))) /\ Controlled(gs, b, handlers, exc, assv, "exec")
  BY <1>4, <1>8, <1>9, <1>10, Entered, ZenonT(60)
<1>12. Typed(U, gs, b, handlers, exc, es2, funcs)
  BY <1>3, <1>7, <1>11 DEF Typed
<1>13. Advanced(0) = Going(frames, Behind(frames))
  <2>1. Advanced(0) = [frames EXCEPT ![Len(frames)].pc = @ + Size(Executed(frames).op) + 0]
    BY AtWork DEF Now
  <2> QED
    BY <1>1, <2>1, GoingIs
<1>14. /\ frames' = gs /\ stk' = b /\ handlers' = handlers /\ exc' = exc /\ assv' = assv
       /\ envs' = es2 /\ funcs' = funcs /\ mode' = "exec"
  BY <1>2, <1>5, <1>9, <1>13 DEF Enters
<1> QED
  BY <1>11, <1>12, <1>14 DEF Then, Sound

(* What a function's parameters are bound to *)
LEMMA GivenFits ==
  ASSUME NEW U, NEW fu, NEW n \in Nat, NEW f \in FuncIn(U, n), NEW args \in Seq(U), Accepts(f, Len(args)),
         NEW m, m = Len(f.pars), NEW given,
         given = IF f.va >= 0 THEN Unpacked(args, Len(f.pars), f.va)
                 ELSE args \o SubSeq(f.defa, Len(f.defa) - (Len(f.pars) - Len(args)) + 1,
                                     Len(f.defa)),
         NEW fit, Fit(U, fu, fit)
  PROVE  Parts(U, fu, given, m)
<1>1. /\ f.pars \in Seq(Locals) /\ f.va \in Int /\ f.defa \in Seq(U) /\ f.va \in -1 .. m - 1
  BY DEF FuncIn
<1>2. m \in Nat /\ Len(args) \in Nat /\ Len(f.defa) \in Nat
  BY <1>1, LenProperties
<1>3. Len(args) >= Required(f) /\ (f.va >= 0 \/ Len(args) <= m)
  BY DEF Accepts
<1>4. CASE f.va >= 0
  <2>1. Len(args) >= m - 1
    BY <1>3, <1>4 DEF Required
  <2>2. PICK va : va = f.va
    OBVIOUS
  <2>3. va \in Stars(m)
    BY <1>1, <2>2 DEF Stars
  <2>4. ~UnpackFails(args, m, va)
    BY <1>1, <1>2, <1>4, <2>1, <2>2 DEF UnpackFails
  <2>5. given = Unpacked(args, m, va)
    BY <1>4, <2>2
  <2> QED
    BY <1>2, <2>3, <2>4, <2>5, UnpackedFits
<1>5. CASE ~(f.va >= 0)
  <2>1. Len(args) >= m - Len(f.defa) /\ Len(args) <= m
    BY <1>3, <1>5 DEF Required
  <2>2. PICK k : k = m - Len(args)
    OBVIOUS
  <2>3. k \in Nat /\ k <= Len(f.defa)
    BY <1>2, <2>1, <2>2
  <2>4. PICK d : d = f.defa
    OBVIOUS
  <2>5. PICK u : u = Sliced(d, k)
    OBVIOUS
  <2>6. given = args \o u
    BY <1>5, <2>2, <2>4, <2>5 DEF Sliced
  <2>7. given \in Seq(U) /\ Len(given) = m
    <3>1. k \in 0 .. Len(d) /\ d \in Seq(U)
      BY <1>1, <1>2, <2>3, <2>4
    <3>2. u \in Seq(U) /\ Len(u) = k
      BY <2>5, <3>1, SlicedIs
    <3>3. given \in Seq(U) /\ Len(given) = Len(args) + Len(u)
      BY <2>6, <3>2, ConcatProperties
    <3>4. Len(args) + k = m
      BY <1>2, <2>2
    <3>5. Len(given) = m
      BY <3>2, <3>3, <3>4
    <3> QED
      BY <3>3, <3>5
  <2>8. given \in Seq(U \cup {fit})
    BY <2>7, SeqMonotonic
  <2> QED
    BY <2>7, <2>8 DEF Parts
<1> QED
  BY <1>4, <1>5

LEMMA GivenBound ==
  ASSUME NEW V, NEW names \in Seq(Locals), NEW given \in Seq(V), Len(given) = Len(names),
         NEW env, env = [name \in ToSet(names) |-> given[CHOOSE i \in DOMAIN names : names[i] = name]]
  PROVE  env \in EnvIn(V)
<1>1. DOMAIN names = 1 .. Len(names) /\ ToSet(names) \in SUBSET Locals
  BY SeqIs DEF ToSet
<1>2. ASSUME NEW name \in ToSet(names)
      PROVE  given[CHOOSE i \in DOMAIN names : names[i] = name] \in V
  <2>1. \E i \in DOMAIN names : names[i] = name
    BY DEF ToSet
  <2>2. PICK j : j = CHOOSE i \in DOMAIN names : names[i] = name
    OBVIOUS
  <2>3. j \in DOMAIN names
    BY <2>1, <2>2
  <2>4. given[j] \in V
    BY <1>1, <2>3, SeqIs
  <2> QED
    BY <2>2, <2>4
<1>3. env \in [ToSet(names) -> V]
  BY <1>2
<1> QED
  BY <1>1, <1>3 DEF EnvIn

LEMMA EmptyEnv ==
  ASSUME NEW U, NEW env, env = [n \in {} |-> Null]
  PROVE  env \in EnvIn(U)
<1>1. env \in [{} -> U] /\ {} \in SUBSET Locals
  OBVIOUS
<1> QED
  BY <1>1 DEF EnvIn

LEMMA ScopeIs ==
  ASSUME NEW n \in Nat, NEW scope \in Seq(1 .. n), NEW t, t = <<n + 1>> \o scope
  PROVE  t \in Seq(1 .. n + 1) /\ t # <<>>
<1>1. PICK m \in Nat : m = n + 1
  OBVIOUS
<1>2. 1 .. n \subseteq 1 .. m /\ m \in 1 .. m
  BY <1>1
<1>3. scope \in Seq(1 .. m)
  BY <1>2, SeqMonotonic
<1>4. PICK a : a = <<m>>
  OBVIOUS
<1>5. a \in Seq(1 .. m) /\ Len(a) = 1
  BY <1>2, <1>4
<1>6. t = a \o scope
  BY <1>1, <1>4
<1>7. t \in Seq(1 .. m) /\ Len(t) = 1 + Len(scope)
  <2>1. PICK S : S = 1 .. m
    OBVIOUS
  <2>2. a \in Seq(S) /\ scope \in Seq(S)
    BY <1>3, <1>5, <2>1
  <2>3. a \o scope \in Seq(S) /\ Len(a \o scope) = Len(a) + Len(scope)
    BY <2>2, ConcatProperties
  <2> QED
    BY <1>5, <1>6, <2>1, <2>3
<1>8. Len(scope) \in Nat
  BY LenProperties
<1>9. Len(t) # 0
  BY <1>7, <1>8
<1>10. t # <<>>
  BY <1>9
<1> QED
  BY <1>1, <1>7, <1>10

LEMMA FuncIs ==
  ASSUME NEW U, Now(U), NEW v \in U, Kind(v) = "func"
  PROVE  /\ funcs[v[2]] \in FuncIn(U, Len(envs)) /\ Len(envs) \in Nat
         /\ funcs[v[2]].code \in DOMAIN Code /\ funcs[v[2]].scope \in Seq(1 .. Len(envs))
         /\ funcs[v[2]].pars \in Seq(Locals) /\ v[2] \in 1 .. Len(funcs)
<1>1. Typed(U, frames, stk, handlers, exc, envs, funcs)
  BY DEF Now
<1>2. funcs \in Seq(FuncIn(U, Len(envs))) /\ Len(envs) \in Nat
  BY <1>1, LenProperties DEF Typed
<1>3. v[2] \in 1 .. Len(funcs)
  BY <1>1, FitNow DEF Fit
<1>4. funcs[v[2]] \in FuncIn(U, Len(envs))
  BY <1>2, <1>3, SeqIs
<1> QED
  BY <1>2, <1>3, <1>4 DEF FuncIn

LEMMA FunctionEntered ==
  ASSUME NEW U, Now(U), mode = "exec",
         NEW i, i = Executed(frames), i.op \in {"CALL", "CALLV"},
         NEW c, c = Current(frames), c.exc = "none",
         NEW k, k = Takes(i), k \in 0 .. Len(c.stack), NEW b, b = Cropped(stk, k),
         NEW callee \in U, NEW args \in Seq(U), Kind(callee) = "func",
         Accepts(funcs[callee[2]], Len(args)), Invokes(callee, args, b)
  PROVE  Then
<1>1. PICK f : f = funcs[callee[2]]
  OBVIOUS
<1>2. PICK n \in Nat : n = Len(envs)
  BY FuncIs
<1>3. f \in FuncIn(U, n) /\ f.code \in DOMAIN Code /\ f.scope \in Seq(1 .. n) /\ f.pars \in Seq(Locals)
  BY <1>1, <1>2, FuncIs
<1>4. PICK m : m = Len(f.pars)
  OBVIOUS
<1>5. PICK given :
         given = IF f.va >= 0 THEN Unpacked(args, Len(f.pars), f.va)
                 ELSE args \o SubSeq(f.defa, Len(f.defa) - (Len(f.pars) - Len(args)) + 1,
                                     Len(f.defa))
  OBVIOUS
<1>6. Fit(U, funcs, callee)
  BY FitNow
<1>7. Parts(U, funcs, given, m)
  BY <1>1, <1>3, <1>4, <1>5, <1>6, GivenFits
<1>8. PICK v : Fit(U, funcs, v) /\ given \in Seq(U \cup {v}) /\ Len(given) = m
  BY <1>7 DEF Parts
<1>9. PICK V : V = U \cup {v}
  OBVIOUS
<1>10. Now(V) /\ callee \in V
  BY <1>8, <1>9, NowGrown
<1>11. PICK env : env = Bound(f, args)
  OBVIOUS
<1>12. env \in EnvIn(V)
  <2>1. PICK names : names = f.pars
    OBVIOUS
  <2>2. env = [name \in ToSet(names) |-> given[CHOOSE j \in DOMAIN names : names[j] = name]]
    BY <1>5, <1>11, <2>1 DEF Bound
  <2>3. names \in Seq(Locals) /\ given \in Seq(V) /\ Len(given) = Len(names)
    BY <1>3, <1>4, <1>8, <1>9, <2>1
  <2> QED
    BY <2>2, <2>3, GivenBound
<1>13. PICK scope : scope = <<n + 1>> \o f.scope
  OBVIOUS
<1>14. scope \in Seq(1 .. Len(envs) + 1) /\ scope # <<>>
  BY <1>2, <1>3, <1>13, ScopeIs
<1>15. PICK code : code = f.code
  OBVIOUS
<1>16. PICK made : made = Null
  OBVIOUS
<1>17. Enters(callee, code, scope, b, made) /\ envs' = Append(envs, env)
  BY <1>1, <1>2, <1>11, <1>13, <1>15, <1>16 DEF Invokes, NewEnv
<1>18. code \in DOMAIN Code /\ made \in V \cup {Null} /\ i.op \in {"CALL", "CALLV", "TYPE"}
  BY <1>3, <1>15, <1>16
<1> QED
  BY <1>10, <1>12, <1>14, <1>17, <1>18, EnteredNow

LEMMA CodeEntered ==
  ASSUME NEW U, Now(U), mode = "exec",
         NEW i, i = Executed(frames), i.op \in {"CALL", "CALLV"},
         NEW c, c = Current(frames), c.exc = "none",
         NEW k, k = Takes(i), k \in 0 .. Len(c.stack), NEW b, b = Cropped(stk, k),
         NEW callee \in U, NEW args \in Seq(U), Kind(callee) = "code", Invokes(callee, args, b)
  PROVE  Then
<1>1. PICK n \in Nat : n = Len(envs)
  BY LenProperties DEF Now, Typed
<1>2. PICK env : env = [name \in {} |-> Null]
  OBVIOUS
<1>3. env \in EnvIn(U)
  BY <1>2, EmptyEnv
<1>4. PICK scope : scope = <<n + 1>>
  OBVIOUS
<1>5. scope \in Seq(1 .. Len(envs) + 1) /\ scope # <<>>
  <2>1. <<>> \in Seq(1 .. n)
    OBVIOUS
  <2>2. scope = <<n + 1>> \o <<>>
    BY <1>4
  <2> QED
    BY <1>1, <2>1, <2>2, ScopeIs
<1>6. PICK code : code = callee[2]
  OBVIOUS
<1>7. code \in DOMAIN Code
  <2>1. Fit(U, funcs, callee)
    BY FitNow
  <2> QED
    BY <1>6, <2>1 DEF Fit
<1>8. PICK made : made = Null
  OBVIOUS
<1>9. Enters(callee, code, scope, b, made) /\ envs' = Append(envs, env)
  BY <1>1, <1>2, <1>4, <1>6, <1>8 DEF Invokes, NewEnv
<1>10. made \in U \cup {Null} /\ i.op \in {"CALL", "CALLV", "TYPE"}
  BY <1>8
<1> QED
  BY <1>3, <1>5, <1>7, <1>9, <1>10, EnteredNow

LEMMA InvokesSound ==
  ASSUME NEW U, Now(U), mode = "exec", prog \in Programs,
         NEW i, i = Executed(frames), i.op \in {"CALL", "CALLV"}, NEW c, c = Current(frames),
         NEW k, k = Takes(i), k \in 0 .. Len(c.stack), NEW b, b = Cropped(stk, k),
         NEW callee \in U, NEW args \in Seq(U), c.exc = "none" \/ Kind(callee) = "cfunc",
         Invokes(callee, args, b)
  PROVE  Then
<1>1. CASE Kind(callee) = "func" /\ Accepts(funcs[callee[2]], Len(args))
  <2>1. c.exc = "none"
    BY <1>1
  <2> QED
    BY <1>1, <2>1, FunctionEntered
<1>2. CASE Kind(callee) = "code"
  <2>1. c.exc = "none"
    BY <1>2
  <2> QED
    BY <1>2, <2>1, CodeEntered
<1>3. CASE Kind(callee) \in {"cfunc", "type"}
  <2>1. PICK all : all = <<callee>> \o args
    OBVIOUS
  <2>2. PICK kept : kept = Null
    OBVIOUS
  <2>3. External("call", all, b, b, kept) /\ kept \in U \cup {Null}
    BY <1>3, <2>1, <2>2 DEF Invokes
  <2>4. "call" \in Events /\ "call" \notin {"getattr", "setattr"}
    BY DEF Events
  <2>5. i.op \in Plainly /\ i.op \notin {"ASSV", "FINALLY_END"} /\ Puts(c, i) = <<"any">>
    BY DEF Plainly, Ops, Puts
  <2> QED
    BY <2>3, <2>4, <2>5, ExternalSound
<1>4. CASE /\ ~(Kind(callee) = "func" /\ Accepts(funcs[callee[2]], Len(args)))
           /\ Kind(callee) \notin {"code", "cfunc", "type"}
  <2>1. PICK type : Fails(type, b)
    BY <1>4 DEF Invokes
  <2>2. k \in 0 .. Len(Current(frames).stack)
    OBVIOUS
  <2> QED
    BY <2>1, <2>2, FailedNow
<1> QED
  BY <1>1, <1>2, <1>3, <1>4

LEMMA CalleeIs ==
  ASSUME NEW U, Now(U), mode = "exec", NEW v \in U
  PROVE  Callee(v) \in U
<1>1. PICK c : c = Current(frames)
  OBVIOUS
<1>2. PICK f : f = Inner(frames)
  OBVIOUS
<1>3. f.func \in U
  BY <1>1, <1>2, FrameNow
<1>4. Frame = f
  BY <1>2 DEF Frame, Inner, Depth
<1> QED
  BY <1>3, <1>4 DEF Callee

LEMMA CallSound ==
  ASSUME NEW U, Now(U), prog \in Programs, Call
  PROVE  Then
<1>1. PICK i : i = Executed(frames)
  OBVIOUS
<1>2. PICK c : c = Current(frames)
  OBVIOUS
<1>3. At({"CALL"})
  BY DEF Call
<1>4. /\ i.op = "CALL" /\ mode = "exec" /\ Ready(c, i) /\ WellFormed(i) /\ Arg = i.arg
      /\ Reads(i) \in 0 .. Len(c.stack) /\ Len(c.stack) \in Nat /\ Len(c.stack) \in 0 .. Len(stk)
  BY <1>1, <1>2, <1>3, Begun
<1>5. PICK k : k = i.arg
  OBVIOUS
<1>6. k = Takes(i) /\ k = Reads(i) /\ k > 0
  BY <1>4, <1>5 DEF Takes, Reads, WellFormed
<1>7. /\ k \in 0 .. Len(c.stack) /\ k - 1 \in 0 .. Len(c.stack) - 1 /\ Len(stk) \in Nat
      /\ k \in 0 .. Len(stk)
  BY <1>4, <1>6, StackIs
<1>8. PICK ops : ops = LastN(k)
  OBVIOUS
<1>9. /\ ops \in Seq(U) /\ Len(ops) = k /\ k \in Nat /\ \A j \in 1 .. k : LastN(k)[j] = Top(k - j)
  BY <1>7, <1>8, LastIs
<1>10. PICK v : v = ops[1]
  OBVIOUS
<1>11. PICK args : args = Tail(ops)
  OBVIOUS
<1>12. v \in U /\ args \in Seq(U)
  <2>1. 1 \in 1 .. Len(ops) /\ ops # <<>>
    BY <1>6, <1>9
  <2>2. v \in U
    BY <1>9, <1>10, <2>1, SeqIs
  <2> QED
    BY <1>9, <1>11, <2>1, <2>2, HeadTailProperties
<1>13. PICK callee : callee = Callee(v)
  OBVIOUS
<1>14. callee \in U
  BY <1>4, <1>12, <1>13, CalleeIs
<1>15. c.exc = "none" \/ Kind(callee) = "cfunc"
  <2>1. SUFFICES ASSUME Peek(c, i.arg - 1) = "cfunc"
                 PROVE  Kind(callee) = "cfunc"
    BY <1>4 DEF Ready
  <2>2. PICK m : m = k - 1
    OBVIOUS
  <2>3. IsA(Peek(c, m), Top(m))
    BY <1>2, <1>4, <1>7, <2>2, OperandNow
  <2>4. v = Top(m)
    BY <1>6, <1>8, <1>9, <1>10, <2>2
  <2>5. Kind(v) = "cfunc"
    BY <1>5, <2>1, <2>2, <2>3, <2>4 DEF IsA
  <2> QED
    BY <1>13, <2>5 DEF Callee
<1>16. PICK b : b = Cropped(stk, k)
  OBVIOUS
<1>17. Invokes(callee, args, b)
  <2>1. Under(k) = b
    BY <1>16, StackIs
  <2> QED
    BY <1>4, <1>5, <1>8, <1>10, <1>11, <1>13, <2>1 DEF Call
<1>18. i.op \in {"CALL", "CALLV"}
  BY <1>4
<1> QED
  BY <1>1, <1>2, <1>4, <1>6, <1>7, <1>12, <1>14, <1>15, <1>16, <1>17, <1>18, InvokesSound

LEMMA CallvSound ==
  ASSUME NEW U, Now(U), prog \in Programs, Callv
  PROVE  Then
<1>1. PICK i : i = Executed(frames)
  OBVIOUS
<1>2. PICK c : c = Current(frames)
  OBVIOUS
<1>3. At({"CALLV"})
  BY DEF Callv
<1>4. /\ i.op = "CALLV" /\ mode = "exec" /\ Ready(c, i) /\ Reads(i) \in 0 .. Len(c.stack)
      /\ Len(c.stack) \in Nat
  BY <1>1, <1>2, <1>3, Begun
<1>5. 1 = Takes(i) /\ 1 = Reads(i) /\ Peek(c, 0) = "list+" /\ c.exc = "none"
  BY <1>4 DEF Takes, Reads, Ready
<1>6. 1 \in 0 .. Len(c.stack) /\ 0 \in 0 .. Len(c.stack) - 1
  BY <1>4, <1>5
<1>7. PICK v : v = Top(0)
  OBVIOUS
<1>8. Fit(U, funcs, v) /\ IsA(Peek(c, 0), v)
  BY <1>2, <1>4, <1>6, <1>7, OperandNow
<1>9. PICK elems : elems = v[2]
  OBVIOUS
<1>10. Kind(v) = "list" /\ elems # <<>>
  BY <1>5, <1>8, <1>9 DEF IsA
<1>11. elems \in Seq(U)
  BY <1>8, <1>9, <1>10 DEF Fit, Iterable, Elements, Parted
<1>12. Head(elems) \in U /\ Tail(elems) \in Seq(U)
  BY <1>10, <1>11, HeadTailProperties
<1>13. PICK callee : callee = Callee(Head(elems))
  OBVIOUS
<1>14. PICK args : args = Tail(elems)
  OBVIOUS
<1>15. callee \in U /\ args \in Seq(U)
  BY <1>4, <1>12, <1>13, <1>14, CalleeIs
<1>16. PICK b : b = Cropped(stk, 1)
  OBVIOUS
<1>17. Invokes(callee, args, b)
  <2>1. Under(1) = b
    BY <1>16, StackIs
  <2> QED
    BY <1>7, <1>9, <1>10, <1>13, <1>14, <2>1 DEF Callv
<1>18. i.op \in {"CALL", "CALLV"}
  BY <1>4
<1> QED
  BY <1>1, <1>2, <1>4, <1>5, <1>6, <1>15, <1>16, <1>17, <1>18, InvokesSound

LEMMA TypeSound ==
  ASSUME NEW U, Now(U), Type
  PROVE  Then
<1>1. PICK i : i = Executed(frames)
  OBVIOUS
<1>2. PICK c : c = Current(frames)
  OBVIOUS
<1>3. At({"TYPE"})
  BY DEF Type
<1>4. /\ i.op = "TYPE" /\ mode = "exec" /\ Ready(c, i) /\ Reads(i) \in 0 .. Len(c.stack)
      /\ Len(c.stack) \in Nat /\ Frame = Inner(frames) /\ c \in States
  BY <1>1, <1>2, <1>3, Begun
<1>5. 2 = Takes(i) /\ 2 = Reads(i) /\ Tops(c, 2) = <<"code", "type">> /\ c.exc = "none"
  BY <1>4 DEF Takes, Reads, Ready
<1>6. 2 \in 0 .. Len(c.stack) /\ 1 \in 0 .. Len(c.stack) - 1
  BY <1>4, <1>5
<1>7. PICK v : v = Top(1)
  OBVIOUS
<1>8. v \in U /\ Fit(U, funcs, v) /\ IsA(Peek(c, 1), v)
  BY <1>2, <1>4, <1>6, <1>7, OperandNow
<1>9. Peek(c, 1) = "code"
  <2>1. c.stack \in Seq(Shapes)
    BY <1>4 DEF States
  <2>2. PICK tops : tops = Tops(c, 2)
    OBVIOUS
  <2>3. \A j \in 1 .. 2 : tops[j] = Peek(c, 2 - j)
    BY <1>6, <2>1, <2>2, TopsIs
  <2>4. tops[1] = Peek(c, 1)
    BY <2>3
  <2> QED
    BY <1>5, <2>2, <2>4
<1>10. PICK code : code = v[2]
  OBVIOUS
<1>11. code \in DOMAIN Code
  BY <1>8, <1>9, <1>10 DEF IsA, Fit
<1>12. PICK made : made = <<"type", Arg>>
  OBVIOUS
<1>13. Fit(U, funcs, made)
  <2>1. Kind(made) = "type"
    BY <1>12 DEF Kind
  <2>2. "type" \in Kinds /\ "type" \notin Parted
    BY DEF Kinds, Parted
  <2> QED
    BY <2>1, <2>2 DEF Fit, Iterable, Parted
<1>14. PICK V : V = U \cup {made}
  OBVIOUS
<1>15. Now(V) /\ v \in V /\ made \in V \cup {Null}
  BY <1>8, <1>13, <1>14, NowGrown
<1>16. PICK env : env = [n \in {} |-> Null]
  OBVIOUS
<1>17. env \in EnvIn(V)
  BY <1>16, EmptyEnv
<1>18. PICK n \in Nat : n = Len(envs)
  BY LenProperties DEF Now, Typed
<1>19. PICK f : f = Inner(frames)
  OBVIOUS
<1>20. PICK scope : scope = <<n + 1>> \o f.scope
  OBVIOUS
<1>21. scope \in Seq(1 .. Len(envs) + 1) /\ scope # <<>>
  <2>1. f.scope \in Seq(1 .. Len(envs))
    BY <1>2, <1>4, <1>19, FrameNow
  <2>2. f.scope \in Seq(1 .. n)
    BY <1>18, <2>1
  <2> QED
    BY <1>18, <1>20, <2>2, ScopeIs
<1>22. PICK b : b = Cropped(stk, 2)
  OBVIOUS
<1>23. Enters(v, code, scope, b, made) /\ envs' = Append(envs, env)
  <2>1. Under(2) = b
    BY <1>22, StackIs
  <2> QED
    BY <1>4, <1>7, <1>10, <1>12, <1>16, <1>18, <1>19, <1>20, <2>1 DEF Type, NewEnv
<1>24. i.op \in {"CALL", "CALLV", "TYPE"}
  BY <1>4
<1> QED
  BY <1>1, <1>2, <1>4, <1>5, <1>6, <1>11, <1>15, <1>17, <1>21, <1>22, <1>23, <1>24, EnteredNow

LEMMA MoreFuncs ==
  ASSUME NEW U, NEW fs, NEW st, NEW hs, NEW e, NEW es, NEW fu,
         Typed(U, fs, st, hs, e, es, fu), NEW fu2 \in Seq(FuncIn(U, Len(es))), Len(fu) <= Len(fu2)
  PROVE  Typed(U, fs, st, hs, e, es, fu2)
<1>1. Len(fu) \in Nat /\ Len(fu2) \in Nat
  BY LenProperties DEF Typed
<1>2. 1 .. Len(fu) \subseteq 1 .. Len(fu2)
  BY <1>1
<1>3. Closed(U, 1 .. Len(fu2))
  BY <1>2 DEF Typed, Closed
<1> QED
  BY <1>3 DEF Typed

LEMMA FuncSound ==
  ASSUME NEW U, Now(U), Func
  PROVE  Then
<1>1. PICK i : i = Executed(frames)
  OBVIOUS
<1>2. PICK c : c = Current(frames)
  OBVIOUS
<1>3. At({"FUNC"})
  BY DEF Func
<1>4. /\ i.op = "FUNC" /\ mode = "exec" /\ Ready(c, i) /\ Reads(i) \in 0 .. Len(c.stack)
      /\ Len(c.stack) \in Nat /\ Frame = Inner(frames) /\ WellFormed(i) /\ Arg = i.arg
  BY <1>1, <1>2, <1>3, Begun
<1>5. 1 = Takes(i) /\ 1 = Reads(i) /\ Peek(c, 0) = "code" /\ Puts(c, i) = <<"func">>
  BY <1>4 DEF Takes, Reads, Ready, Puts
<1>6. 1 \in 0 .. Len(c.stack) /\ 0 \in 0 .. Len(c.stack) - 1
  BY <1>4, <1>5
<1>7. PICK code : code = Top(0)[2]
  OBVIOUS
<1>8. code \in DOMAIN Code
  <2>1. Fit(U, funcs, Top(0)) /\ IsA(Peek(c, 0), Top(0))
    BY <1>2, <1>4, <1>6, OperandNow
  <2> QED
    BY <1>5, <1>7, <2>1 DEF IsA, Fit
<1>9. PICK f : f = [code |-> code, pars |-> i.arg.pars, va |-> i.arg.va, defa |-> <<>>,
                    scope |-> Inner(frames).scope]
  OBVIOUS
<1>10. PICK S : S = FuncIn(U, Len(envs))
  OBVIOUS
<1>11. f \in S
  <2>1. Inner(frames).scope \in Seq(1 .. Len(envs))
    BY <1>2, <1>4, FrameNow
  <2>2. i.arg.pars \in Seq(Locals) /\ i.arg.va \in -1 .. Len(i.arg.pars) - 1
    BY <1>4 DEF WellFormed
  <2>3. i.arg.va \in Int /\ <<>> \in Seq(U)
    <3>1. Len(i.arg.pars) \in Nat
      BY <2>2, LenProperties
    <3> QED
      BY <2>2, <3>1, EmptySeq
  <2> QED
    BY <1>8, <1>9, <1>10, <2>1, <2>2, <2>3 DEF FuncIn
<1>12. PICK fu2 : fu2 = Append(funcs, f)
  OBVIOUS
<1>13. funcs \in Seq(S) /\ Typed(U, frames, stk, handlers, exc, envs, funcs)
  BY <1>10 DEF Now, Typed
<1>14. fu2 \in Seq(S) /\ Len(fu2) = Len(funcs) + 1 /\ Len(funcs) \in Nat
  BY <1>11, <1>12, <1>13, AppendProperties, LenProperties
<1>15. Len(fu2) \in Nat /\ Len(fu2) \in 1 .. Len(fu2) /\ Len(funcs) <= Len(fu2)
  BY <1>14
<1>16. Typed(U, frames, stk, handlers, exc, envs, fu2)
  BY <1>10, <1>13, <1>14, <1>15, MoreFuncs
<1>17. Working(U, frames, stk, handlers, exc, assv, envs, funcs)
  BY <1>1, <1>2, <1>3, Begun
<1>18. Working(U, frames, stk, handlers, exc, assv, envs, fu2)
  BY <1>16, <1>17 DEF Working
<1>19. PICK v : v = <<"func", Len(fu2)>>
  OBVIOUS
<1>20. Fit(U, fu2, v) /\ IsA("func", v) /\ "func" \in Shapes
  <2>1. Kind(v) = "func" /\ v[2] = Len(fu2)
    BY <1>19 DEF Kind
  <2>2. "func" \in Kinds /\ "func" \notin Parted \ {"func"}
    BY DEF Kinds, Parted
  <2> QED
    BY <1>15, <2>1, <2>2 DEF Fit, Iterable, Parted, IsA, Shapes
<1>21. PICK st2 : st2 = Append(Cropped(stk, 1), v)
  OBVIOUS
<1>22. PICK gs : gs = Going(frames, Behind(frames))
  OBVIOUS
<1>23. i.op \in Plainly /\ i.op # "ASSV" /\ i.op # "FINALLY_END"
  BY <1>4 DEF Plainly, Ops
<1>24. exc \in U \cup {Null} /\ Excepts(Pending(c, i), exc)
  BY <1>2, <1>4, <1>23, HandlersIs, PendingNow
<1>25. Sound(gs, st2, handlers, exc, assv, envs, fu2, "exec")
  <2>1. PICK kind : kind = "func"
    OBVIOUS
  <2>2. kind \in Shapes /\ Puts(c, i) = <<kind>> /\ IsA(kind, v)
    BY <1>5, <1>20, <2>1
  <2> QED
    BY <1>1, <1>2, <1>5, <1>6, <1>18, <1>20, <1>21, <1>22, <1>23, <1>24, <2>2, Pushed
<1>26. funcs' = fu2 /\ UNCHANGED <<exc, envs, assv>>
  BY <1>4, <1>7, <1>9, <1>12 DEF Func
<1>27. Goes(0, st2)
  <2>1. Under(1) = Cropped(stk, 1)
    BY StackIs
  <2> QED
    BY <1>19, <1>21, <1>26, <2>1 DEF Func, Proceeds
<1>28. frames' = gs /\ stk' = st2 /\ handlers' = handlers /\ mode' = "exec"
  BY <1>4, <1>22, <1>27, WentOn
<1> QED
  BY <1>25, <1>26, <1>28 DEF Then

LEMMA FuncDefaSound ==
  ASSUME NEW U, Now(U), FuncDefa
  PROVE  Then
<1>1. PICK i : i = Executed(frames)
  OBVIOUS
<1>2. PICK c : c = Current(frames)
  OBVIOUS
<1>3. At({"FUNC_DEFA"})
  BY DEF FuncDefa
<1>4. /\ i.op = "FUNC_DEFA" /\ mode = "exec" /\ Ready(c, i) /\ Reads(i) \in 0 .. Len(c.stack)
      /\ Len(c.stack) \in Nat /\ WellFormed(i) /\ Arg = i.arg
      /\ Working(U, frames, stk, handlers, exc, assv, envs, funcs)
      /\ Len(c.stack) \in 0 .. Len(stk)
  BY <1>1, <1>2, <1>3, Begun
<1>5. PICK k : k = i.arg
  OBVIOUS
<1>6. k = Takes(i) /\ k + 1 = Reads(i) /\ k \in Nat /\ Puts(c, i) = <<>>
  BY <1>4, <1>5 DEF Takes, Reads, WellFormed, Puts
<1>7. Len(stk) \in Nat
  BY StackIs
<1>8. k \in 0 .. Len(c.stack) /\ k \in 0 .. Len(c.stack) - 1 /\ k \in 0 .. Len(stk)
  BY <1>4, <1>6, <1>7
<1>9. PICK v : v = Top(k)
  OBVIOUS
<1>10. v \in U
  BY <1>2, <1>4, <1>8, <1>9, OperandNow
<1>11. Kind(v) = "func"
  BY <1>4, <1>5, <1>9 DEF FuncDefa
<1>12. PICK defa : defa = LastN(k)
  OBVIOUS
<1>13. defa \in Seq(U)
  BY <1>8, <1>12, LastIs
<1>14. PICK j : j = v[2]
  OBVIOUS
<1>15. PICK S : S = FuncIn(U, Len(envs))
  OBVIOUS
<1>16. funcs[j] \in S /\ j \in 1 .. Len(funcs)
  BY <1>10, <1>11, <1>14, <1>15, FuncIs
<1>17. PICK f : f = [funcs[j] EXCEPT !.defa = defa]
  OBVIOUS
<1>18. f \in S
  BY <1>13, <1>15, <1>16, <1>17 DEF FuncIn
<1>19. PICK fu2 : fu2 = [funcs EXCEPT ![j] = f]
  OBVIOUS
<1>20. funcs \in Seq(S) /\ Typed(U, frames, stk, handlers, exc, envs, funcs)
  BY <1>15 DEF Now, Typed
<1>21. fu2 \in Seq(S) /\ Len(fu2) = Len(funcs) /\ Len(funcs) \in Nat
  BY <1>16, <1>18, <1>19, <1>20, ExceptSeq, LenProperties
<1>22. Typed(U, frames, stk, handlers, exc, envs, fu2)
  <2>1. Len(funcs) <= Len(fu2)
    BY <1>21
  <2> QED
    BY <1>15, <1>20, <1>21, <2>1, MoreFuncs
<1>23. i.op \in Plainly /\ i.op # "ASSV" /\ i.op # "FINALLY_END"
  BY <1>4 DEF Plainly, Ops
<1>24. UNCHANGED <<exc, envs, assv>> /\ funcs' = fu2
  BY <1>4, <1>5, <1>9, <1>12, <1>14, <1>17, <1>19 DEF FuncDefa
<1>25. PICK b : b = Cropped(stk, k)
  OBVIOUS
<1>26. Proceeds(b)
  <2>1. Under(k) = b
    BY <1>25, StackIs
  <2> QED
    BY <1>4, <1>5, <2>1 DEF FuncDefa
<1>27. Excepts(Pending(c, i), exc')
  BY <1>2, <1>4, <1>23, <1>24, PendingNow
<1>28. /\ frames' \in Seq(FrameIn(U, Len(envs))) /\ stk' \in Seq(U) /\ handlers' = handlers
       /\ Controlled(frames', stk', handlers', exc', assv', mode')
  BY <1>1, <1>2, <1>4, <1>6, <1>8, <1>23, <1>25, <1>26, <1>27, LeftNow
<1>29. Typed(U, frames', stk', handlers', exc', envs', funcs')
  BY <1>22, <1>24, <1>28 DEF Typed
<1> QED
  BY <1>28, <1>29 DEF Then, Sound

-----------------------------------------------------------------------------
(* The theorems *)

LEMMA NothingImpossible ==
  ASSUME NEW U, Now(U), mode = "exec"
  PROVE  ~Impossible
<1>1. PICK i : i = Executed(frames)
  OBVIOUS
<1>2. PICK c : c = Current(frames)
  OBVIOUS
<1>3. /\ Working(U, frames, stk, handlers, exc, assv, envs, funcs)
      /\ Op = i.op /\ Arg = i.arg /\ Operands = Reads(i)
  BY <1>1, AtWork DEF Now
<1>4. PICK f : f = Inner(frames)
  OBVIOUS
<1>5. /\ i.op \in Ops /\ Ready(c, i) /\ WellFormed(i) /\ c \in States /\ Outlined(c)
      /\ In(c, f, stk, handlers, exc, assv) /\ f.snh \in Nat
  BY <1>1, <1>2, <1>3, <1>4, WorkingIs
<1>6. Len(c.stack) \in 0 .. Len(stk) /\ Len(stk) \in Nat /\ Len(c.stack) \in Nat
  BY <1>2, <1>3, OperandIs
<1>7. Reads(i) \in 0 .. Len(c.stack)
  BY <1>5 DEF Ready
<1>8. Op # "ARG"
  BY <1>3, <1>5 DEF Ops
<1>9. ~(Len(stk) < Operands)
  BY <1>3, <1>6, <1>7
<1>10. ASSUME Op \in {"TRY_CATCH", "TRY_CATCH_ALL"}
       PROVE  exc # Null
  <2>1. c.exc = "some"
    BY <1>3, <1>5, <1>10 DEF Ready
  <2> QED
    BY <1>5, <2>1 DEF In, Excepts
<1>11. ASSUME Op = "TRY_END"
       PROVE  handlers # <<>>
  <2>1. c.tries # <<>>
    BY <1>3, <1>5, <1>11 DEF Ready
  <2>2. Len(handlers) = f.snh + Len(c.tries)
    BY <1>5 DEF In
  <2>3. Len(c.tries) \in Nat \ {0}
    <3>1. c.tries \in Seq([to : Nat, stack : Seq(Shapes), whole : BOOLEAN])
      BY <1>5 DEF Outlined
    <3> QED
      BY <2>1, <3>1, LenProperties, EmptySeq
  <2>4. Len(handlers) # 0
    BY <1>5, <2>2, <2>3
  <2> QED
    BY <2>4
<1>12. ASSUME Op = "FUNC_DEFA"
       PROVE  Kind(Top(Arg)) = "func"
  <2>1. PICK k : k = i.arg
    OBVIOUS
  <2>2. Peek(c, k) = "func" /\ k \in Nat /\ Reads(i) = k + 1
    BY <1>3, <1>5, <1>12, <2>1 DEF Ready, WellFormed, Reads
  <2>3. k \in 0 .. Len(c.stack) - 1
    BY <1>6, <1>7, <2>2
  <2>4. IsA(Peek(c, k), Top(k))
    BY <1>2, <2>3, OperandNow
  <2> QED
    BY <1>3, <2>1, <2>2, <2>4 DEF IsA
<1>13. ASSUME Op = "TYPE"
       PROVE  Kind(Top(0)) = "type"
  <2>1. Tops(c, 2) = <<"code", "type">> /\ Reads(i) = 2
    BY <1>3, <1>5, <1>13 DEF Ready, Reads
  <2>2. 2 \in 0 .. Len(c.stack) /\ 0 \in 0 .. Len(c.stack) - 1
    BY <1>6, <1>7, <2>1
  <2>3. c.stack \in Seq(Shapes)
    BY <1>5 DEF Outlined
  <2>4. PICK tops : tops = Tops(c, 2)
    OBVIOUS
  <2>5. \A j \in 1 .. 2 : tops[j] = Peek(c, 2 - j)
    BY <2>2, <2>3, <2>4, TopsIs
  <2>6. tops[2] = Peek(c, 0)
    BY <2>5
  <2>7. Peek(c, 0) = "type"
    BY <2>1, <2>4, <2>6
  <2>8. IsA(Peek(c, 0), Top(0))
    BY <1>2, <2>2, OperandNow
  <2> QED
    BY <2>7, <2>8 DEF IsA
<1> QED
  BY <1>8, <1>9, <1>10, <1>11, <1>12, <1>13 DEF Impossible

LEMMA StepSound ==
  ASSUME NEW U, Now(U), prog \in Programs, Step
  PROVE  Then
<1>1. CASE Push BY <1>1, PushSound
<1>2. CASE Popu BY <1>2, PopuSound
<1>3. CASE Dup BY <1>3, DupSound
<1>4. CASE Rcr BY <1>4, RcrSound
<1>5. CASE Load BY <1>5, LoadSound
<1>6. CASE Store BY <1>6, StoreSound
<1>7. CASE Assv BY <1>7, AssvSound
<1>8. CASE Assm BY <1>8, AssmSound
<1>9. CASE Getattr BY <1>9, GetattrSound
<1>10. CASE Setattr BY <1>10, SetattrSound
<1>11. CASE Getelems BY <1>11, GetelemsSound
<1>12. CASE Setelems BY <1>12, SetelemsSound
<1>13. CASE Operator BY <1>13, OperatorSound
<1>14. CASE Not BY <1>14, NotSound
<1>15. CASE Slice BY <1>15, SliceSound
<1>16. CASE Construct BY <1>16, ConstructSound
<1>17. CASE Pushn BY <1>17, PushnSound
<1>18. CASE Pushi BY <1>18, PushiSound
<1>19. CASE Call BY <1>19, CallSound
<1>20. CASE Callv BY <1>20, CallvSound
<1>21. CASE Func BY <1>21, FuncSound
<1>22. CASE FuncDefa BY <1>22, FuncDefaSound
<1>23. CASE Type BY <1>23, TypeSound
<1>24. CASE Import BY <1>24, ImportSound
<1>25. CASE Jmp BY <1>25, JmpSound
<1>26. CASE JmpIf BY <1>26, JmpIfSound
<1>27. CASE Ret_ BY <1>27, RetSound
<1>28. CASE Throw_ BY <1>28, ThrowSound
<1>29. CASE Assert_ BY <1>29, AssertSound
<1>30. CASE ForStart BY <1>30, ForStartSound
<1>31. CASE ForNext BY <1>31, ForNextSound
<1>32. CASE TryStart BY <1>32, TryStartSound
<1>33. CASE TryEnd BY <1>33, TryEndSound
<1>34. CASE TryCatch BY <1>34, TryCatchSound
<1>35. CASE TryCatchAll BY <1>35, TryCatchAllSound
<1>36. CASE FinallyEnd BY <1>36, FinallyEndSound
<1>37. CASE Handle BY <1>37, HandleSound
<1>38. CASE Unwind BY <1>38, UnwindSound
<1>39. CASE Crash BY <1>39, NothingImpossible DEF Crash
<1> QED
  BY <1>1, <1>2, <1>3, <1>4, <1>5, <1>6, <1>7, <1>8, <1>9, <1>10, <1>11, <1>12, <1>13, <1>14,
     <1>15, <1>16, <1>17, <1>18, <1>19, <1>20, <1>21, <1>22, <1>23, <1>24, <1>25, <1>26, <1>27,
     <1>28, <1>29, <1>30, <1>31, <1>32, <1>33, <1>34, <1>35, <1>36, <1>37, <1>38, <1>39 DEF Step

LEMMA ProgramStays ==
  ASSUME Step
  PROVE  prog' = prog
<1>1. ASSUME NEW v, NEW below, Pushes(v, below) PROVE prog' = prog
  BY <1>1 DEF Pushes, Plain, Rest
<1>2. ASSUME NEW type, NEW below, Fails(type, below) PROVE prog' = prog
  BY <1>2 DEF Fails, Rest
<1>3. ASSUME NEW event, NEW args, NEW lost, NEW below, NEW kept,
             External(event, args, lost, below, kept)
      PROVE  prog' = prog
  BY <1>3 DEF External, Rest
<1>4. ASSUME NEW callee, NEW code, NEW scope, NEW below, NEW made,
             Enters(callee, code, scope, below, made)
      PROVE  prog' = prog
  BY <1>4 DEF Enters, Rest
<1>5. ASSUME NEW callee, NEW args, NEW below, Invokes(callee, args, below) PROVE prog' = prog
  BY <1>2, <1>3, <1>4, <1>5 DEF Invokes
<1>6. ASSUME NEW n, NEW elems, Extends(n, elems) PROVE prog' = prog
  BY <1>1, <1>2, <1>6 DEF Extends, Rest
<1>7. ASSUME NEW by, NEW below, Catches(by, below) PROVE prog' = prog
  BY <1>7 DEF Catches, Rest
<1>8. ASSUME Plain PROVE prog' = prog
  BY <1>8 DEF Plain, Rest
<1>9. ASSUME Rest PROVE prog' = prog
  BY <1>9 DEF Rest
<1>10. CASE Push \/ Popu \/ Dup \/ Rcr \/ Load \/ Store \/ Assv \/ Assm
  BY <1>1, <1>2, <1>8, <1>9, <1>10 DEF Push, Popu, Dup, Rcr, Load, Store, Assv, Assm
<1>11. CASE Getattr \/ Setattr \/ Getelems \/ Setelems \/ Operator \/ Not
  BY <1>1, <1>2, <1>3, <1>11 DEF Getattr, Setattr, Getelems, Setelems, Operator, Not, Computes
<1>12. CASE Slice \/ Construct \/ Pushn \/ Pushi
  BY <1>1, <1>2, <1>6, <1>9, <1>12 DEF Slice, Construct, Pushn, Pushi
<1>13. CASE Call \/ Callv \/ Func \/ FuncDefa \/ Type \/ Import
  BY <1>4, <1>5, <1>9, <1>13 DEF Call, Callv, Func, FuncDefa, Type, Import
<1>14. CASE Jmp \/ JmpIf \/ Ret_ \/ Throw_ \/ Assert_ \/ ForStart \/ ForNext
  BY <1>1, <1>2, <1>8, <1>9, <1>14
  DEF Jmp, JmpIf, Ret_, Return, Throw_, Assert_, ForStart, ForNext
<1>15. CASE TryStart \/ TryEnd \/ TryCatchAll \/ FinallyEnd \/ Handle \/ Unwind \/ Crash
  BY <1>7, <1>8, <1>9, <1>15 DEF TryStart, TryEnd, TryCatchAll, FinallyEnd, Handle, Unwind, Crash
<1>16. CASE TryCatch
  <2>1. Verdict(Top(0), exc) \in {"caught", "passed", "malformed"}
    BY DEF Verdict
  <2> QED
    BY <1>2, <1>7, <1>8, <1>16, <2>1 DEF TryCatch
<1> QED
  BY <1>10, <1>11, <1>12, <1>13, <1>14, <1>15, <1>16 DEF Step

LEMMA InitSound ==
  ASSUME Init
  PROVE  IInv
<1>1. PICK p : p = prog
  OBVIOUS
<1>2. p \in Programs /\ p \in DOMAIN Code
  BY <1>1, CertificateAssumption DEF Init
<1>3. Code[p] # <<>>
  <2>1. Certifies(p)
    BY <1>2, CertificateAssumption
  <2>2. 1 \in DOMAIN Code[p]
    BY <2>1 DEF Certifies
  <2> QED
    BY <2>2
<1>4. PICK g : g = [func |-> <<"code", p>>, code |-> p, pc |-> 1,
                    scope |-> <<1>>, ssl |-> 0, snh |-> 0, made |-> Null]
  OBVIOUS
<1>5. PICK env : env = [n \in {} |-> Null]
  OBVIOUS
<1>6. /\ frames = <<g>> /\ stk = <<>> /\ handlers = <<>> /\ exc = Null /\ envs = <<env>>
      /\ funcs = <<>> /\ mode = "exec"
  BY <1>1, <1>3, <1>4, <1>5 DEF Init
<1>7. PICK v : v = <<"code", p>>
  OBVIOUS
<1>8. PICK U : U = Base \cup {v}
  OBVIOUS
<1>9. Closed(U, {})
  <2>1. Kind(v) = "code" /\ v[2] = p
    BY <1>7 DEF Kind
  <2>2. "code" \in Kinds /\ "code" \notin Parted \ {"code"}
    BY DEF Kinds, Parted
  <2>3. Base \subseteq U /\ Closed(Base, {})
    BY <1>8, CertificateAssumption
  <2>4. Seq(Base) \subseteq Seq(U)
    BY <2>3, SeqMonotonic
  <2>5. ASSUME NEW w \in U
        PROVE  /\ Kind(w) \in Kinds
               /\ Iterable(w) => Elements(w) \in Seq(U)
               /\ Kind(w) = "code" => w[2] \in DOMAIN Code
               /\ Kind(w) = "func" => w[2] \in {}
    <3>1. CASE w = v
      BY <1>2, <2>1, <2>2, <3>1 DEF Iterable, Parted
    <3>2. CASE w \in Base
      BY <2>3, <2>4, <3>2 DEF Closed
    <3> QED
      BY <1>8, <3>1, <3>2
  <2> QED
    BY <2>5 DEF Closed
<1>10. env \in EnvIn(U)
  BY <1>5, EmptyEnv
<1>11. envs \in Seq(EnvIn(U)) /\ Len(envs) = 1
  BY <1>6, <1>10
<1>12. g \in FrameIn(U, 1)
  <2>1. <<1>> \in Seq(1 .. 1) /\ <<1>> # <<>> /\ v \in U
    BY <1>8
  <2> QED
    BY <1>2, <1>4, <1>7, <2>1 DEF FrameIn
<1>13. Typed(U, frames, stk, handlers, exc, envs, funcs)
  <2>1. frames \in Seq(FrameIn(U, Len(envs)))
    BY <1>6, <1>11, <1>12
  <2>2. stk \in Seq(U) /\ handlers \in Seq(Handlers) /\ funcs \in Seq(FuncIn(U, Len(envs)))
    BY <1>6, EmptySeq
  <2>3. Closed(U, 1 .. Len(funcs))
    <3>1. 1 .. Len(funcs) = {}
      BY <1>6
    <3> QED
      BY <1>9, <3>1
  <2> QED
    BY <1>6, <1>8, <1>11, <2>1, <2>2, <2>3 DEF Typed
<1>14. Executes(g, stk, handlers, exc, assv)
  <2>1. stk \in Seq(U) /\ handlers \in Seq(Handlers)
    BY <1>13 DEF Typed
  <2>2. g.code \in DOMAIN Code /\ g.pc = 1 /\ g.snh \in Nat /\ g.ssl = Len(stk) /\ g.snh = Len(handlers)
    BY <1>2, <1>4, <1>6
  <2>3. Executes(g, stk, handlers, Null, assv)
    BY <2>1, <2>2, Started
  <2> QED
    BY <1>6, <2>3
<1>15. Nested(frames, stk, handlers)
  <2>1. Len(frames) = 1 /\ frames[1] = g /\ g.ssl = 0 /\ g.snh = 0
    BY <1>4, <1>6
  <2>2. \A j \in 1 .. 1 : j = 1
    OBVIOUS
  <2>3. 1 .. Len(frames) - 1 = {}
    BY <2>1
  <2> QED
    BY <2>1, <2>2, <2>3 DEF Nested
<1>16. Controlled(frames, stk, handlers, exc, assv, mode)
  <2>1. frames # <<>> /\ frames[Len(frames)] = g
    BY <1>6
  <2> QED
    BY <1>6, <1>14, <1>15, <2>1 DEF Controlled
<1> QED
  BY <1>1, <1>2, <1>13, <1>16 DEF IInv

LEMMA NextSound ==
  ASSUME IInv, [Next]_vars
  PROVE  IInv'
<1>1. PICK U : Now(U)
  BY DEF IInv, Now
<1>2. prog \in Programs
  BY DEF IInv
<1>3. CASE Step
  <2>1. Then
    BY <1>1, <1>2, <1>3, StepSound
  <2>2. prog' = prog
    BY <1>3, ProgramStays
  <2> QED
    BY <1>2, <2>1, <2>2 DEF IInv, Then, Sound
<1>4. CASE UNCHANGED vars
  BY <1>4 DEF vars, heap, IInv
<1> QED
  BY <1>3, <1>4 DEF Next, Over

(* Whatever the calls, operators and iterators of a program come back      *)
(* with, the frame that is executed is where its certificate has a state,  *)
(* in that state, and every frame below it awaits the one it called.       *)
THEOREM Invariant == Spec => []IInv
<1>1. Init => IInv
  BY InitSound
<1>2. IInv /\ [Next]_vars => IInv'
  BY NextSound
<1> QED
  BY <1>1, <1>2, PTL DEF Spec

(* No assertion of _ks_exec fails, it never reads below its stack and it   *)
(* executes nothing but instructions, in code that has a certificate.      *)
THEOREM Sure == Spec => []NeverCrashes
<1>1. IInv => NeverCrashes
  BY DEF IInv, Controlled, NeverCrashes
<1> QED
  BY <1>1, Invariant, PTL

LEMMA FrameStands ==
  ASSUME NEW U, Now(U), frames # <<>>, NEW f, f = Inner(frames)
  PROVE  f.ssl <= Len(stk) /\ f.snh <= Len(handlers)
<1>1. PICK c : c = Current(frames)
  OBVIOUS
<1>2. CASE mode = "exec"
  <2>1. /\ c \in States /\ f.ssl \in Nat /\ f.snh \in Nat /\ handlers \in Seq(Handlers)
        /\ Len(stk) \in Nat /\ In(c, f, stk, handlers, exc, assv) /\ f.snh <= Len(handlers)
        /\ Working(U, frames, stk, handlers, exc, assv, envs, funcs)
    BY <1>1, <1>2, FrameNow
  <2>2. Outlined(c)
    BY <1>1, <2>1, WorkingIs
  <2>3. Tries(c, f, stk, handlers) /\ Lowest(c, f, handlers) + Len(c.stack) <= Len(stk)
    BY <2>1 DEF In, Known
  <2>4. Lowest(c, f, handlers) \in Nat /\ f.ssl <= Lowest(c, f, handlers)
    BY <2>1, <2>2, <2>3, LowestIs
  <2>5. Len(c.stack) \in Nat
    BY <2>2, OutlinedIs
  <2> QED
    BY <2>1, <2>3, <2>4, <2>5
<1>3. CASE mode = "thrown"
  <2>1. /\ Outlined(c) /\ f.ssl \in Nat /\ f.snh \in Nat /\ handlers \in Seq(Handlers)
        /\ Len(stk) \in Nat /\ Out(c, f, stk, handlers, exc) /\ f.snh <= Len(handlers)
    BY <1>1, <1>3, FallingIs
  <2>2. Tries(c, f, stk, handlers) /\ Lowest(c, f, handlers) <= Len(stk)
    BY <2>1 DEF Out
  <2>3. Lowest(c, f, handlers) \in Nat /\ f.ssl <= Lowest(c, f, handlers)
    BY <2>1, <2>2, LowestIs
  <2> QED
    BY <2>1, <2>2, <2>3
<1> QED
  BY <1>2, <1>3 DEF Now, Controlled

(* A frame leaves the values and the handlers below its own alone, in      *)
(* calls nested however deep.                                              *)
THEOREM Nests == Spec => []FramesNest
<1>1. ASSUME IInv
      PROVE  FramesNest
  <2>1. PICK U : Now(U)
    BY <1>1 DEF IInv, Now
  <2>2. PICK n \in Nat : n = Len(frames)
    BY <2>1, LenProperties DEF Now, Typed
  <2>3. DOMAIN frames = 1 .. n
    BY <2>1, <2>2, LenProperties DEF Now, Typed
  <2>4. /\ \A i, j \in 1 .. n : i <= j => /\ frames[i].ssl <= frames[j].ssl
                                          /\ frames[i].snh <= frames[j].snh
    BY <2>1, <2>2 DEF Now, Controlled, Nested
  <2>5. ASSUME NEW i \in 1 .. n, i < n
        PROVE  /\ frames[i].ssl <= frames[i + 1].ssl /\ frames[i].snh <= frames[i + 1].snh
    <3>1. i + 1 \in 1 .. n /\ i <= i + 1
      BY <2>2, <2>5
    <3> QED
      BY <2>4, <3>1
  <2>6. ASSUME NEW i \in 1 .. n, ~(i < n)
        PROVE  /\ frames[i].ssl <= Len(stk) /\ frames[i].snh <= Len(handlers)
    <3>1. i = Len(frames) /\ Len(frames) # 0
      BY <2>2, <2>6
    <3>2. frames # <<>>
      BY <3>1
    <3>3. Inner(frames).ssl <= Len(stk) /\ Inner(frames).snh <= Len(handlers)
      BY <2>1, <3>2, FrameStands
    <3> QED
      BY <3>1, <3>3 DEF Inner
  <2>7. Depth = n
    BY <2>2 DEF Depth
  <2> QED
    BY <2>3, <2>5, <2>6, <2>7 DEF FramesNest
<1> QED
  BY <1>1, Invariant, PTL

LEMMA Returns ==
  ASSUME NEW U, Now(U), AtReturn
  PROVE  Len(handlers) = Frame.snh /\ exc = Null
<1>1. PICK i : i = Executed(frames)
  OBVIOUS
<1>2. PICK c : c = Current(frames)
  OBVIOUS
<1>3. mode = "exec" /\ Op = "RET"
  BY DEF AtReturn
<1>4. /\ Working(U, frames, stk, handlers, exc, assv, envs, funcs) /\ Op = i.op
      /\ Frame = Inner(frames)
  BY <1>1, <1>3, AtWork DEF Now
<1>5. PICK f : f = Inner(frames)
  OBVIOUS
<1>6. Ready(c, i) /\ In(c, f, stk, handlers, exc, assv) /\ f.snh \in Nat
  BY <1>1, <1>2, <1>4, <1>5, WorkingIs
<1>7. c.tries = <<>> /\ c.exc = "none"
  BY <1>3, <1>4, <1>6 DEF Ready
<1>8. Len(handlers) = f.snh + Len(c.tries) /\ Excepts(c.exc, exc)
  BY <1>6 DEF In
<1>9. Len(c.tries) = 0
  BY <1>7
<1> QED
  BY <1>4, <1>5, <1>6, <1>7, <1>8, <1>9 DEF Excepts

(* A frame that returns has taken all the handlers it set off the stack of *)
(* handlers.                                                               *)
THEOREM Balanced == Spec => []HandlersBalanced
<1>1. IInv => HandlersBalanced
  BY Returns DEF IInv, Now, HandlersBalanced
<1> QED
  BY <1>1, Invariant, PTL

(* No exception is pending when a frame returns a value.                   *)
THEOREM EitherOne == Spec => []ValueOrException
<1>1. IInv => ValueOrException
  BY Returns DEF IInv, Now, ValueOrException
<1> QED
  BY <1>1, Invariant, PTL
=============================================================================
