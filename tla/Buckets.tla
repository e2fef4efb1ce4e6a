------------------------------- MODULE Buckets -------------------------------
(***************************************************************************)
(* How many buckets a hash table has (src/src/types/dict.c, set.c): the    *)
(* load factors 0.6 and 0.3 and the primes of ks_nextprime.                *)
(***************************************************************************)
EXTENDS Integers, FiniteSets

IsPrime(n) == n > 1 /\ \A d \in 2 .. n - 1 : n % d # 0

(* ks_nextprime: the first prime after x, counting up past what is not     *)
NextPrime(x) ==
    IF x < 2 THEN 2
    ELSE x + 1 + Cardinality({n \in x + 1 .. 2 * x : \A m \in x + 1 .. n : ~IsPrime(m)})

(* The load of entries in buckets is above S_LOAD_MAX, or cannot be told.  *)
TooFull(entries, buckets) == buckets = 0 \/ 10 * entries > 6 * buckets

(* The buckets s_resize wants, for the load S_LOAD_NEW; none is given back.*)
Wanted(entries) == NextPrime((10 * entries) \div 3)

Grown(entries, buckets) == IF buckets >= Wanted(entries) THEN buckets ELSE Wanted(entries)
=============================================================================
