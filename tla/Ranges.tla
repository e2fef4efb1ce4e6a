-------------------------------- MODULE Ranges --------------------------------
(***************************************************************************)
(* A range, types/range.c, and its iterator, in kso_next of kso.c.  Integers *)
(* are of any size; the iterator counts with those of C if start, end and  *)
(* step are such.                                                          *)
(***************************************************************************)
EXTENDS Integers, Sequences, FiniteSets

CONSTANTS
    Half,           \* integers of C are -Half .. Half - 1
    Beyond,         \* how far bounds go beyond them
    MaxStride,      \* the largest step
    MaxGiven        \* how many an iterator is asked for

VARIABLES
    range,
    use_ci,         \* whether the iterator counts with integers of C
    counter,        \* the next one, or without use_ci the last one
    done,
    yielded         \* what the iterator has given

vars == <<range, use_ci, counter, done, yielded>>

CInts == -Half .. Half - 1
Wrapped(i) == ((i + Half) % (2 * Half)) - Half

(* range.__len and range.__contains.  The quotient is rounded down. *)
FloorDiv(a, b) == IF b > 0 THEN a \div b ELSE (-a) \div (-b)
Length(r) ==
    LET whole == FloorDiv(r.end - r.start, r.step)
    IN  IF whole < 0 THEN 0 ELSE whole

Bounds(r, i) == IF r.step > 0 THEN r.start <= i /\ i < r.end ELSE r.end < i /\ i <= r.start
Stride(r) == IF r.step > 0 THEN r.step ELSE -r.step
Contains(r, i) == Bounds(r, i) /\ (i - r.start) % Stride(r) = 0

-----------------------------------------------------------------------------
Init ==
    /\ range \in [start : -Half - Beyond .. Half + Beyond, end : -Half - Beyond .. Half + Beyond,
                  step : (-MaxStride .. MaxStride) \ {0}]
    /\ use_ci = (\A f \in {"start", "end", "step"} : range[f] \in CInts)
    /\ counter = range.start
    /\ done = FALSE /\ yielded = <<>>

(* Mutant: a range ends only where it meets its end. *)
PassedExactly(i) == i = range.end

Passed(i) == i = range.end \/ (range.step > 0 /\ i > range.end) \/ (range.step < 0 /\ i < range.end)

(* The next one, with integers of C: it is counted on before it is looked at, *)
(* and without a look at whether it can be.  Where it cannot, it is undefined;  *)
(* the build wraps.                                                           *)
Count ==
    /\ use_ci
    /\ IF Passed(counter) THEN done' = TRUE /\ UNCHANGED <<counter, yielded>>
       ELSE /\ counter' = Wrapped(counter + range.step)
            /\ yielded' = Append(yielded, counter)
            /\ UNCHANGED done

(* ... and exactly *)
Add ==
    /\ ~use_ci
    /\ counter' = IF yielded = <<>> THEN counter ELSE counter + range.step
    /\ IF Passed(counter') THEN done' = TRUE /\ UNCHANGED yielded
       ELSE yielded' = Append(yielded, counter') /\ UNCHANGED done

Next ==
    /\ ~done /\ Len(yielded) < MaxGiven
    /\ Count \/ Add
    /\ UNCHANGED <<range, use_ci>>

Spec == Init /\ [][Next]_vars

-----------------------------------------------------------------------------
(* What a range means: start, and on by step while that is before end. *)
Term(k) == range.start + (k - 1) * range.step
Before(i) == IF range.step > 0 THEN i < range.end ELSE i > range.end
Terms == {k \in 1 .. 2 * (Half + Beyond) + 1 : Before(Term(k))}

(* Where the code does otherwise (README, 5): a range whose last term cannot *)
(* be counted on in an integer of C goes on from the other end of those.    *)
Overflows == use_ci /\ \E k \in Terms : Term(k) + range.step \notin CInts

(* What an iterator has given is what the range means, as far as it has come, *)
(* and all of it when it ends, unless the last step overflows; exactly the    *)
(* same are in the range; and they are as many as its length says, unless the *)
(* step does not divide it.                                                   *)
RangesAsMeant ==
    /\ ~Overflows =>
        /\ Len(yielded) <= Cardinality(Terms)
        /\ \A k \in DOMAIN yielded : yielded[k] = Term(k)
        /\ done => Len(yielded) = Cardinality(Terms)
    /\ Overflows => \A k \in DOMAIN yielded \cap Terms : yielded[k] = Term(k)
    /\ \A i \in -Half - Beyond .. Half + Beyond : Contains(range, i) <=> \E k \in Terms : i = Term(k)
    /\ (range.end - range.start) % Stride(range) = 0 \/ Terms = {} => Length(range) = Cardinality(Terms)
=============================================================================
