------------------------------- MODULE Indexing -------------------------------
(***************************************************************************)
(* Indices, slices and iterators of sequences: kso_getelems and kso_next   *)
(* of kso.c, with types/slice.c and the character iterator of types/str.c. *)
(* A list or tuple is an array of elements.  A text is bytes: a narrow     *)
(* character is one, a wide one two, the first of which is no continuation *)
(* byte, and both of which have the high bit.                              *)
(***************************************************************************)
EXTENDS Integers, Sequences, SequencesExt

CONSTANTS
    NULL,
    MaxLen,         \* the longest sequence
    MaxIndex,       \* the largest index, start or end
    MaxStep         \* the largest step

VARIABLES
    kind,           \* "array" or "text"
    widths,         \* of each character; 1 for an element
    asked,          \* what the program asked for, once
    parts,          \* what it was given: an element or string, or those of an iteration
    pos             \* of the iterator, in bytes

vars == <<kind, widths, asked, parts, pos>>

n == Len(widths)

(* The bytes of a character, and those of the whole text.  An element is a  *)
(* character of one byte.                                                   *)
Char(i) == [k \in 1 .. widths[i + 1] |-> <<i, k>>]
Chars == [i \in 1 .. n |-> Char(i - 1)]
data == FlattenSeq(Chars)
len_b == Len(data)
Offset(i) == Len(FlattenSeq(SubSeq(Chars, 1, i)))
Ascii == \A i \in 1 .. n : widths[i] = 1

Nul == <<-1, 0>>            \* the byte behind a text
Undefined == <<-1, 1>>      \* what lies outside of an array, or behind that byte
Thrown == <<-1, 2>>         \* an exception

ByteAt(p) == IF p < len_b THEN data[p + 1] ELSE IF p = len_b THEN Nul ELSE Undefined
Bytes(from, to) == [k \in 1 .. to - from |-> ByteAt(from + k - 1)]
Narrow(p) == p >= len_b \/ widths[data[p + 1][1] + 1] = 1

-----------------------------------------------------------------------------
(* Division of C, which drops the fraction *)
Abs(a) == IF a < 0 THEN -a ELSE a
Quot(a, b) == IF (a < 0) = (b < 0) THEN Abs(a) \div Abs(b) ELSE -(Abs(a) \div Abs(b))
Divides(b, a) == Abs(a) % Abs(b) = 0

Within(i) ==
    LET up == IF i < 0 THEN i + n ELSE i
    IN  IF up < 0 THEN 0 ELSE IF up > n THEN n ELSE up

Delta(s) == IF s.step = NULL THEN 1 ELSE s.step
First(s) == IF s.start # NULL THEN Within(s.start) ELSE IF Delta(s) < 0 THEN n - 1 ELSE 0
End(s) == IF s.end # NULL THEN Within(s.end) ELSE IF Delta(s) < 0 THEN -1 ELSE n

(* Mutant: the part of a step at the end is dropped. *)
NudgedShort(first, end, delta) ==
    IF Divides(delta, end - first) THEN end
    ELSE first + delta * Quot(end - first, delta)

(* The end is moved so that a loop that adds the step comes to it exactly. *)
Nudged(first, end, delta) ==
    IF Divides(delta, end - first) THEN end
    ELSE first + delta * (Quot(end - first, delta) + 1)

ks_slice_get_citer(s) ==
    [first |-> First(s), delta |-> Delta(s), last |-> Nudged(First(s), End(s), Delta(s))]

Rounds(c) == Quot(c.last - c.first, c.delta)

(* A loop that has passed its last place reads on until the memory ends. *)
Elements(c) ==
    IF Rounds(c) < 0 THEN <<Undefined>>
    ELSE [k \in 1 .. Rounds(c) |->
            LET i == c.first + (k - 1) * c.delta
            IN  IF i \in 0 .. n - 1 THEN <<i, 1>> ELSE Undefined]

(* ks_str_citer_seek does not go back, but to the first character. *)
Seek(c, i) ==
    CASE i \notin 0 .. n - 1 -> c
      [] i = 0 \/ Ascii \/ i > c -> i
      [] OTHER -> c

(* ks_str_citer_next, whose character is appended *)
Read(w) == IF w.at < n THEN [at |-> w.at + 1, got |-> w.got \o Char(w.at)] ELSE w

(* The loop over a text: read a character, then skip. *)
Walked(c) ==
    LET Skip(w) == [w EXCEPT !.at = Seek(@, @ + c.delta - 1)]
        walk[k \in 0 .. Rounds(c)] ==
            IF k = 0 THEN [at |-> Seek(0, c.first), got |-> <<>>] ELSE Skip(Read(walk[k - 1]))
    IN  walk[Rounds(c)].got

(* A length below 0 makes ks_str_new take everything up to the Nul. *)
Substring(c) ==
    CASE c.first = c.last -> <<>>
      [] c.delta = 1 /\ Ascii -> IF c.last < c.first THEN Bytes(c.first, len_b) ELSE Bytes(c.first, c.last)
      [] c.delta = 1 /\ ~Ascii -> Bytes(Offset(c.first), Offset(c.last))
      [] c.delta # 1 -> IF Rounds(c) < 0 THEN <<Undefined>> ELSE Walked(c)

Part(s) ==
    IF Delta(s) = 0 THEN <<Thrown>>
    ELSE IF kind = "array" THEN Elements(ks_slice_get_citer(s)) ELSE Substring(ks_slice_get_citer(s))

(* The index of a text that is not ASCII goes from byte to byte, takes what *)
(* has the high bit for a continuation, and gives what it has just left.    *)
CharAt(i) ==
    LET Behind(p) == CHOOSE q \in p + 1 .. len_b + p + 1 :
                         /\ Narrow(q) /\ \A r \in p + 1 .. q - 1 : ~Narrow(r)
        at[c \in 0 .. i] == IF c = 0 THEN 0 ELSE Behind(at[c - 1])
    IN  IF i = 0 THEN <<>> ELSE Bytes(at[i - 1], at[i])

-----------------------------------------------------------------------------
Ends == -MaxIndex .. MaxIndex \cup {NULL}
Nothing == [how |-> "nothing"]

Init ==
    /\ kind \in {"array", "text"}
    /\ widths \in UNION {[1 .. l -> {1, 2}] : l \in 0 .. MaxLen}
    /\ kind = "array" => Ascii
    /\ asked = Nothing /\ parts = <<>> /\ pos = 0

(* x[i], of a list, a tuple, a bytes or a str *)
Index(i) ==
    /\ asked = Nothing
    /\ asked' = [how |-> "index", at |-> i]
    /\ LET at == IF i < 0 THEN i + n ELSE i
       IN  parts' = IF at \notin 0 .. n - 1 THEN <<<<Thrown>>>>
                    ELSE IF Ascii THEN <<Char(at)>> ELSE <<CharAt(at)>>
    /\ UNCHANGED <<kind, widths, pos>>

(* x[start:end:step], of a list, a tuple or a str *)
Slice(s) ==
    /\ asked = Nothing
    /\ asked' = [how |-> "slice", slice |-> s]
    /\ parts' = <<Part(s)>>
    /\ UNCHANGED <<kind, widths, pos>>

(* What an iterator over a text takes for one character: a byte, and up to *)
(* three that have the high bit.                                           *)
Taken == CHOOSE c \in 1 .. 4 :
    /\ c = 4 \/ Narrow(pos + c)
    /\ \A d \in 1 .. c - 1 : ~Narrow(pos + d)

(* for c in x *)
Iterate ==
    /\ asked \in {Nothing, [how |-> "next"]}
    /\ pos < len_b
    /\ asked' = [how |-> "next"]
    /\ parts' = Append(parts, Bytes(pos, pos + Taken))
    /\ pos' = pos + Taken
    /\ UNCHANGED <<kind, widths>>

Next ==
    \/ \E i \in -MaxIndex .. MaxIndex : Index(i)
    \/ \E s \in [start : Ends, end : Ends, step : -MaxStep .. MaxStep \cup {NULL}] : Slice(s)
    \/ Iterate

Spec == Init /\ [][Next]_vars

-----------------------------------------------------------------------------
(* The places a slice means: every step-th of those from start on and     *)
(* before end, in the direction of the step.                              *)
Counted(i) == IF i < 0 THEN i + n ELSE i
Between(s) ==
    {i \in 0 .. n - 1 :
        /\ s.start # NULL => IF Delta(s) > 0 THEN i >= Counted(s.start) ELSE i <= Counted(s.start)
        /\ s.end # NULL => IF Delta(s) > 0 THEN i < Counted(s.end) ELSE i > Counted(s.end)}
InOrder(s, S) == SetToSortSeq(S, LAMBDA a, b : (a - b) * Delta(s) < 0)
Meant(s) ==
    LET all == InOrder(s, Between(s))
    IN  [k \in 1 .. (Len(all) + Abs(Delta(s)) - 1) \div Abs(Delta(s)) |-> all[(k - 1) * Abs(Delta(s)) + 1]]

(* The code does otherwise (README, 5) for a slice whose end comes before   *)
(* its start, one that goes back from behind the last place, or from or to  *)
(* what counts as before the first, and one that goes back in a text with   *)
(* wide characters.                                                         *)
Opposite(s) == (End(s) - First(s)) * Delta(s) < 0 /\ (Delta(s) = 1 => Ascii)
FromBehind(s) == Delta(s) < 0 /\ First(s) = n
BeforeFirst(s) == Delta(s) < 0 /\ \E i \in {s.start, s.end} \ {NULL} : Counted(i) < 0
BackInWide(s) == Delta(s) < 0 /\ ~Ascii
Misread(s) == Opposite(s) \/ FromBehind(s) \/ BeforeFirst(s) \/ BackInWide(s)

(* A slice gives the places it means, in their order, each whole, unless it *)
(* is one of those misread; an index of an array or ASCII text gives its    *)
(* place or throws; an iterator gives every byte once and in order, and if  *)
(* no wide character follows another, each character by itself.             *)
PartsAsMeant ==
    /\ asked.how = "slice" /\ Delta(asked.slice) # 0 /\ ~Misread(asked.slice)
        => parts = <<FlattenSeq([k \in DOMAIN Meant(asked.slice) |-> Char(Meant(asked.slice)[k])])>>
    /\ asked.how = "index" /\ Ascii
        => parts = IF Counted(asked.at) \in 0 .. n - 1 THEN <<Char(Counted(asked.at))>> ELSE <<<<Thrown>>>>
    /\ asked.how = "next" =>
        /\ FlattenSeq(parts) = SubSeq(data, 1, pos)
        /\ (\A i \in 2 .. n : widths[i] = 1) => parts = SubSeq(Chars, 1, Len(parts))
=============================================================================
