----------------------------- MODULE MCHashTable -----------------------------
(* Keys that compare equal (a, twin), that hash equally (b), and that only  *)
(* collide in 11 buckets (c), where the probe passes the end of the buckets.*)
EXTENDS HashTable, TLC

CONSTANTS a, twin, b, c

Keys == {a, twin, b, c}

HashOf == (a :> 10) @@ (twin :> 10) @@ (b :> 10) @@ (c :> 21)

ClassOf == [k \in Keys |-> IF k = twin THEN a ELSE k]

(* KS_SINT8_MAX is a length at which the buckets grow, as is Narrow here. *)
ASSUME ByteAssumption == Crosses(127)
=============================================================================
