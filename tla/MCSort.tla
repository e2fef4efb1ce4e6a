-------------------------------- MODULE MCSort --------------------------------
(* Lists of up to five keys of three ranks, and of seven keys of two,      *)
(* which is long enough for a half that is itself merged.                  *)
EXTENDS Sort

MCLists == UNION {[1 .. n -> 1 .. 3] : n \in 0 .. 5} \cup [1 .. 7 -> 1 .. 2]
=============================================================================
