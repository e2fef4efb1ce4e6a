------------------------------ MODULE MCStreams ------------------------------
(* Two threads, pieces of which two fill the buffer exactly and the third  *)
(* makes it grow, and newlines behind ASCII and other characters.          *)
EXTENDS Streams, TLC

MCPiece == {<<"ascii", "newline">>, <<"high", "newline">>}
MCTargets == {-1, 0, 1, 3}
MCSizes == {-1, 1, 3}
Symmetry == Permutations(Thread)
=============================================================================
