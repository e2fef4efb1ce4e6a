----------------------------- MODULE ByteStream -----------------------------
(***************************************************************************)
(* What a stream in memory promises its users: bytes that are written at   *)
(* the end and read at a position, each read by one reader.                *)
(***************************************************************************)
EXTENDS Integers, Sequences

CONSTANT Zero          \* the byte that truncation to a larger size adds

VARIABLES contents,
          position,     \* of the next byte to read, from 0
          got           \* what each thread has read of a line

vars == <<contents, position, got>>

Write(piece) ==
    /\ contents' = contents \o piece
    /\ UNCHANGED <<position, got>>

Read(t) ==
    /\ position < Len(contents)
    /\ got' = [got EXCEPT ![t] = Append(@, contents[position + 1])]
    /\ position' = position + 1
    /\ UNCHANGED contents

EndLine(t) ==
    /\ got' = [got EXCEPT ![t] = <<>>]
    /\ UNCHANGED <<contents, position>>

Seek(p) ==
    /\ p \in 0 .. Len(contents)
    /\ position' = p
    /\ UNCHANGED <<contents, got>>

Trunc(n) ==
    /\ contents' = [i \in 1 .. n |-> IF i <= Len(contents) THEN contents[i] ELSE Zero]
    /\ position' = IF position > n THEN n ELSE position
    /\ UNCHANGED got
=============================================================================
