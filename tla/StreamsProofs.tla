---------------------------- MODULE StreamsProofs ----------------------------
(***************************************************************************)
(* Proofs about BytesIO and StringIO, for any threads, pieces, targets of  *)
(* seek, sizes of trunc and bound on the length.                           *)
(***************************************************************************)
EXTENDS Streams, TLAPS

(* What keeps an unspoilt stream within its buffer: only one thread writes *)
(* and one reads, nothing was moved under them, and what a thread has read *)
(* of the end or the position before it gave the GIL up still fits.        *)
OneEach ==
    /\ moved = {}
    /\ \A t, u \in In(Writing) : t = u
    /\ \A t, u \in In(Reading) : t = u

Bounded == ~undefined /\ pos \in 0 .. len /\ len \in 0 .. Len(data)

WriterFits ==
    \A t \in In(Writing) : len + Len(piece[t]) <= Len(data)

ReaderFits ==
    \A t \in Thread :
        /\ pc[t] \in {"copy", "copied"} => want[t] \in 0 .. 1 /\ pos + want[t] <= len
        /\ pc[t] = "fetch" => want[t] = pos /\ pos < len

Orderly == OneEach /\ Bounded /\ WriterFits /\ ReaderFits

IInv == TypeOK /\ (Unspoilt => Orderly)

-----------------------------------------------------------------------------

(* ks_nextsize gives room for what is asked for, and never shrinks.        *)
LEMMA SizeGrows ==
  ASSUME NEW cur \in Nat, NEW req \in Int
  PROVE  NextSize(cur, req) \in Nat /\ NextSize(cur, req) >= cur /\ NextSize(cur, req) >= req
  BY DEF NextSize

(* A write makes room for all of its bytes.                                *)
LEMMA RoomFits ==
  ASSUME TypeOK, NEW n \in Nat
  PROVE  Room(n) \in Nat /\ Room(n) >= Len(data) /\ Room(n) >= len + n
<1>1. Len(data) \in Nat /\ len \in Int
  BY DEF TypeOK
<1> QED
  BY <1>1 DEF Room, NextSize

(* What realloc returns are bytes. *)
LEMMA GrowBytes ==
  ASSUME TypeOK, NEW n \in Nat, Grow(n)
  PROVE  data' \in Seq(Byte) /\ Len(data') = n
<1>1. \A i \in 1 .. n : data'[i] \in Byte
  BY DEF Grow, TypeOK, Byte
<1> QED
  BY <1>1 DEF Grow

(* What is written are bytes. *)
LEMMA PieceBytes == Piece \cup {<<>>} \subseteq Seq(Byte)
<1>1. ASSUME NEW p \in Piece PROVE p \in Seq(Byte)
  <2>1. p \in Seq({"ascii", "high", "newline"})
    BY PieceAssumption
  <2> QED
    BY <2>1 DEF Byte
<1>2. <<>> \in Seq(Byte)
  OBVIOUS
<1> QED
  BY <1>1, <1>2

(* The stream is made empty. *)
LEMMA InvInit == Init => IInv
<1> SUFFICES ASSUME Init PROVE IInv
  OBVIOUS
<1>1. TypeOK
  <2>1. <<>> \in Seq(Byte)
    OBVIOUS
  <2>2. moved \subseteq Windows /\ data \in Seq(Byte) /\ undefined \in BOOLEAN
    BY <2>1 DEF Init
  <2> QED
    BY <2>1, <2>2 DEF Init, TypeOK
<1>2. Orderly
  BY DEF Init, Orderly, OneEach, Bounded, WriterFits, ReaderFits, In, Writing, Reading
<1> QED
  BY <1>1, <1>2 DEF IInv

(* The statements of a write keep the types.                               *)
LEMMA TypeWrite ==
  ASSUME TypeOK, NEW t \in Thread
  PROVE  (\E p \in Piece : WriteBegin(t, p)) \/ WriteCopy(t) \/ WriteEnd(t) => TypeOK'
<1> USE PieceBytes DEF TypeOK, Goto, Spoil, Undefined, stream, threads, Windows, In, Writing, Reading
<1>1. ASSUME NEW p \in Piece, WriteBegin(t, p) PROVE TypeOK'
  <2>1. Room(Len(p)) \in Nat
    BY RoomFits
  <2>2. data' \in Seq(Byte)
    BY <1>1, <2>1, GrowBytes DEF WriteBegin, Unmoved
  <2>3. moved' \subseteq Windows'
    BY <1>1 DEF WriteBegin, Grow, Unmoved
  <2> QED
    BY <1>1, <2>2, <2>3 DEF WriteBegin, Grow, Unmoved
<1>2. ASSUME WriteCopy(t) PROVE TypeOK'
  <2>1. data' \in Seq(Byte)
    <3>1. CASE UNCHANGED data
      BY <3>1
    <3>2. ASSUME len >= 0, len + Len(piece[t]) <= Len(data),
                 data' = [i \in 1 .. Len(data) |->
                            IF len < i /\ i <= len + Len(piece[t]) THEN piece[t][i - len] ELSE data[i]]
          PROVE  data' \in Seq(Byte)
      <4>1. piece[t] \in Seq(Byte) /\ Len(piece[t]) \in Nat /\ Len(data) \in Nat
        OBVIOUS
      <4>2. \A i \in 1 .. Len(data) : data'[i] \in Byte
        BY <3>2, <4>1
      <4> QED
        BY <3>2, <4>1, <4>2
    <3> QED
      BY <1>2, <3>1, <3>2 DEF WriteCopy
  <2> QED
    BY <1>2, <2>1 DEF WriteCopy
<1>3. ASSUME WriteEnd(t) PROVE TypeOK'
  BY <1>3 DEF WriteEnd
<1> QED
  BY <1>1, <1>2, <1>3

(* A read of one byte or character begins, in NextLine or Take.            *)
LEMMA TypeAsk ==
  ASSUME TypeOK, NEW t \in Thread, Ask(t), len' \in Int, pos' \in Int
  PROVE  /\ chunk' \in [Thread -> Seq(Byte)] /\ want' \in [Thread -> Int]
         /\ pc' \in [Thread -> {"idle"} \cup Writing \cup Reading]
         /\ \A u \in Thread \ {t} : pc'[u] = pc[u]
         /\ pc'[t] \in Reading
         /\ spoilt' \in {spoilt, "two_reads"}
<1> USE DEF Reading, Writing, Goto, Spoil
<1>1. chunk' \in [Thread -> Seq(Byte)]
  BY DEF Ask, TypeOK
<1>2. want' \in [Thread -> Int]
  <2>1. want' = want \/ want' = [want EXCEPT ![t] = IF len' - pos' > 1 THEN 1 ELSE len' - pos']
    BY DEF Ask
  <2> DEFINE left == len' - pos'
  <2>2. left \in Int
    OBVIOUS
  <2> HIDE DEF left
  <2>3. (IF left > 1 THEN 1 ELSE left) \in Int
    BY <2>2
  <2> QED
    BY <2>1, <2>3 DEF TypeOK, left
<1> QED
  BY <1>1, <1>2 DEF Ask, TypeOK

(* The iterator takes what it got.                                         *)
LEMMA TypeTake ==
  ASSUME TypeOK, NEW t \in Thread, Take(t), len' \in Int, pos' \in Int
  PROVE  /\ chunk' \in [Thread -> Seq(Byte)] /\ want' \in [Thread -> Int]
         /\ line' \in [Thread -> Seq(Byte)]
         /\ pc' \in [Thread -> {"idle"} \cup Writing \cup Reading]
         /\ \A u \in Thread \ {t} : pc'[u] = pc[u]
         /\ spoilt' \in {spoilt, "two_reads"}
<1>1. CASE chunk[t] = <<>> \/ chunk[t][1] = "newline"
  <2>1. /\ Goto(t, "idle")
        /\ chunk' = [chunk EXCEPT ![t] = <<>>]
        /\ want' = [want EXCEPT ![t] = 0]
        /\ line' = [line EXCEPT ![t] = <<>>]
        /\ spoilt' = spoilt
    BY <1>1 DEF Take
  <2> QED
    BY <2>1 DEF TypeOK, Goto
<1>2. CASE ~(chunk[t] = <<>> \/ chunk[t][1] = "newline")
  <2>1. Ask(t) /\ line' = [line EXCEPT ![t] = @ \o chunk[t]]
    BY <1>2 DEF Take
  <2>2. line[t] \o chunk[t] \in Seq(Byte)
    BY DEF TypeOK
  <2>3. line' \in [Thread -> Seq(Byte)]
    BY <2>1, <2>2 DEF TypeOK
  <2> QED
    BY <2>1, <2>3, TypeAsk
<1> QED
  BY <1>1, <1>2

(* The statements of a read keep the types.                                *)
LEMMA TypeRead ==
  ASSUME TypeOK, NEW t \in Thread
  PROVE  NextLine(t) \/ ReadCopy(t) \/ ReadEnd(t) \/ Check(t) \/ Fetch(t) \/ ReadsEnd(t) => TypeOK'
<1> USE DEF TypeOK, Undefined, stream, threads, Windows, In
<1>1. ASSUME NextLine(t) PROVE TypeOK'
  BY <1>1, TypeAsk DEF NextLine, Reading
<1>2. ASSUME ReadCopy(t) PROVE TypeOK'
  <2>1. chunk' \in [Thread -> Seq(Byte)]
    <3>1. CASE UNCHANGED chunk
      BY <3>1
    <3>2. CASE /\ want[t] = 0 \/ (want[t] > 0 /\ ~Outside(pos, want[t]))
               /\ chunk' = [chunk EXCEPT ![t] = SubSeq(data, pos + 1, pos + want[t])]
      <4>1. SubSeq(data, pos + 1, pos + want[t]) \in Seq(Byte)
        BY <3>2 DEF Outside
      <4> QED
        BY <3>2, <4>1
    <3> QED
      BY <1>2, <3>1, <3>2 DEF ReadCopy
  <2> QED
    BY <1>2, <2>1 DEF ReadCopy, Goto, Reading
<1>3. ASSUME ReadEnd(t) PROVE TypeOK'
  <2>1. pos' \in Int /\ len' \in Int /\ Take(t) /\ moved' = moved \ {t}
    BY <1>3 DEF ReadEnd
  <2>2. moved' \subseteq Windows'
    BY <2>1, TypeTake
  <2> QED
    BY <1>3, <2>1, <2>2, TypeTake DEF ReadEnd
<1>4. ASSUME Check(t) PROVE TypeOK'
  BY <1>4 DEF Check, Goto, Reading
<1>5. ASSUME Fetch(t) PROVE TypeOK'
  <2>1. chunk' \in [Thread -> Seq(Byte)]
    <3>1. CASE UNCHANGED chunk
      BY <3>1
    <3>2. ASSUME NEW p \in {pos, want[t]}, ~Outside(p, 1),
                 chunk' = [chunk EXCEPT ![t] = Append(@, data[p + 1])]
          PROVE  chunk' \in [Thread -> Seq(Byte)]
      <4>1. data[p + 1] \in Byte
        BY <3>2 DEF Outside
      <4>2. Append(chunk[t], data[p + 1]) \in Seq(Byte)
        BY <4>1
      <4> QED
        BY <3>2, <4>2
    <3> QED
      BY <1>5, <3>1, <3>2 DEF Fetch
  <2>2. pos' \in Int
    BY <1>5 DEF Fetch
  <2> QED
    BY <1>5, <2>1, <2>2 DEF Fetch, Goto, Reading
<1>6. ASSUME ReadsEnd(t) PROVE TypeOK'
  <2>1. pos' \in Int /\ len' \in Int /\ Take(t) /\ moved' = moved \ {t}
    BY <1>6 DEF ReadsEnd
  <2>2. moved' \subseteq Windows'
    BY <2>1, TypeTake
  <2> QED
    BY <1>6, <2>1, <2>2, TypeTake DEF ReadsEnd
<1> QED
  BY <1>1, <1>2, <1>3, <1>4, <1>5, <1>6

(* trunc leaves a buffer of bytes that holds what is to be left.           *)
LEMMA TruncBytes ==
  ASSUME TypeOK, NEW t \in Thread, NEW n \in Sizes, Trunc(t, n), ~(len < 0 /\ n > len)
  PROVE  data' \in Seq(Byte) /\ Len(data') = NextSize(Len(data), n)
<1>1. NextSize(Len(data), n) \in Nat
  BY SizesAssumption DEF TypeOK, NextSize
<1>2. data' = [i \in 1 .. NextSize(Len(data), n) |->
                           IF len < i /\ i <= n THEN "zero"
                           ELSE IF i <= Len(data) THEN data[i] ELSE "any"]
  BY DEF Trunc
<1>3. \A i \in 1 .. NextSize(Len(data), n) : data'[i] \in Byte
  BY <1>1, <1>2 DEF TypeOK, Byte
<1> QED
  BY <1>1, <1>2, <1>3

(* Seek and trunc keep the types.                                          *)
LEMMA TypeMove ==
  ASSUME TypeOK, NEW t \in Thread
  PROVE  (\E p \in Targets : Seek(t, p)) \/ (\E n \in Sizes : Trunc(t, n)) => TypeOK'
<1> USE TargetsAssumption, SizesAssumption
    DEF TypeOK, Undefined, Spoil, stream, threads, Windows, In
<1>1. ASSUME NEW p \in Targets, Seek(t, p) PROVE TypeOK'
  BY <1>1 DEF Seek
<1>2. ASSUME NEW n \in Sizes, Trunc(t, n) PROVE TypeOK'
  <2>1. CASE len < 0 /\ n > len
    BY <1>2, <2>1 DEF Trunc
  <2>2. CASE ~(len < 0 /\ n > len)
    BY <1>2, <2>2, TruncBytes DEF Trunc
  <2> QED
    BY <2>1, <2>2
<1> QED
  BY <1>1, <1>2

(* Every step keeps the types.                                             *)
LEMMA TypeStep == TypeOK /\ [Next]_vars => TypeOK'
<1> SUFFICES ASSUME TypeOK, [Next]_vars PROVE TypeOK'
  OBVIOUS
<1>1. ASSUME NEW t \in Thread, Step(t) PROVE TypeOK'
  BY <1>1, TypeWrite, TypeRead, TypeMove DEF Step, Begin, Continue
<1>2. CASE UNCHANGED vars
  BY <1>2 DEF vars, stream, threads, TypeOK, Windows, In
<1> QED
  BY <1>1, <1>2 DEF Next

-----------------------------------------------------------------------------

(* A stream that is unspoilt after a step was so before it.                *)
LEMMA SpoiltStays ==
  ASSUME NEW t \in Thread, Step(t), Unspoilt'
  PROVE  Unspoilt
<1> USE DEF Unspoilt, Spoil, Undefined
<1>1. ASSUME NEW p \in Piece, WriteBegin(t, p) PROVE Unspoilt
  BY <1>1 DEF WriteBegin
<1>2. ASSUME WriteCopy(t) \/ WriteEnd(t) PROVE Unspoilt
  BY <1>2 DEF WriteCopy, WriteEnd
<1>3. ASSUME NextLine(t) \/ ReadCopy(t) \/ ReadEnd(t) \/ Check(t) \/ Fetch(t) \/ ReadsEnd(t)
      PROVE  Unspoilt
  BY <1>3 DEF NextLine, ReadCopy, ReadEnd, Check, Fetch, ReadsEnd, Take, Ask
<1>4. ASSUME NEW p \in Targets, Seek(t, p) PROVE Unspoilt
  BY <1>4 DEF Seek
<1>5. ASSUME NEW n \in Sizes, Trunc(t, n) PROVE Unspoilt
  BY <1>5 DEF Trunc
<1> QED
  BY <1>1, <1>2, <1>3, <1>4, <1>5 DEF Step, Begin, Continue

(* A write that leaves the stream unspoilt is alone, and moves the buffer  *)
(* under nobody.                                                           *)
LEMMA OrderWrite ==
  ASSUME TypeOK, Orderly, Unspoilt, Unspoilt', NEW t \in Thread
  PROVE  (\E p \in Piece : WriteBegin(t, p)) \/ WriteCopy(t) \/ WriteEnd(t) => Orderly'
<1> USE DEF Orderly, OneEach, Bounded, WriterFits, ReaderFits, In, Writing, Reading, Goto
<1>0. Len(data) \in Nat /\ \A u \in Thread : Len(piece[u]) \in Nat
  BY PieceBytes DEF TypeOK
<1>1. ASSUME NEW p \in Piece, WriteBegin(t, p) PROVE Orderly'
  <2>0. Len(p) \in Nat
    BY PieceBytes
  <2>1. Room(Len(p)) >= len + Len(p) /\ Room(Len(p)) >= Len(data) /\ Room(Len(p)) \in Nat
    BY <2>0, RoomFits
  <2>2. Len(data') = Room(Len(p))
    BY <1>1, <2>1, <1>0, GrowBytes DEF WriteBegin, Unmoved
  <2>3. moved' = {} /\ In(Writing) = {}
    BY <1>1 DEF WriteBegin, Grow, Unmoved, Spoil, Unspoilt
  <2>4. piece'[t] = p /\ pc'[t] = "write" /\ \A u \in Thread \ {t} : pc'[u] = pc[u]
    BY <1>1 DEF WriteBegin, TypeOK
  <2>5. UNCHANGED <<len, pos, want, undefined>>
    BY <1>1 DEF WriteBegin
  <2>6. OneEach' /\ ReaderFits'
    BY <2>3, <2>4, <2>5
  <2>7. WriterFits'
    BY <2>1, <2>2, <2>3, <2>4, <2>5
  <2> QED
    BY <2>1, <2>2, <2>5, <2>6, <2>7, <1>0 DEF TypeOK
<1>2. ASSUME WriteCopy(t) PROVE Orderly'
  <2>1. len >= 0 /\ len + Len(piece[t]) <= Len(data) /\ t \notin moved
    BY <1>2 DEF WriteCopy, TypeOK
  <2>2. Len(data') = Len(data)
    BY <1>2, <2>1, <1>0 DEF WriteCopy
  <2>3. UNCHANGED <<len, pos, piece, want, moved, undefined>> /\ pc' = [pc EXCEPT ![t] = "wrote"]
        /\ pc[t] = "write"
    BY <1>2, <2>1 DEF WriteCopy
  <2> QED
    BY <2>1, <2>2, <2>3, <1>0 DEF TypeOK
<1>3. ASSUME WriteEnd(t) PROVE Orderly'
  <2>1. \A u \in Thread \ {t} : pc'[u] = pc[u] /\ pc[u] \notin Writing
    BY <1>3 DEF WriteEnd, TypeOK
  <2>2. pc'[t] = "idle" /\ pc[t] = "wrote" /\ moved' = {} /\ len' = len + Len(piece[t])
        /\ UNCHANGED <<data, pos, want, undefined>>
    BY <1>3 DEF WriteEnd, TypeOK
  <2>3. len' \in 0 .. Len(data) /\ len' >= len
    BY <2>2, <1>0
  <2>4. Bounded'
    BY <2>2, <2>3
  <2>5. OneEach' /\ WriterFits'
    BY <2>1, <2>2
  <2>6. ReaderFits'
    BY <2>1, <2>2, <2>3 DEF TypeOK
  <2> QED
    BY <2>4, <2>5, <2>6
<1> QED
  BY <1>1, <1>2, <1>3

(* readb is asked for one byte. *)
LEMMA OneAtMost ==
  ASSUME NEW l \in Int, NEW p \in Int, NEW n, n = IF l - p > 1 THEN 1 ELSE l - p
  PROVE  n <= 1
<1>1. CASE l - p > 1
  BY <1>1
<1>2. CASE ~(l - p > 1)
  BY <1>2
<1> QED
  BY <1>1, <1>2

(* What readb asks for is there. *)
LEMMA OneOfTheRest ==
  ASSUME NEW l \in Nat, NEW p \in 0 .. l, NEW n, n = IF l - p > 1 THEN 1 ELSE l - p
  PROVE  n \in 0 .. 1 /\ p + n <= l
<1>1. CASE l - p > 1
  BY <1>1
<1>2. CASE ~(l - p > 1)
  BY <1>2
<1> QED
  BY <1>1, <1>2

(* A read that begins on an unspoilt stream is the only one, and asks for  *)
(* no more than there is.                                                  *)
LEMMA OrderAsk ==
  ASSUME TypeOK, Unspoilt', NEW t \in Thread, Ask(t), len' \in Nat, pos' \in 0 .. len'
  PROVE  /\ \A u \in Thread \ {t} : pc[u] \notin Reading /\ pc'[u] = pc[u] /\ want'[u] = want[u]
         /\ \/ pc'[t] = "check"
            \/ pc'[t] = "copy" /\ want'[t] \in 0 .. 1 /\ pos' + want'[t] <= len'
<1>1. \A u \in Thread \ {t} : pc[u] \notin Reading
  BY DEF Ask, Spoil, Unspoilt, In
<1>2. \A u \in Thread \ {t} : pc'[u] = pc[u] /\ want'[u] = want[u]
  BY DEF Ask, Goto, TypeOK
<1>3. CASE kind = "bytes"
  <2>1. pc'[t] = "copy" /\ want'[t] = IF len' - pos' > 1 THEN 1 ELSE len' - pos'
    BY <1>3 DEF Ask, Goto, TypeOK
  <2>2. want'[t] \in 0 .. 1 /\ pos' + want'[t] <= len'
    BY <2>1, OneOfTheRest
  <2> QED
    BY <1>1, <1>2, <2>1, <2>2
<1>4. CASE kind # "bytes"
  BY <1>1, <1>2, <1>4 DEF Ask, Goto, TypeOK
<1> QED
  BY <1>3, <1>4

(* A read that leaves the stream unspoilt is alone, and stays within the   *)
(* stream.                                                                 *)
LEMMA OrderRead ==
  ASSUME TypeOK, Orderly, Unspoilt, Unspoilt', NEW t \in Thread
  PROVE  NextLine(t) \/ ReadCopy(t) \/ ReadEnd(t) \/ Check(t) \/ Fetch(t) \/ ReadsEnd(t) => Orderly'
<1> USE DEF Orderly, OneEach, Bounded, WriterFits, ReaderFits, In
<1>0. Len(data) \in Nat /\ \A u \in Thread : Len(piece[u]) \in Nat
  BY PieceBytes DEF TypeOK
<1>1. ASSUME moved' = moved, UNCHANGED <<data, len, piece, undefined>>, pos' \in 0 .. len,
             Ask(t), pc[t] \notin Writing
      PROVE  Orderly'
  <2>1. /\ \A u \in Thread \ {t} : pc[u] \notin Reading /\ pc'[u] = pc[u] /\ want'[u] = want[u]
        /\ \/ pc'[t] = "check"
           \/ pc'[t] = "copy" /\ want'[t] \in 0 .. 1 /\ pos' + want'[t] <= len'
    BY <1>1, OrderAsk
  <2> QED
    BY <1>1, <2>1 DEF Writing, Reading
<1>2. ASSUME moved' = moved, UNCHANGED <<data, len, piece, undefined>>, pos' \in 0 .. len,
             Take(t), pc[t] \in Reading
      PROVE  Orderly'
  <2>1. CASE chunk[t] = <<>> \/ chunk[t][1] = "newline"
    <3>0. Goto(t, "idle") /\ want' = [want EXCEPT ![t] = 0]
      BY <1>2, <2>1 DEF Take
    <3>1. pc' = [pc EXCEPT ![t] = "idle"] /\ want' = [want EXCEPT ![t] = 0]
      BY <3>0 DEF Goto
    <3>2. \A u \in Thread \ {t} : pc'[u] = pc[u] /\ want'[u] = want[u] /\ pc[u] \notin Reading
      BY <3>1, <1>2 DEF TypeOK
    <3>3. pc'[t] = "idle"
      BY <3>1 DEF TypeOK
    <3> QED
      BY <1>2, <3>2, <3>3 DEF Writing, Reading
  <2>2. CASE ~(chunk[t] = <<>> \/ chunk[t][1] = "newline")
    BY <1>1, <1>2, <2>2 DEF Take, Writing, Reading
  <2> QED
    BY <2>1, <2>2
<1>3. ASSUME NextLine(t) PROVE Orderly'
  BY <1>1, <1>3 DEF NextLine, stream, Writing
<1>4. ASSUME ReadCopy(t) PROVE Orderly'
  <2>1. t \notin moved /\ want[t] >= 0 /\ ~(want[t] > 0 /\ Outside(pos, want[t]))
    BY <1>0, <1>4 DEF ReadCopy, Outside, TypeOK
  <2>2. pc' = [pc EXCEPT ![t] = "copied"] /\ UNCHANGED <<stream, piece, want, moved, undefined>>
    BY <1>4, <2>1 DEF ReadCopy, Goto
  <2>3. pc[t] = "copy"
    BY <1>4 DEF ReadCopy
  <2> QED
    BY <2>2, <2>3 DEF TypeOK, stream, Writing, Reading
<1>5. ASSUME ReadEnd(t) PROVE Orderly'
  <2>1. pc[t] = "copied" /\ pos' = pos + want[t]
    BY <1>5 DEF ReadEnd
  <2>2. pos' \in 0 .. len
    <3>1. want[t] \in 0 .. 1 /\ pos + want[t] <= len /\ pos \in 0 .. len /\ len \in Nat
      BY <2>1, <1>0
    <3> QED
      BY <2>1, <3>1
  <2>3. moved' = moved
    BY <1>5 DEF ReadEnd
  <2> QED
    BY <1>2, <1>5, <2>1, <2>2, <2>3 DEF ReadEnd, Reading
<1>6. ASSUME Check(t) PROVE Orderly'
  <2>1. CASE pos >= len
    <3>1. pc[t] = "check" /\ pc' = [pc EXCEPT ![t] = "fetched"] /\ want' = want
      BY <1>6, <2>1 DEF Check, Goto
    <3>2. UNCHANGED <<kind, data, len, pos, piece, chunk, line, moved, spoilt, undefined>>
      BY <1>6 DEF Check, stream
    <3>3. \A u \in Thread : pc'[u] = IF u = t THEN "fetched" ELSE pc[u]
      BY <3>1 DEF TypeOK
    <3>4. OneEach' /\ Bounded'
      BY <3>1, <3>2, <3>3 DEF Writing, Reading
    <3>5. WriterFits' /\ ReaderFits'
      BY <3>1, <3>2, <3>3 DEF Writing
    <3> QED
      BY <3>4, <3>5
  <2>2. CASE pos < len
    <3>1. /\ pc[t] = "check" /\ pc' = [pc EXCEPT ![t] = "fetch"]
          /\ want' = [want EXCEPT ![t] = pos]
      BY <1>6, <2>2 DEF Check, Goto, TypeOK
    <3>2. UNCHANGED <<kind, data, len, pos, piece, chunk, line, moved, spoilt, undefined>>
      BY <1>6 DEF Check, stream
    <3> QED
      BY <2>2, <3>1, <3>2 DEF TypeOK, Writing, Reading
  <2> QED
    BY <2>1, <2>2
<1>7. ASSUME Fetch(t) PROVE Orderly'
  <2>1. want[t] = pos /\ pos < len /\ pc[t] = "fetch" /\ t \notin moved
    BY <1>7 DEF Fetch, TypeOK
  <2>2. ~Outside(pos, 1)
    BY <2>1, <1>0 DEF Outside
  <2>3. pos' = pos + 1 /\ UNCHANGED <<data, len, piece, want, moved, undefined>>
        /\ pc' \in {[pc EXCEPT ![t] = "fetched"], [pc EXCEPT ![t] = "check"]}
    BY <1>7, <2>1, <2>2 DEF Fetch, Goto
  <2>4. \A u \in Thread \ {t} : pc[u] \notin Reading /\ pc'[u] = pc[u]
    BY <2>1, <2>3 DEF TypeOK, Reading
  <2>5. pc'[t] \in {"fetched", "check"}
    BY <2>3 DEF TypeOK
  <2>6. Bounded'
    BY <2>1, <2>3 DEF TypeOK
  <2>7. OneEach' /\ WriterFits'
    BY <2>3, <2>4, <2>5 DEF Writing
  <2>8. ReaderFits'
    BY <2>4, <2>5 DEF Reading
  <2> QED
    BY <2>6, <2>7, <2>8
<1>8. ASSUME ReadsEnd(t) PROVE Orderly'
  BY <1>2, <1>8 DEF ReadsEnd, Reading, stream
<1> QED
  BY <1>3, <1>4, <1>5, <1>6, <1>7, <1>8

(* seek and trunc that leave the stream unspoilt go to a place in it.      *)
LEMMA OrderMove ==
  ASSUME TypeOK, Orderly, Unspoilt, Unspoilt', NEW t \in Thread
  PROVE  (\E p \in Targets : Seek(t, p)) \/ (\E n \in Sizes : Trunc(t, n)) => Orderly'
<1> USE DEF Orderly, OneEach, Bounded, WriterFits, ReaderFits, In
<1>0. Len(data) \in Nat
  BY DEF TypeOK
<1>1. ASSUME NEW p \in Targets, Seek(t, p) PROVE Orderly'
  <2>1. p \in 0 .. len /\ In(Reading) = {} /\ pos' = p /\ UNCHANGED <<kind, data, len, threads, undefined>>
    BY <1>1 DEF Seek, Spoil, Unspoilt
  <2> QED
    BY <2>1 DEF threads, Reading
<1>2. ASSUME NEW n \in Sizes, Trunc(t, n) PROVE Orderly'
  <2>1. /\ n >= 0 /\ Windows = {} /\ UNCHANGED <<pc, piece, want, undefined>>
        /\ moved' = IF n > Len(data) THEN moved \cup Windows ELSE moved
        /\ len' = n /\ pos' = IF pos > n THEN n ELSE pos
    <3>1. ~(len < 0 /\ n > len) /\ n \in Int
      BY SizesAssumption
    <3>2. n >= 0 /\ Windows = {}
      BY <1>2, <3>1 DEF Trunc, Spoil, Unspoilt
    <3> QED
      BY <1>2, <3>1, <3>2 DEF Trunc
  <2>2. n \in Nat
    BY <2>1, SizesAssumption
  <2>3. Len(data') = NextSize(Len(data), n) /\ NextSize(Len(data), n) >= n
    BY <1>0, <1>2, <2>2, TruncBytes, SizeGrows
  <2>4. Bounded'
    BY <2>1, <2>2, <2>3
  <2>5. \A u \in Thread : pc[u] \notin Writing \cup Reading
    BY <2>1 DEF Windows
  <2> QED
    BY <2>1, <2>4, <2>5 DEF Writing, Reading
<1> QED
  BY <1>1, <1>2

(* Every step keeps the invariant. *)
LEMMA InvStep == IInv /\ [Next]_vars => IInv'
<1> SUFFICES ASSUME IInv, [Next]_vars PROVE IInv'
  OBVIOUS
<1>0. TypeOK /\ TypeOK'
  BY TypeStep DEF IInv
<1>1. ASSUME NEW t \in Thread, Step(t), Unspoilt' PROVE Orderly'
  <2>1. Unspoilt /\ Orderly
    BY <1>1, SpoiltStays DEF IInv
  <2> QED
    BY <1>0, <1>1, <2>1, OrderWrite, OrderRead, OrderMove DEF Step, Begin, Continue
<1>2. CASE UNCHANGED vars
  BY <1>0, <1>2 DEF vars, stream, threads, IInv, Unspoilt, Orderly, OneEach, Bounded, WriterFits,
                    ReaderFits, In
<1> QED
  BY <1>0, <1>1, <1>2 DEF Next, IInv

(* The strengthened invariant holds in every reachable state. *)
THEOREM Invariant == Spec => []IInv
<1> QED
  BY InvInit, InvStep, PTL DEF Spec

(* As long as none of the six causes has spoilt a stream, no thread uses   *)
(* memory outside of its buffer, and the position is in it.                *)
THEOREM Defined == Spec => []DefinedUnlessSpoilt
<1>1. IInv => DefinedUnlessSpoilt
  BY DEF IInv, DefinedUnlessSpoilt, Orderly, Bounded
<1> QED
  BY <1>1, Invariant, PTL

-----------------------------------------------------------------------------

(* What readb and reads hand to the iterator: at most one byte of a        *)
(* BytesIO, or of a StringIO bytes of which each but the last has its      *)
(* highest bit set.                                                        *)
Shape(t) ==
    /\ pc[t] \in {"copy", "copied"} => kind = "bytes"
    /\ pc[t] \in {"check", "fetch", "fetched"} => kind = "string"
    /\ kind = "bytes" => want[t] <= 1 /\ Len(chunk[t]) <= 1
    /\ pc[t] \in {"idle", "write", "wrote", "copy"} => chunk[t] = <<>>
    /\ \A i \in 1 .. Len(chunk[t]) :
          i < Len(chunk[t]) \/ pc[t] \in {"check", "fetch"} => chunk[t][i] = "high"

ChunkShape == \A t \in Thread : Shape(t)

LineInv == ChunkShape /\ LinesEndAtNewlines

(* At the start nothing has been read. *)
LEMMA LineInit == Init => LineInv
  BY DEF Init, LineInv, ChunkShape, Shape, LinesEndAtNewlines

(* Writes, seek and trunc leave alone what is read.                        *)
LEMMA OthersReadNothing ==
  ASSUME TypeOK, NEW t \in Thread,
         \/ \E p \in Piece : WriteBegin(t, p)
         \/ WriteCopy(t) \/ WriteEnd(t)
         \/ \E p \in Targets : Seek(t, p)
         \/ \E n \in Sizes : Trunc(t, n)
  PROVE  /\ UNCHANGED <<kind, want, chunk, line>>
         /\ \A u \in Thread \ {t} : pc'[u] = pc[u]
         /\ pc'[t] = pc[t] \/ {pc[t], pc'[t]} \subseteq {"idle", "write", "wrote"}
<1> USE DEF TypeOK, Goto, Undefined, stream, threads
<1>1. ASSUME NEW p \in Piece, WriteBegin(t, p)
      PROVE  pc[t] = "idle" /\ pc' = [pc EXCEPT ![t] = "write"] /\ UNCHANGED <<kind, want, chunk, line>>
  BY <1>1 DEF WriteBegin
<1>2. ASSUME WriteCopy(t)
      PROVE  pc[t] = "write" /\ pc' \in {pc, [pc EXCEPT ![t] = "wrote"]} /\ UNCHANGED <<kind, want, chunk, line>>
  BY <1>2 DEF WriteCopy
<1>3. ASSUME WriteEnd(t)
      PROVE  pc[t] = "wrote" /\ pc' = [pc EXCEPT ![t] = "idle"] /\ UNCHANGED <<kind, want, chunk, line>>
  BY <1>3 DEF WriteEnd
<1>4. ASSUME NEW p \in Targets, Seek(t, p) PROVE UNCHANGED <<kind, pc, want, chunk, line>>
  BY <1>4 DEF Seek
<1>5. ASSUME NEW n \in Sizes, Trunc(t, n) PROVE UNCHANGED <<kind, pc, want, chunk, line>>
  BY <1>5 DEF Trunc
<1> QED
  BY <1>1, <1>2, <1>3, <1>4, <1>5

(* A line grows by what does not begin with a newline.                     *)
LEMMA LineGrows ==
  ASSUME NEW l \in Seq(Byte), NEW c \in Seq(Byte), NEW string \in BOOLEAN,
         \A k \in 1 .. Len(l) : l[k] = "newline" => string /\ k > 1 /\ l[k - 1] = "high",
         ~string => Len(c) <= 1,
         \A k \in 1 .. Len(c) : k < Len(c) => c[k] = "high",
         c # <<>>, c[1] # "newline",
         NEW i \in 1 .. Len(l \o c), (l \o c)[i] = "newline"
  PROVE  string /\ i > 1 /\ (l \o c)[i - 1] = "high"
<1>0. Len(l) \in Nat /\ Len(c) \in Nat /\ Len(l \o c) = Len(l) + Len(c)
  OBVIOUS
<1>1. \A k \in 1 .. Len(l) + Len(c) : (l \o c)[k] = IF k <= Len(l) THEN l[k] ELSE c[k - Len(l)]
  OBVIOUS
<1>2. CASE i <= Len(l)
  <2>1. l[i] = "newline" /\ i \in 1 .. Len(l)
    BY <1>0, <1>1, <1>2
  <2>2. string /\ i > 1 /\ l[i - 1] = "high"
    BY <2>1
  <2>3. (l \o c)[i - 1] = l[i - 1]
    BY <1>0, <1>1, <1>2, <2>2
  <2> QED
    BY <2>2, <2>3
<1>3. CASE i > Len(l)
  <2>1. PICK j \in 1 .. Len(c) : i = Len(l) + j
    <3>1. i - Len(l) \in 1 .. Len(c) /\ i = Len(l) + (i - Len(l))
      BY <1>0, <1>3
    <3> QED
      BY <3>1
  <2>2. c[j] = "newline"
    BY <1>0, <1>1, <2>1
  <2>3. j > 1
    BY <2>2
  <2>4. string /\ j - 1 \in 1 .. Len(c) /\ c[j - 1] = "high"
    <3>1. ~(Len(c) <= 1) /\ j - 1 \in 1 .. Len(c) /\ j - 1 < Len(c)
      BY <1>0, <2>3
    <3>2. string
      BY <3>1, Zenon
    <3> QED
      BY <3>1, <3>2
  <2>5. (l \o c)[i - 1] = c[j - 1]
    BY <1>0, <1>1, <2>1, <2>3
  <2> QED
    BY <1>0, <2>1, <2>3, <2>4, <2>5
<1> QED
  BY <1>0, <1>2, <1>3

(* Taking what was read, and asking for more, keeps lines as they should be. *)
LEMMA LineAsk ==
  ASSUME TypeOK, ChunkShape, NEW t \in Thread, Ask(t), kind' = kind, len' \in Int, pos' \in Int
  PROVE  ChunkShape'
<1>1. chunk' = [chunk EXCEPT ![t] = <<>>]
  BY DEF Ask
<1>2. \A u \in Thread \ {t} : pc'[u] = pc[u] /\ want'[u] = want[u] /\ chunk'[u] = chunk[u]
  BY <1>1 DEF Ask, Goto, TypeOK
<1>0. \A u \in Thread \ {t} : Shape(u)'
  BY <1>2 DEF ChunkShape, Shape
<1>3. chunk'[t] = <<>> /\ Len(chunk'[t]) = 0
  BY <1>1 DEF TypeOK
<1>4. CASE kind = "bytes"
  <2>1. pc'[t] = "copy" /\ want'[t] = IF len' - pos' > 1 THEN 1 ELSE len' - pos'
    BY <1>4 DEF Ask, Goto, TypeOK
  <2>2. want'[t] <= 1
    BY <2>1, OneAtMost
  <2>3. pc'[t] = "copy"
    BY <2>1
  <2>4. Shape(t)'
    BY <1>3, <1>4, <2>2, <2>3 DEF Shape
  <2> QED
    BY <2>4, <1>0 DEF ChunkShape
<1>5. CASE kind # "bytes"
  <2>1. pc'[t] = "check" /\ want'[t] = want[t] /\ kind = "string"
    BY <1>5 DEF Ask, Goto, TypeOK
  <2>2. Shape(t)'
    BY <1>3, <1>5, <2>1 DEF Shape
  <2> QED
    BY <2>2, <1>0 DEF ChunkShape
<1> QED
  BY <1>4, <1>5

LEMMA LineTake ==
  ASSUME TypeOK, LineInv, NEW t \in Thread, Take(t), kind' = kind, len' \in Int, pos' \in Int
  PROVE  LineInv'
<1>1. CASE chunk[t] = <<>> \/ chunk[t][1] = "newline"
  <2>0. /\ Goto(t, "idle")
        /\ chunk' = [chunk EXCEPT ![t] = <<>>]
        /\ want' = [want EXCEPT ![t] = 0]
        /\ line' = [line EXCEPT ![t] = <<>>]
    BY <1>1 DEF Take
  <2>1. \A u \in Thread \ {t} : /\ pc'[u] = pc[u] /\ want'[u] = want[u]
                                /\ chunk'[u] = chunk[u] /\ line'[u] = line[u]
    BY <2>0 DEF Goto, TypeOK
  <2>2. pc'[t] = "idle" /\ want'[t] = 0 /\ chunk'[t] = <<>> /\ line'[t] = <<>>
    BY <2>0 DEF Goto, TypeOK
  <2>3. ChunkShape'
    BY <2>1, <2>2 DEF LineInv, ChunkShape, Shape
  <2>4. LinesEndAtNewlines'
    BY <2>1, <2>2 DEF LineInv, LinesEndAtNewlines
  <2> QED
    BY <2>3, <2>4 DEF LineInv
<1>2. CASE ~(chunk[t] = <<>> \/ chunk[t][1] = "newline")
  <2>1. Ask(t) /\ line' = [line EXCEPT ![t] = @ \o chunk[t]]
    BY <1>2 DEF Take
  <2>2. ChunkShape'
    BY <2>1, LineAsk DEF LineInv
  <2>3. ASSUME NEW i \in 1 .. Len(line'[t]), line'[t][i] = "newline"
        PROVE  kind = "string" /\ i > 1 /\ line'[t][i - 1] = "high"
    <3> DEFINE l == line[t]
               c == chunk[t]
               string == kind = "string"
    <3>1. l \in Seq(Byte) /\ c \in Seq(Byte) /\ string \in BOOLEAN
      BY DEF TypeOK
    <3>2. \A k \in 1 .. Len(l) : l[k] = "newline" => string /\ k > 1 /\ l[k - 1] = "high"
      BY DEF LineInv, LinesEndAtNewlines
    <3>3. ~string => Len(c) <= 1
      BY DEF LineInv, ChunkShape, Shape, TypeOK
    <3>4. \A k \in 1 .. Len(c) : k < Len(c) => c[k] = "high"
      BY DEF LineInv, ChunkShape, Shape
    <3>5. c # <<>> /\ c[1] # "newline"
      BY <1>2
    <3>6. line'[t] = l \o c
      BY <2>1 DEF TypeOK
    <3>7. i \in 1 .. Len(l \o c) /\ (l \o c)[i] = "newline"
      BY <2>3, <3>6
    <3> HIDE DEF l, c, string
    <3>8. string /\ i > 1 /\ (l \o c)[i - 1] = "high"
      BY <3>1, <3>2, <3>3, <3>4, <3>5, <3>7, LineGrows
    <3> QED
      BY <3>6, <3>8 DEF string
  <2>4. \A u \in Thread \ {t} : line'[u] = line[u]
    BY <2>1 DEF TypeOK
  <2>5. LinesEndAtNewlines'
    BY <2>3, <2>4 DEF LineInv, LinesEndAtNewlines
  <2> QED
    BY <2>2, <2>5 DEF LineInv
<1> QED
  BY <1>1, <1>2

(* Every step keeps lines and what is read of them in shape.               *)
LEMMA LineStep == TypeOK /\ LineInv /\ [Next]_vars => LineInv'
<1> SUFFICES ASSUME TypeOK, LineInv, [Next]_vars PROVE LineInv'
  OBVIOUS
<1> USE DEF Undefined, stream, threads
<1>0. ASSUME UNCHANGED <<kind, pc, want, chunk, line>> PROVE LineInv'
  BY <1>0 DEF LineInv, ChunkShape, Shape, LinesEndAtNewlines
<1>1. ASSUME NEW t \in Thread, (\E p \in Piece : WriteBegin(t, p)) \/ WriteCopy(t) \/ WriteEnd(t)
               \/ (\E p \in Targets : Seek(t, p)) \/ (\E n \in Sizes : Trunc(t, n))
      PROVE  LineInv'
  <2>1. /\ UNCHANGED <<kind, want, chunk, line>>
        /\ \A u \in Thread \ {t} : pc'[u] = pc[u]
        /\ pc'[t] = pc[t] \/ {pc[t], pc'[t]} \subseteq {"idle", "write", "wrote"}
    BY <1>1, OthersReadNothing
  <2> QED
    BY <2>1 DEF LineInv, ChunkShape, Shape, LinesEndAtNewlines
<1>2. ASSUME NEW t \in Thread, NextLine(t) PROVE LineInv'
  <2>1. ChunkShape' /\ UNCHANGED <<kind, line>>
    BY <1>2, LineAsk DEF NextLine, TypeOK, LineInv
  <2> QED
    BY <2>1 DEF LineInv, LinesEndAtNewlines
<1>3. ASSUME NEW t \in Thread, ReadEnd(t) \/ ReadsEnd(t) PROVE LineInv'
  <2>1. Take(t) /\ kind' = kind /\ len' \in Int /\ pos' \in Int
    BY <1>3 DEF ReadEnd, ReadsEnd, TypeOK
  <2> QED
    BY <2>1, LineTake
<1>4. ASSUME NEW t \in Thread, ReadCopy(t) PROVE LineInv'
  <2>1. CASE UNCHANGED <<kind, pc, want, chunk, line>>
    BY <1>0, <2>1
  <2>2. CASE /\ pc' = [pc EXCEPT ![t] = "copied"]
             /\ want[t] = 0 \/ (want[t] > 0 /\ ~Outside(pos, want[t]))
             /\ chunk' = [chunk EXCEPT ![t] = SubSeq(data, pos + 1, pos + want[t])]
             /\ UNCHANGED <<kind, want, line>>
    <3>1. pc[t] = "copy" /\ kind = "bytes" /\ want[t] \in 0 .. 1
      BY <1>4, <2>2 DEF ReadCopy, LineInv, ChunkShape, Shape, TypeOK
    <3>2. Len(SubSeq(data, pos + 1, pos + want[t])) <= 1
      BY <3>1, <2>2 DEF Outside, TypeOK
    <3>3. pc'[t] = "copied" /\ chunk'[t] = SubSeq(data, pos + 1, pos + want[t])
      BY <2>2 DEF TypeOK
    <3>4. Shape(t)'
      <4>1. Len(chunk'[t]) \in 0 .. 1
        <5>1. SubSeq(data, pos + 1, pos + want[t]) \in Seq(Byte)
          BY <3>1, <2>2, <1>0 DEF TypeOK, Outside
        <5> QED
          BY <5>1, <3>2, <3>3
      <4>2. pc'[t] = "copied" /\ kind' = "bytes" /\ want'[t] <= 1
        BY <2>2, <3>1, <3>3
      <4>3. ASSUME NEW n \in 0 .. 1, NEW i \in 1 .. n PROVE ~(i < n)
        OBVIOUS
      <4>4. \A i \in 1 .. Len(chunk'[t]) : ~(i < Len(chunk'[t]))
        BY <4>1, <4>3, Zenon
      <4> QED
        BY <4>1, <4>2, <4>4 DEF Shape
    <3>5. ASSUME NEW u \in Thread \ {t} PROVE Shape(u)'
      <4>1. pc'[u] = pc[u] /\ chunk'[u] = chunk[u]
        BY <2>2 DEF TypeOK
      <4> QED
        BY <2>2, <4>1 DEF LineInv, ChunkShape, Shape
    <3> QED
      BY <2>2, <3>4, <3>5 DEF LineInv, ChunkShape, LinesEndAtNewlines
  <2> QED
    BY <1>4, <2>1, <2>2 DEF ReadCopy, Goto
<1>5. ASSUME NEW t \in Thread, Check(t) PROVE LineInv'
  <2>1. pc[t] = "check" /\ UNCHANGED <<kind, chunk, line>>
        /\ pc' \in {[pc EXCEPT ![t] = "fetched"], [pc EXCEPT ![t] = "fetch"]}
        /\ want' \in {want, [want EXCEPT ![t] = pos]}
    BY <1>5 DEF Check, Goto
  <2>2. kind = "string"
    BY <2>1 DEF LineInv, ChunkShape, Shape
  <2>3. ASSUME NEW u \in Thread PROVE Shape(u)'
    <3>1. pc'[u] = pc[u] \/ (pc[u] = "check" /\ pc'[u] \in {"fetched", "fetch"})
      BY <2>1 DEF TypeOK
    <3> QED
      BY <2>1, <2>2, <3>1 DEF LineInv, ChunkShape, Shape
  <2> QED
    BY <2>1, <2>3 DEF LineInv, ChunkShape, LinesEndAtNewlines
<1>6. ASSUME NEW t \in Thread, Fetch(t) PROVE LineInv'
  <2>1. CASE UNCHANGED <<kind, pc, want, chunk, line>>
    BY <1>0, <2>1
  <2>2. ASSUME NEW p \in {pos, want[t]}, ~Outside(p, 1),
               chunk' = [chunk EXCEPT ![t] = Append(@, data[p + 1])],
               Goto(t, IF Complete(chunk'[t]) THEN "fetched" ELSE "check"),
               UNCHANGED <<kind, want, line>>
        PROVE  LineInv'
    <3> DEFINE c == chunk[t]
               b == data[p + 1]
    <3>1. c \in Seq(Byte) /\ b \in Byte
      BY <2>2 DEF TypeOK, Outside
    <3>2. pc[t] = "fetch" /\ kind = "string" /\ \A i \in 1 .. Len(c) : c[i] = "high"
      BY <1>6 DEF Fetch, LineInv, ChunkShape, Shape
    <3>3. chunk'[t] = Append(c, b) /\ pc'[t] \in {"fetched", "check"}
      BY <2>2 DEF TypeOK, Goto
    <3>4. pc'[t] = "check" => b = "high"
      BY <2>2, <3>1, <3>3 DEF Complete, Goto, TypeOK
    <3>5. \A i \in 1 .. Len(chunk'[t]) :
             i < Len(chunk'[t]) \/ pc'[t] \in {"check", "fetch"} => chunk'[t][i] = "high"
      <4> HIDE DEF c, b
      <4> QED
        BY <3>1, <3>2, <3>3, <3>4
    <3>6. Shape(t)'
      BY <2>2, <3>2, <3>3, <3>5 DEF Shape
    <3>7. ASSUME NEW u \in Thread \ {t} PROVE Shape(u)'
      <4>1. pc'[u] = pc[u] /\ chunk'[u] = chunk[u]
        BY <2>2 DEF TypeOK, Goto
      <4> QED
        BY <2>2, <4>1 DEF LineInv, ChunkShape, Shape
    <3> QED
      BY <2>2, <3>6, <3>7 DEF LineInv, ChunkShape, LinesEndAtNewlines
  <2> QED
    BY <1>6, <2>1, <2>2 DEF Fetch
<1>7. CASE UNCHANGED vars
  BY <1>0, <1>7 DEF vars
<1> QED
  BY <1>1, <1>2, <1>3, <1>4, <1>5, <1>6, <1>7 DEF Next, Step, Begin, Continue

(* The iterator ends a line at every newline, but for one that is taken    *)
(* for the end of a character, on a spoilt stream too.                     *)
THEOREM LinesEnd == Spec => []LinesEndAtNewlines
<1>1. LineInv => LinesEndAtNewlines
  BY DEF LineInv
<1>2. IInv => TypeOK
  BY DEF IInv
<1> QED
  BY <1>1, <1>2, LineInit, LineStep, Invariant, PTL DEF Spec

-----------------------------------------------------------------------------

(* What a write has copied is behind the end until the end is moved.       *)
Written(t) == \A i \in 1 .. Len(piece[t]) : data[len + i] = piece[t][i]
WrittenWhenCopied == Unspoilt => \A t \in Thread : pc[t] = "wrote" => Written(t)

(* Growing the buffer leaves what is in it.                                *)
LEMMA GrowKeeps ==
  ASSUME TypeOK, NEW n \in Nat, Grow(n), n >= Len(data)
  PROVE  \A i \in 1 .. Len(data) : data'[i] = data[i]
  BY DEF Grow, TypeOK

(* Of two threads only one writes, so no other write comes between the copy *)
(* and the move of the end.                                                *)
LEMMA WrittenStep ==
  IInv /\ IInv' /\ WrittenWhenCopied /\ [Next]_vars => WrittenWhenCopied'
<1> SUFFICES ASSUME IInv, IInv', WrittenWhenCopied, [Next]_vars, Unspoilt',
                    NEW w \in Thread, pc'[w] = "wrote"
             PROVE  Written(w)'
  BY DEF WrittenWhenCopied
<1> USE DEF Undefined, stream, threads
<1>0. TypeOK /\ Len(data) \in Nat /\ \A u \in Thread : Len(piece[u]) \in Nat /\ piece[u] \in Seq(Byte)
  <2>1. TypeOK
    BY DEF IInv
  <2>2. \A u \in Thread : piece[u] \in Seq(Byte)
    BY <2>1, PieceBytes DEF TypeOK
  <2> QED
    BY <2>1, <2>2 DEF TypeOK
<1>1. ASSUME NEW t \in Thread, Step(t) PROVE Written(w)'
  <2>0. Unspoilt /\ Orderly /\ Orderly'
    BY <1>1, SpoiltStays DEF IInv
  <2>1. ASSUME pc[w] = "wrote", piece'[w] = piece[w], len' = len,
               \A i \in len + 1 .. len + Len(piece[w]) : data'[i] = data[i]
        PROVE  Written(w)'
    <3>1. \A i \in 1 .. Len(piece[w]) : data[len + i] = piece[w][i]
      BY <2>0, <2>1 DEF WrittenWhenCopied, Written
    <3>2. \A i \in 1 .. Len(piece[w]) : data'[len + i] = data[len + i]
      BY <1>0, <2>0, <2>1 DEF Orderly, Bounded
    <3> QED
      BY <2>1, <3>1, <3>2 DEF Written
  <2>2. ASSUME NEW p \in Piece, WriteBegin(t, p) PROVE Written(w)'
    <3>1. pc[w] = "wrote" /\ w # t
      BY <1>0, <2>2 DEF WriteBegin, Goto, TypeOK
    <3>2. FALSE
      BY <3>1, <2>0, <2>2 DEF WriteBegin, Spoil, Unspoilt, In, Writing
    <3> QED
      BY <3>2
  <2>3. ASSUME WriteCopy(t) PROVE Written(w)'
    <3>1. pc' = [pc EXCEPT ![t] = "wrote"] /\ pc[t] = "write" /\ len >= 0 /\ len + Len(piece[t]) <= Len(data)
          /\ data' = [i \in 1 .. Len(data) |->
                            IF len < i /\ i <= len + Len(piece[t]) THEN piece[t][i - len] ELSE data[i]]
          /\ UNCHANGED <<len, piece>>
      BY <2>3, <2>0 DEF WriteCopy, Goto, Orderly, Bounded
    <3>2. w = t
      BY <1>0, <2>0, <3>1 DEF TypeOK, Orderly, OneEach, In, Writing
    <3>3. ASSUME NEW i \in 1 .. Len(piece[t]) PROVE data'[len + i] = piece[t][i]
      <4>1. len \in Nat /\ len + i \in 1 .. Len(data) /\ len < len + i /\ len + i <= len + Len(piece[t])
        BY <1>0, <3>1 DEF TypeOK
      <4>2. data'[len + i] = piece[t][(len + i) - len] /\ (len + i) - len = i
        BY <3>1, <4>1
      <4> QED
        BY <4>2
    <3> QED
      BY <3>1, <3>2, <3>3 DEF Written
  <2>4. ASSUME WriteEnd(t) PROVE Written(w)'
    <3>1. pc[w] = "wrote" /\ w # t /\ pc[t] = "wrote"
      BY <1>0, <2>4 DEF WriteEnd, Goto, TypeOK
    <3>2. FALSE
      BY <3>1, <2>0 DEF Orderly, OneEach, In, Writing
    <3> QED
      BY <3>2
  <2>5. ASSUME NextLine(t) \/ ReadCopy(t) \/ ReadEnd(t) \/ Check(t) \/ Fetch(t) \/ ReadsEnd(t)
        PROVE  Written(w)'
    <3>1. UNCHANGED <<data, len, piece>>
      BY <2>5 DEF NextLine, ReadCopy, ReadEnd, Check, Fetch, ReadsEnd
    <3>2. \/ pc[w] = "wrote"
          \/ pc' = pc
          \/ \E l \in {"idle", "copy", "copied", "check", "fetch", "fetched"} : pc' = [pc EXCEPT ![t] = l]
      BY <2>5 DEF NextLine, ReadCopy, ReadEnd, Check, Fetch, ReadsEnd, Take, Ask, Goto
    <3>3. pc[w] = "wrote"
      BY <1>0, <3>2 DEF TypeOK
    <3> QED
      BY <2>1, <3>1, <3>3
  <2>6. ASSUME NEW p \in Targets, Seek(t, p) PROVE Written(w)'
    BY <2>1, <2>6 DEF Seek
  <2>7. ASSUME NEW n \in Sizes, Trunc(t, n) PROVE Written(w)'
    <3>1. pc[w] = "wrote" /\ ~(len < 0 /\ n > len)
      BY <1>0, <2>0, <2>7 DEF Trunc, Orderly, Bounded
    <3>2. FALSE
      BY <3>1, <2>0, <2>7 DEF Trunc, Spoil, Unspoilt, Windows, In, Writing
    <3> QED
      BY <3>2
  <2> QED
    BY <1>1, <2>2, <2>3, <2>4, <2>5, <2>6, <2>7 DEF Step, Begin, Continue
<1>2. CASE UNCHANGED vars
  BY <1>2 DEF vars, WrittenWhenCopied, Written, Unspoilt
<1> QED
  BY <1>1, <1>2 DEF Next

(* All that is known of the reachable states. *)
StreamInv == IInv /\ LineInv /\ WrittenWhenCopied

(* ... in every one of them. *)
LEMMA AllInvariant == Spec => []StreamInv
<1>1. Init => WrittenWhenCopied
  BY DEF Init, WrittenWhenCopied
<1>2. IInv => TypeOK
  BY DEF IInv
<1>3. Spec => []LineInv
  BY <1>2, LineInit, LineStep, Invariant, PTL DEF Spec
<1>4. Spec => []WrittenWhenCopied
  BY <1>1, WrittenStep, Invariant, PTL DEF Spec
<1> QED
  BY <1>3, <1>4, Invariant, PTL DEF StreamInv

-----------------------------------------------------------------------------

contents == SubSeq(data, 1, len)
position == pos + Ahead
got == [t \in Thread |-> line[t] \o chunk[t]]

(* The position is ahead of the field by what the one reader has copied.   *)
LEMMA AheadNone == (\A t \in Thread : pc[t] # "copied") => Ahead = 0
  BY DEF Ahead, Copied

LEMMA AheadOne ==
  ASSUME NEW t \in Thread, pc[t] = "copied", \A u \in Thread \ {t} : pc[u] # "copied"
  PROVE  Ahead = want[t]
<1>1. (CHOOSE u \in Thread : Copied(u)) = t
  BY DEF Copied
<1> QED
  BY <1>1 DEF Ahead, Copied

(* It stays so while nobody copies or moves it.                            *)
LEMMA AheadStays ==
  ASSUME \A t \in Thread : (pc'[t] = "copied") <=> (pc[t] = "copied"),
         \A t \in Thread : pc[t] = "copied" => want'[t] = want[t]
  PROVE  Ahead' = Ahead
<1>1. \A t \in Thread : Copied(t)' <=> Copied(t)
  BY DEF Copied
<1>2. (CHOOSE t \in Thread : Copied(t)') = (CHOOSE t \in Thread : Copied(t))
  BY <1>1, Zenon
<1>3. CASE \E t \in Thread : Copied(t)
  <2>1. Copied(CHOOSE t \in Thread : Copied(t)) /\ (CHOOSE t \in Thread : Copied(t)) \in Thread
    BY <1>3, Zenon
  <2> QED
    BY <1>1, <1>2, <1>3, <2>1 DEF Ahead, Copied
<1>4. CASE ~\E t \in Thread : Copied(t)
  BY <1>1, <1>4 DEF Ahead
<1> QED
  BY <1>3, <1>4

(* A prefix of a sequence. *)
LEMMA PrefixOfSeq ==
  ASSUME NEW S, NEW s \in Seq(S), NEW n \in 0 .. Len(s)
  PROVE  /\ SubSeq(s, 1, n) \in Seq(S) /\ Len(SubSeq(s, 1, n)) = n
         /\ \A i \in 1 .. n : SubSeq(s, 1, n)[i] = s[i]
  OBVIOUS

(* The bytes up to the end.                                                *)
LEMMA Contents ==
  ASSUME TypeOK, Bounded
  PROVE  /\ contents \in Seq(Byte) /\ Len(contents) = len
         /\ \A i \in 1 .. len : contents[i] = data[i]
  BY DEF TypeOK, Bounded, contents

(* ... and the same after a step. *)
LEMMA ContentsNext ==
  ASSUME TypeOK', Bounded'
  PROVE  /\ contents' \in Seq(Byte) /\ Len(contents') = len'
         /\ \A i \in 1 .. len' : contents'[i] = data'[i]
<1>1. data' \in Seq(Byte) /\ len' \in 0 .. Len(data')
  BY DEF TypeOK, Bounded
<1>2. contents' = SubSeq(data', 1, len')
  BY DEF contents
<1> QED
  BY <1>1, <1>2, PrefixOfSeq

(* They are the same where the end and what is before it are.              *)
LEMMA ContentsStay ==
  ASSUME TypeOK, TypeOK', Bounded, Bounded', len' = len,
         \A i \in 1 .. len : data'[i] = data[i]
  PROVE  contents' = contents
<1>1. contents \in Seq(Byte) /\ Len(contents) = len /\ \A i \in 1 .. len : contents[i] = data[i]
  BY Contents
<1>2. contents' \in Seq(Byte) /\ Len(contents') = len' /\ \A i \in 1 .. len' : contents'[i] = data'[i]
  BY ContentsNext
<1> QED
  BY <1>1, <1>2

(* A write that begins, or copies its piece behind the end, is not seen.   *)
LEMMA WriteUnseen ==
  ASSUME StreamInv, StreamInv', Unspoilt, Unspoilt', NEW t \in Thread,
         (\E p \in Piece : WriteBegin(t, p)) \/ WriteCopy(t)
  PROVE  UNCHANGED Stream!vars /\ \A u \in Thread : ~Finishes(u)
<1>0. TypeOK /\ TypeOK' /\ Bounded /\ Bounded'
  BY DEF StreamInv, IInv, Orderly
<1>1. /\ UNCHANGED <<len, pos, want, chunk, line>>
      /\ \E l \in {"write", "wrote"} : pc' = [pc EXCEPT ![t] = l]
      /\ pc[t] \in {"idle", "write"}
      /\ \A i \in 1 .. len : data'[i] = data[i]
  <2>1. ASSUME NEW p \in Piece, WriteBegin(t, p) PROVE \A i \in 1 .. len : data'[i] = data[i]
    <3>0. Len(p) \in Nat
      BY PieceBytes
    <3>1. CASE Room(Len(p)) > Len(data)
      <4>1. Grow(Room(Len(p)))
        BY <2>1, <3>1 DEF WriteBegin
      <4>2. \A i \in 1 .. Len(data) : data'[i] = data[i]
        BY <1>0, <3>0, <4>1, RoomFits, GrowKeeps
      <4> QED
        BY <1>0, <4>2 DEF Bounded, TypeOK
    <3>2. CASE ~(Room(Len(p)) > Len(data))
      BY <2>1, <3>2 DEF WriteBegin, Unmoved
    <3> QED
      BY <3>1, <3>2
  <2>2. ASSUME WriteCopy(t) PROVE \A i \in 1 .. len : data'[i] = data[i]
    BY <1>0, <2>2 DEF WriteCopy, Undefined, stream, Bounded, TypeOK
  <2>3. ASSUME NEW p \in Piece, WriteBegin(t, p)
        PROVE  UNCHANGED <<len, pos, want, chunk, line>> /\ pc' = [pc EXCEPT ![t] = "write"] /\ pc[t] = "idle"
    BY <2>3 DEF WriteBegin, Goto
  <2>4. ASSUME WriteCopy(t)
        PROVE  UNCHANGED <<len, pos, want, chunk, line>> /\ pc' = [pc EXCEPT ![t] = "wrote"] /\ pc[t] = "write"
    BY <1>0, <2>4 DEF WriteCopy, Goto, Undefined, Bounded
  <2> QED
    BY <2>1, <2>2, <2>3, <2>4
<1>2. contents' = contents
  BY <1>0, <1>1, ContentsStay
<1>3. Ahead' = Ahead
  <2>1. \A u \in Thread : (pc'[u] = "copied") <=> (pc[u] = "copied")
    BY <1>0, <1>1 DEF TypeOK
  <2> QED
    BY <1>1, <2>1, AheadStays
<1>4. \A u \in Thread : ~Finishes(u)
  BY <1>0, <1>1 DEF Finishes, TypeOK
<1> QED
  BY <1>1, <1>2, <1>3, <1>4 DEF Stream!vars, contents

LEMMA BehindAt ==
  ASSUME NEW S, NEW s \in Seq(S), NEW u \in Seq(S), NEW k \in 1 .. Len(u)
  PROVE  (s \o u)[Len(s) + k] = u[k]
<1>1. Len(s) \in Nat /\ Len(u) \in Nat
  OBVIOUS
<1>2. Len(s) + k \in 1 .. Len(s) + Len(u) /\ ~(Len(s) + k <= Len(s)) /\ Len(s) + k - Len(s) = k
  BY <1>1
<1> QED
  BY <1>2

(* When a write ends, its piece is appended.                               *)
LEMMA WriteSeen ==
  ASSUME StreamInv, StreamInv', Unspoilt, Unspoilt', NEW t \in Thread, WriteEnd(t)
  PROVE  Finishes(t) /\ Stream!Write(piece[t])
<1>0. TypeOK /\ TypeOK' /\ Bounded /\ Bounded' /\ piece[t] \in Seq(Byte)
  BY PieceBytes DEF StreamInv, IInv, Orderly, TypeOK
<1>1. /\ pc[t] = "wrote" /\ pc' = [pc EXCEPT ![t] = "idle"]
      /\ len' = len + Len(piece[t]) /\ UNCHANGED <<data, pos, want, chunk, line>>
  BY DEF WriteEnd, Goto
<1>2. \A i \in 1 .. Len(piece[t]) : data[len + i] = piece[t][i]
  BY <1>1 DEF StreamInv, WrittenWhenCopied, Written
<1>3. contents' = contents \o piece[t]
  <2>1. contents \in Seq(Byte) /\ Len(contents) = len /\ \A i \in 1 .. len : contents[i] = data[i]
    BY <1>0, Contents
  <2>2. contents' \in Seq(Byte) /\ Len(contents') = len' /\ \A i \in 1 .. len' : contents'[i] = data[i]
    BY <1>0, <1>1 DEF TypeOK, Bounded, contents
  <2>3. Len(contents \o piece[t]) = len' /\ contents \o piece[t] \in Seq(Byte)
    BY <1>0, <1>1, <2>1
  <2>4. ASSUME NEW i \in 1 .. len' PROVE contents'[i] = (contents \o piece[t])[i]
    <3>1. CASE i <= len
      <4>1. i \in 1 .. len /\ Len(piece[t]) \in Nat
        BY <1>0, <1>1, <3>1 DEF Bounded, TypeOK
      <4>2. (contents \o piece[t])[i] = contents[i]
        BY <1>0, <2>1, <4>1
      <4> QED
        BY <2>1, <2>2, <4>1, <4>2
    <3>2. CASE i > len
      <4>1. PICK j \in 1 .. Len(piece[t]) : i = len + j
        <5>1. i - len \in 1 .. Len(piece[t]) /\ i = len + (i - len)
          BY <1>0, <1>1, <3>2 DEF Bounded, TypeOK
        <5> QED
          BY <5>1
      <4>2. contents'[i] = piece[t][j]
        BY <1>2, <2>2, <4>1
      <4>3. (contents \o piece[t])[len + j] = piece[t][j]
        BY <1>0, <2>1, <4>1, BehindAt
      <4> QED
        BY <4>1, <4>2, <4>3
    <3>3. i <= len \/ i > len
      BY <1>0 DEF TypeOK
    <3> QED
      BY <3>1, <3>2, <3>3, Zenon
  <2> QED
    BY <2>2, <2>3, <2>4
<1>4. Ahead' = Ahead
  <2>1. \A u \in Thread : (pc'[u] = "copied") <=> (pc[u] = "copied")
    BY <1>0, <1>1 DEF TypeOK
  <2> QED
    BY <1>1, <2>1, AheadStays
<1>5. Finishes(t)
  BY <1>0, <1>1 DEF Finishes, TypeOK
<1> QED
  BY <1>1, <1>3, <1>4, <1>5 DEF Stream!Write, contents

(* What the iterator has goes from chunk to line, or is done with.         *)
LEMMA TakeSeen ==
  ASSUME StreamInv, StreamInv', NEW t \in Thread, Take(t)
  PROVE  got' \in {got, [got EXCEPT ![t] = <<>>]} /\ (got' # got => pc'[t] = "idle")
<1>0. TypeOK /\ TypeOK'
  BY DEF StreamInv, IInv
<1>1. CASE chunk[t] = <<>> \/ chunk[t][1] = "newline"
  <2>1. Goto(t, "idle") /\ chunk' = [chunk EXCEPT ![t] = <<>>] /\ line' = [line EXCEPT ![t] = <<>>]
    BY <1>1 DEF Take
  <2>2. pc'[t] = "idle"
    BY <1>0, <2>1 DEF Goto, TypeOK
  <2>3. \A u \in Thread : line'[u] \o chunk'[u] = IF u = t THEN <<>> ELSE line[u] \o chunk[u]
    <3>1. <<>> \o <<>> = <<>>
      OBVIOUS
    <3> QED
      BY <1>0, <2>1, <3>1 DEF TypeOK
  <2> QED
    BY <2>2, <2>3 DEF got
<1>2. CASE ~(chunk[t] = <<>> \/ chunk[t][1] = "newline")
  <2>1. chunk' = [chunk EXCEPT ![t] = <<>>] /\ line' = [line EXCEPT ![t] = @ \o chunk[t]]
    BY <1>2 DEF Take, Ask
  <2>2. line'[t] \o chunk'[t] = line[t] \o chunk[t]
    <3>1. line[t] \o chunk[t] \in Seq(Byte)
      BY <1>0 DEF TypeOK
    <3>2. (line[t] \o chunk[t]) \o <<>> = line[t] \o chunk[t]
      BY <3>1
    <3> QED
      BY <1>0, <2>1, <3>2 DEF TypeOK
  <2>3. \A u \in Thread : line'[u] \o chunk'[u] = line[u] \o chunk[u]
    BY <1>0, <2>1, <2>2 DEF TypeOK
  <2> QED
    BY <2>3 DEF got
<1> QED
  BY <1>1, <1>2

(* No step of a read ends a write.                                         *)
LEMMA ReadFinishesNothing ==
  ASSUME TypeOK, NEW t \in Thread,
         NextLine(t) \/ ReadCopy(t) \/ ReadEnd(t) \/ Check(t) \/ Fetch(t) \/ ReadsEnd(t)
  PROVE  (\A u \in Thread : ~Finishes(u)) /\ \A u \in Thread \ {t} : pc'[u] = pc[u]
<1>1. pc' = pc \/ \E l \in {"idle", "copy", "copied", "check", "fetch", "fetched"} : pc' = [pc EXCEPT ![t] = l]
  BY DEF NextLine, ReadCopy, ReadEnd, Check, Fetch, ReadsEnd, Take, Ask, Goto, Undefined, threads
<1>2. pc[t] # "wrote"
  BY DEF NextLine, ReadCopy, ReadEnd, Check, Fetch, ReadsEnd
<1> QED
  BY <1>1, <1>2 DEF Finishes, TypeOK

(* A line begins unseen. *)
LEMMA NextLineUnseen ==
  ASSUME StreamInv, StreamInv', Unspoilt, Unspoilt', NEW t \in Thread, NextLine(t) \/ Check(t)
  PROVE  UNCHANGED Stream!vars
<1>0. TypeOK /\ TypeOK' /\ Shape(t)
  BY DEF StreamInv, IInv, LineInv, ChunkShape
<1>1. UNCHANGED <<data, len, pos, line>>
  BY DEF NextLine, Check, stream
<1>2. UNCHANGED chunk
  <2>1. CASE NextLine(t)
    <3>1. chunk' = [chunk EXCEPT ![t] = <<>>] /\ chunk[t] = <<>>
      BY <1>0, <2>1 DEF NextLine, Ask, Shape
    <3> QED
      BY <1>0, <3>1 DEF TypeOK
  <2>2. CASE Check(t)
    BY <2>2 DEF Check
  <2> QED
    BY <2>1, <2>2
<1>3. pc[t] # "copied" /\ pc'[t] # "copied" /\ \A u \in Thread \ {t} : pc'[u] = pc[u] /\ want'[u] = want[u]
  <2>1. pc[t] \in {"idle", "check"}
    BY DEF NextLine, Check
  <2>2. \E l \in {"copy", "check", "fetched", "fetch"} : pc' = [pc EXCEPT ![t] = l]
    BY DEF NextLine, Ask, Check, Goto
  <2>3. want' = want \/ \E w : want' = [want EXCEPT ![t] = w]
    BY DEF NextLine, Ask, Check
  <2>4. pc \in [Thread -> {"idle"} \cup Writing \cup Reading] /\ want \in [Thread -> Int]
    BY <1>0 DEF TypeOK
  <2>5. pc'[t] # "copied" /\ \A u \in Thread \ {t} : pc'[u] = pc[u]
    BY <2>2, <2>4
  <2>6. \A u \in Thread \ {t} : want'[u] = want[u]
    BY <2>3, <2>4
  <2> QED
    BY <2>1, <2>5, <2>6
<1>4. Ahead' = Ahead
  <2>1. \A u \in Thread : ((pc'[u] = "copied") <=> (pc[u] = "copied")) /\ (pc[u] = "copied" => want'[u] = want[u])
    BY <1>3
  <2> QED
    BY <2>1, AheadStays
<1> QED
  BY <1>1, <1>2, <1>4 DEF Stream!vars

(* Sequences are equal whose elements are. *)
LEMMA SameSeq ==
  ASSUME NEW S, NEW s \in Seq(S), NEW r \in Seq(S), Len(s) = Len(r),
         \A i \in 1 .. Len(s) : s[i] = r[i]
  PROVE  s = r
  OBVIOUS

(* A part of one element. *)
LEMMA OneOfSeq ==
  ASSUME NEW S, NEW s \in Seq(S), NEW i \in 1 .. Len(s)
  PROVE  SubSeq(s, i, i) = <<s[i]>>
<1>1. SubSeq(s, i, i) \in Seq(S) /\ Len(SubSeq(s, i, i)) = 1 /\ SubSeq(s, i, i)[1] = s[i]
  OBVIOUS
<1>2. <<s[i]>> \in Seq(S) /\ Len(<<s[i]>>) = 1 /\ <<s[i]>>[1] = s[i]
  OBVIOUS
<1> DEFINE r == SubSeq(s, i, i)
           o == <<s[i]>>
<1> HIDE DEF r, o
<1>3. r = o
  <2>1. r \in Seq(S) /\ o \in Seq(S) /\ Len(r) = 1 /\ Len(o) = 1 /\ r[1] = o[1]
    BY <1>1, <1>2 DEF r, o
  <2>2. \A k \in 1 .. Len(r) : r[k] = o[k]
    BY <2>1
  <2> QED
    BY <2>1, <2>2, SameSeq
<1> QED
  BY <1>3 DEF r, o

(* A byte of a BytesIO is read when it is copied.                          *)
LEMMA CopySeen ==
  ASSUME StreamInv, StreamInv', Unspoilt, Unspoilt', NEW t \in Thread, ReadCopy(t)
  PROVE  UNCHANGED Stream!vars \/ Stream!Read(t)
<1>0. TypeOK /\ TypeOK' /\ Bounded /\ Shape(t) /\ pc[t] = "copy"
  BY DEF StreamInv, IInv, Orderly, LineInv, ChunkShape, ReadCopy
<1>1. want[t] \in 0 .. 1 /\ pos + want[t] <= len /\ pos \in Nat /\ len \in Nat
  BY <1>0 DEF StreamInv, IInv, Orderly, ReaderFits, Bounded
<1>2. ~undefined'
  BY DEF StreamInv, IInv, Orderly, Bounded
<1>3. /\ chunk' = [chunk EXCEPT ![t] = SubSeq(data, pos + 1, pos + want[t])]
      /\ pc' = [pc EXCEPT ![t] = "copied"]
      /\ UNCHANGED <<data, len, pos, want, line>>
  BY <1>2 DEF ReadCopy, Goto, Undefined, stream
<1>4. \A u \in Thread \ {t} : pc[u] # "copied"
  BY <1>0 DEF StreamInv, IInv, Orderly, OneEach, In, Reading
<1>5. Ahead = 0 /\ Ahead' = want[t]
  <2>1. pc'[t] = "copied" /\ \A u \in Thread \ {t} : pc'[u] = pc[u]
    BY <1>0, <1>3 DEF TypeOK
  <2>2. Ahead = 0
    BY <1>0, <1>4, AheadNone
  <2>3. (CHOOSE u \in Thread : Copied(u)') = t /\ \E u \in Thread : Copied(u)'
    BY <1>4, <2>1 DEF Copied
  <2>4. Ahead' = want'[t]
    BY <2>3 DEF Ahead
  <2> QED
    BY <1>3, <2>2, <2>4
<1>6. chunk[t] = <<>> /\ line[t] \in Seq(Byte)
  BY <1>0 DEF Shape, TypeOK
<1>7. CASE want[t] = 0
  <2>1. chunk' = chunk
    <3>1. SubSeq(data, pos + 1, pos + want[t]) = <<>>
      BY <1>0, <1>1, <1>7 DEF TypeOK
    <3> QED
      BY <1>0, <1>3, <1>6, <3>1 DEF TypeOK
  <2>2. pos' + Ahead' = pos + Ahead
    BY <1>1, <1>3, <1>5, <1>7
  <2> QED
    BY <1>3, <2>1, <2>2 DEF Stream!vars
<1>8. CASE want[t] = 1
  <2>1. pos < len /\ pos + 1 \in 1 .. Len(data)
    BY <1>0, <1>1, <1>8 DEF Bounded, TypeOK
  <2>2. SubSeq(data, pos + 1, pos + want[t]) = <<data[pos + 1]>>
    BY <1>0, <1>8, <2>1, OneOfSeq DEF TypeOK
  <2>3. Len(contents) = len /\ contents[pos + 1] = data[pos + 1]
    BY <1>0, <1>1, <2>1, Contents
  <2>4. chunk'[t] = <<data[pos + 1]>> /\ \A u \in Thread \ {t} : chunk'[u] = chunk[u]
    BY <1>0, <1>3, <2>2 DEF TypeOK
  <2>5. line'[t] \o chunk'[t] = Append(line[t] \o chunk[t], data[pos + 1])
    <3> DEFINE l == line[t]
               b == data[pos + 1]
    <3>1. l \in Seq(Byte) /\ b \in Byte
      BY <1>0, <2>1 DEF TypeOK
    <3>2. l \o <<b>> = Append(l \o <<>>, b)
      <4> HIDE DEF l, b
      <4> QED
        BY <3>1
    <3> QED
      BY <1>3, <1>6, <2>4, <3>2
  <2>6. got' = [got EXCEPT ![t] = Append(@, data[pos + 1])]
    <3>1. \A u \in Thread \ {t} : line'[u] \o chunk'[u] = line[u] \o chunk[u]
      BY <1>3, <2>4
    <3> QED
      BY <2>5, <3>1 DEF got
  <2>7. position < Len(contents) /\ position' = position + 1 /\ contents' = contents
        /\ position = pos
    BY <1>1, <1>3, <1>5, <1>8, <2>1, <2>3 DEF position, contents
  <2>8. got' = [got EXCEPT ![t] = Append(@, contents[position + 1])]
    BY <2>3, <2>6, <2>7
  <2> QED
    BY <2>7, <2>8 DEF Stream!Read, position, contents, got
<1> QED
  BY <1>1, <1>7, <1>8

(* The position follows what was copied; what was got is kept or done with. *)
LEMMA ReadEndSeen ==
  ASSUME StreamInv, StreamInv', Unspoilt, Unspoilt', NEW t \in Thread, ReadEnd(t) \/ ReadsEnd(t)
  PROVE  UNCHANGED Stream!vars \/ (pc'[t] = "idle" /\ Stream!EndLine(t))
<1>0. TypeOK /\ TypeOK' /\ Bounded /\ Bounded' /\ Shape(t) /\ Shape(t)'
  BY DEF StreamInv, IInv, Orderly, LineInv, ChunkShape
<1>1. Take(t) /\ UNCHANGED <<data, len>> /\ pc[t] \in Reading
  BY DEF ReadEnd, ReadsEnd, stream, Reading
<1>2. \A u \in Thread \ {t} : pc[u] \notin Reading /\ pc'[u] = pc[u]
  BY <1>0, <1>1, ReadFinishesNothing DEF StreamInv, IInv, Orderly, OneEach, In
<1>3. Ahead' = 0
  <2>1. pc'[t] # "copied"
    <3>1. \E l \in {"idle", "copy", "check"} : pc' = [pc EXCEPT ![t] = l]
      BY <1>1 DEF Take, Ask, Goto
    <3>2. t \in DOMAIN pc
      BY <1>0 DEF TypeOK
    <3> QED
      BY <3>1, <3>2
  <2>2. \A u \in Thread : pc'[u] # "copied"
    BY <1>2, <2>1 DEF Reading
  <2> QED
    BY <2>2 DEF Ahead, Copied
<1>4. pos' + Ahead' = pos + Ahead
  <2>1. CASE ReadEnd(t)
    <3>1. pc[t] = "copied" /\ pos' = pos + want[t]
      BY <2>1 DEF ReadEnd
    <3>2. Ahead = want[t]
      BY <1>2, <3>1, AheadOne DEF Reading
    <3> QED
      BY <1>0, <1>3, <3>1, <3>2 DEF TypeOK
  <2>2. CASE ReadsEnd(t)
    <3>1. pc[t] = "fetched" /\ pos' = pos
      BY <2>2 DEF ReadsEnd, stream
    <3>2. Ahead = 0
      BY <1>2, <3>1, AheadNone DEF Reading
    <3> QED
      BY <1>3, <3>1, <3>2
  <2> QED
    BY <2>1, <2>2
<1>5. got' \in {got, [got EXCEPT ![t] = <<>>]} /\ (got' # got => pc'[t] = "idle")
  BY <1>1, TakeSeen
<1> QED
  BY <1>1, <1>4, <1>5 DEF Stream!vars, Stream!EndLine, got

(* A byte of a StringIO is read when it is fetched.                        *)
LEMMA FetchSeen ==
  ASSUME StreamInv, StreamInv', Unspoilt, Unspoilt', NEW t \in Thread, Fetch(t)
  PROVE  pc[t] = "fetch" /\ Stream!Read(t)
<1>0. TypeOK /\ TypeOK' /\ Bounded /\ pc[t] = "fetch" /\ ~undefined'
  BY DEF StreamInv, IInv, Orderly, Bounded, Fetch
<1>1. want[t] = pos /\ pos < len /\ pos \in Nat /\ len \in Nat
  BY <1>0 DEF StreamInv, IInv, Orderly, ReaderFits, Bounded
<1>2. /\ chunk' = [chunk EXCEPT ![t] = Append(@, data[pos + 1])]
      /\ pos' = pos + 1
      /\ pc' \in {[pc EXCEPT ![t] = "fetched"], [pc EXCEPT ![t] = "check"]}
      /\ UNCHANGED <<data, len, line>>
  BY <1>0, <1>1 DEF Fetch, Goto, Undefined
<1>3. Ahead = 0 /\ Ahead' = 0
  <2>1. \A u \in Thread : pc[u] # "copied" /\ pc'[u] # "copied"
    BY <1>0, <1>2 DEF StreamInv, IInv, Orderly, OneEach, In, Reading, TypeOK
  <2> QED
    BY <2>1 DEF Ahead, Copied
<1>4. pos + 1 \in 1 .. Len(data) /\ Len(contents) = len /\ contents[pos + 1] = data[pos + 1]
  <2>1. Len(contents) = len /\ \A i \in 1 .. len : contents[i] = data[i]
    BY <1>0, Contents
  <2>2. len <= Len(data) /\ Len(data) \in Nat
    BY <1>0 DEF Bounded, TypeOK
  <2>3. pos + 1 \in 1 .. len /\ pos + 1 \in 1 .. Len(data)
    BY <1>1, <2>2
  <2> QED
    BY <2>1, <2>3
<1>5. line'[t] \o chunk'[t] = Append(line[t] \o chunk[t], data[pos + 1])
  <2> DEFINE l == line[t]
             c == chunk[t]
             b == data[pos + 1]
  <2>1. l \in Seq(Byte) /\ c \in Seq(Byte) /\ b \in Byte
    BY <1>0, <1>4 DEF TypeOK
  <2>2. l \o Append(c, b) = Append(l \o c, b)
    <3> HIDE DEF l, c, b
    <3> QED
      BY <2>1
  <2>3. line'[t] = l /\ chunk'[t] = Append(c, b)
    BY <1>0, <1>2 DEF TypeOK
  <2> QED
    BY <2>2, <2>3
<1>6. got' = [got EXCEPT ![t] = Append(@, data[pos + 1])]
  <2>1. \A u \in Thread \ {t} : line'[u] \o chunk'[u] = line[u] \o chunk[u]
    BY <1>0, <1>2 DEF TypeOK
  <2> QED
    BY <1>5, <2>1 DEF got
<1>7. position = pos /\ position' = position + 1 /\ contents' = contents
  BY <1>1, <1>2, <1>3 DEF position, contents
<1> QED
  BY <1>0, <1>1, <1>4, <1>6, <1>7 DEF Stream!Read, position, contents, got

(* seek goes to a place in the stream, and trunc cuts it or adds zeros.    *)
LEMMA SeekSeen ==
  ASSUME StreamInv, StreamInv', Unspoilt, Unspoilt', NEW t \in Thread, NEW p \in Targets, Seek(t, p)
  PROVE  Stream!Seek(p) /\ \A u \in Thread : ~Finishes(u)
<1>0. TypeOK /\ Bounded
  BY DEF StreamInv, IInv, Orderly
<1>1. p \in 0 .. len /\ In(Reading) = {} /\ pos' = p /\ UNCHANGED <<data, len, pc, want, line, chunk>>
  BY DEF Seek, Spoil, Unspoilt, threads
<1>2. Ahead = 0 /\ Ahead' = 0
  <2>1. \A u \in Thread : pc[u] # "copied" /\ pc'[u] # "copied"
    BY <1>1 DEF In, Reading
  <2> QED
    BY <2>1 DEF Ahead, Copied
<1>3. Len(contents) = len
  BY <1>0, Contents
<1>4. position' = p
  BY <1>0, <1>1, <1>2 DEF position, Bounded
<1> QED
  BY <1>1, <1>3, <1>4 DEF Stream!Seek, Finishes, position, contents

LEMMA TruncSeen ==
  ASSUME StreamInv, StreamInv', Unspoilt, Unspoilt', NEW t \in Thread, NEW n \in Sizes, Trunc(t, n)
  PROVE  Stream!Trunc(n) /\ \A u \in Thread : ~Finishes(u)
<1>0. TypeOK /\ TypeOK' /\ Bounded /\ Bounded' /\ len \in Nat
  BY DEF StreamInv, IInv, Orderly, Bounded
<1>1. ~(len < 0 /\ n > len) /\ n \in Int
  BY <1>0, SizesAssumption
<1>2. n >= 0 /\ Windows = {}
  BY <1>1 DEF Trunc, Spoil, Unspoilt
<1>3. /\ data' = [i \in 1 .. NextSize(Len(data), n) |->
                           IF len < i /\ i <= n THEN "zero"
                           ELSE IF i <= Len(data) THEN data[i] ELSE "any"]
      /\ len' = n
      /\ pos' = IF pos > n THEN n ELSE pos
      /\ UNCHANGED <<pc, want, line, chunk>>
  BY <1>1, <1>2 DEF Trunc
<1>4. Ahead = 0 /\ Ahead' = 0
  <2>1. \A u \in Thread : pc[u] # "copied" /\ pc'[u] # "copied"
    BY <1>2, <1>3 DEF Windows, In, Reading, Writing
  <2> QED
    BY <2>1 DEF Ahead, Copied
<1>5. contents' = [i \in 1 .. n |-> IF i <= Len(contents) THEN contents[i] ELSE "zero"]
  <2> DEFINE new == [i \in 1 .. n |-> IF i <= Len(contents) THEN contents[i] ELSE "zero"]
  <2>1. contents \in Seq(Byte) /\ Len(contents) = len /\ \A i \in 1 .. len : contents[i] = data[i]
    BY <1>0, Contents
  <2>2. contents' \in Seq(Byte) /\ Len(contents') = n /\ \A i \in 1 .. n : contents'[i] = data'[i]
    <3>1. contents' \in Seq(Byte) /\ Len(contents') = len' /\ \A i \in 1 .. len' : contents'[i] = data'[i]
      BY <1>0, ContentsNext
    <3> QED
      BY <1>3, <3>1
  <2>3. NextSize(Len(data), n) \in Nat /\ NextSize(Len(data), n) >= n /\ Len(data) \in Nat
    BY <1>0, <1>1, SizeGrows DEF TypeOK
  <2>4. ASSUME NEW i \in 1 .. n PROVE data'[i] = (IF i <= len THEN data[i] ELSE "zero")
    <3>1. i \in 1 .. NextSize(Len(data), n) /\ (i <= len => i <= Len(data))
      BY <1>0, <1>1, <2>3 DEF Bounded
    <3>2. data'[i] = IF len < i /\ i <= n THEN "zero"
                           ELSE IF i <= Len(data) THEN data[i] ELSE "any"
      BY <1>3, <3>1
    <3> QED
      BY <1>0, <1>1, <3>1, <3>2
  <2>5. ASSUME NEW i \in 1 .. n PROVE contents'[i] = new[i]
    <3>1. CASE i <= len
      <4>1. new[i] = contents[i] /\ i \in 1 .. len
        BY <1>0, <1>1, <2>1, <3>1
      <4> QED
        BY <2>1, <2>2, <2>4, <3>1, <4>1
    <3>2. CASE ~(i <= len)
      <4>1. new[i] = "zero"
        BY <2>1, <3>2
      <4>2. contents'[i] = data'[i] /\ data'[i] = "zero"
        BY <2>2, <2>4, <3>2
      <4> QED
        BY <4>1, <4>2
    <3> QED
      BY <3>1, <3>2
  <2>6. new \in Seq(Byte) /\ Len(new) = n
    <3>1. \A i \in 1 .. n : new[i] \in Byte
      BY <2>2, <2>5
    <3>2. n \in Nat
      BY <1>1, <1>2
    <3> QED
      BY <3>1, <3>2
  <2> HIDE DEF new
  <2>7. contents' = new
    BY <2>2, <2>5, <2>6, SameSeq
  <2> QED
    BY <2>7 DEF new
<1>6. position = pos /\ position' = IF position > n THEN n ELSE position
  BY <1>0, <1>1, <1>3, <1>4 DEF position, Bounded
<1> QED
  BY <1>3, <1>5, <1>6 DEF Stream!Trunc, Finishes, position, contents

(* Every step of an unspoilt stream is one of the stream its users expect. *)
LEMMA StreamStepHolds ==
  StreamInv /\ StreamInv' /\ [Next]_vars => [Unspoilt' => StreamStep]_vars
<1> SUFFICES ASSUME StreamInv, StreamInv', Unspoilt', NEW t \in Thread, Step(t)
             PROVE  StreamStep
  BY DEF Next
<1>0. TypeOK /\ Unspoilt
  BY SpoiltStays DEF StreamInv, IInv
<1>1. CASE (\E p \in Piece : WriteBegin(t, p)) \/ WriteCopy(t)
  BY <1>0, <1>1, WriteUnseen DEF StreamStep
<1>2. CASE WriteEnd(t)
  BY <1>0, <1>2, WriteSeen DEF StreamStep
<1>3. CASE NextLine(t) \/ ReadCopy(t) \/ ReadEnd(t) \/ Check(t) \/ Fetch(t) \/ ReadsEnd(t)
  <2>1. \A u \in Thread : ~Finishes(u)
    BY <1>0, <1>3, ReadFinishesNothing
  <2>2. ReadCopy(t) => pc[t] = "copy"
    BY DEF ReadCopy
  <2> QED
    BY <1>0, <1>3, <2>1, <2>2, NextLineUnseen, CopySeen, ReadEndSeen, FetchSeen DEF StreamStep
<1>4. CASE \E p \in Targets : Seek(t, p)
  BY <1>0, <1>4, SeekSeen DEF StreamStep
<1>5. CASE \E n \in Sizes : Trunc(t, n)
  BY <1>0, <1>5, TruncSeen DEF StreamStep
<1> QED
  BY <1>1, <1>2, <1>3, <1>4, <1>5 DEF Step, Begin, Continue

(* An unspoilt stream is one of bytes written at its end and read at its   *)
(* position, each by one reader, however its operations interleave.        *)
THEOREM Implements == Spec => ImplementsStream
<1> QED
  BY StreamStepHolds, AllInvariant, PTL DEF Spec, ImplementsStream
=============================================================================
