------------------------------- MODULE Streams -------------------------------
(***************************************************************************)
(* One BytesIO or StringIO used by several threads (src/src/modules/io/    *)
(* BaseIO.c): printf writes pieces at the end, `for line in stream' reads  *)
(* a line byte by byte, seek and trunc move the position and the end.      *)
(* Each of them works partly with the GIL free.                            *)
(*                                                                         *)
(* A step is what a thread does under the GIL until it gives it up or is   *)
(* done, or one access to the stream without the GIL.  Of a byte the model *)
(* keeps whether it is a newline or has its highest bit set.               *)
(***************************************************************************)
EXTENDS Integers, Sequences

CONSTANTS Thread,
          Piece,        \* what is written at a time
          Targets,      \* arguments of seek
          Sizes,        \* and of trunc
          MaxLen        \* bound on the length for writers and trunc

ASSUME PieceAssumption == Piece \subseteq Seq({"ascii", "high", "newline"})
ASSUME TargetsAssumption == Targets \subseteq Int
ASSUME SizesAssumption == Sizes \subseteq Int
ASSUME MaxLenAssumption == MaxLen \in Nat

VARIABLES
    kind,       \* "bytes" or "string"
    data,       \* the buffer: max_len_b bytes
    len, pos,   \* len_b and pos_b
    pc,
    piece,      \* what a thread writes
    want,       \* rsz of readb; pos_b as reads has seen it
    chunk,      \* what the current call of readb or reads has read
    line,       \* what the iterator has read
    moved,      \* threads in whose window the buffer was reallocated
    spoilt,     \* what has happened that the stream does not guard against
    undefined   \* memory beyond the buffer was used

stream == <<kind, data, len, pos>>
threads == <<pc, piece, want, chunk, line, moved>>
vars == <<stream, threads, spoilt, undefined>>

Init ==
    /\ kind \in {"bytes", "string"}
    /\ data = <<>> /\ len = 0 /\ pos = 0
    /\ pc = [t \in Thread |-> "idle"]
    /\ piece = [t \in Thread |-> <<>>]
    /\ want = [t \in Thread |-> 0]
    /\ chunk = [t \in Thread |-> <<>>]
    /\ line = [t \in Thread |-> <<>>]
    /\ moved = {}
    /\ spoilt = "no"
    /\ undefined = FALSE

Writing == {"write", "wrote"}
Reading == {"copy", "copied", "check", "fetch", "fetched"}

In(pcs) == {t \in Thread : pc[t] \in pcs}
Windows == In(Writing \cup Reading)

Goto(t, l) == pc' = [pc EXCEPT ![t] = l]
Spoil(why) == spoilt' = IF spoilt = "no" THEN why ELSE spoilt
Undefined == undefined' = TRUE /\ UNCHANGED <<stream, threads, spoilt>>

NextSize(cur, req) ==
    IF cur >= req THEN cur ELSE IF req <= 4 THEN 4 ELSE 2 * req

(* realloc: what is new in the buffer is anything. *)
Grow(n) ==
    /\ data' = [i \in 1 .. n |-> IF i <= Len(data) THEN data[i] ELSE "any"]
    /\ moved' = moved \cup Windows

Unmoved == UNCHANGED <<data, moved>>

-----------------------------------------------------------------------------
(* ksio_writeb, ksio_writes *)

(* Mutant: room is made for one more byte. *)
RoomForOne(n) ==
    IF len + 1 >= Len(data) THEN NextSize(Len(data), len + 1) ELSE Len(data)

(* The size of the buffer before n bytes are written. *)
Room(n) ==
    IF len + n >= Len(data) THEN NextSize(Len(data), len + n) ELSE Len(data)

WriteBegin(t, p) ==
    LET room == Room(Len(p))
        grows == room > Len(data)
    IN /\ pc[t] = "idle"
       /\ len + Len(p) <= MaxLen
       /\ piece' = [piece EXCEPT ![t] = p]
       /\ Goto(t, "write")
       /\ IF grows THEN Grow(room) ELSE Unmoved
       /\ IF In(Writing) # {} THEN Spoil("two_writes")
          ELSE IF grows /\ Windows # {} THEN Spoil("moved_buffer")
          ELSE UNCHANGED spoilt
       /\ UNCHANGED <<kind, len, pos, want, chunk, line, undefined>>

(* Mutant: at the position. *)
WriteCopyInside(t) ==
    LET n == Len(piece[t])
    IN /\ pc[t] = "write"
       /\ data' = [i \in 1 .. Len(data) |->
                      IF pos < i /\ i <= pos + n THEN piece[t][i - pos] ELSE data[i]]
       /\ Goto(t, "wrote")
       /\ UNCHANGED <<kind, len, pos, piece, want, chunk, line, moved, spoilt, undefined>>

(* The end is read when the GIL is free. *)
WriteCopy(t) ==
    LET n == Len(piece[t])
    IN /\ pc[t] = "write"
       /\ \/ /\ t \in moved \/ ~(len >= 0 /\ len + n <= Len(data))
             /\ Undefined
          \/ /\ len >= 0 /\ len + n <= Len(data)
             /\ data' = [i \in 1 .. Len(data) |->
                            IF len < i /\ i <= len + n THEN piece[t][i - len] ELSE data[i]]
             /\ Goto(t, "wrote")
             /\ UNCHANGED <<kind, len, pos, piece, want, chunk, line, moved, spoilt, undefined>>

WriteEnd(t) ==
    /\ pc[t] = "wrote"
    /\ len' = len + Len(piece[t])
    /\ Goto(t, "idle")
    /\ moved' = moved \ {t}
    /\ piece' = [piece EXCEPT ![t] = <<>>]
    /\ UNCHANGED <<kind, data, pos, want, chunk, line, spoilt, undefined>>

-----------------------------------------------------------------------------
(* TI_next: the iterator asks for one byte of a BytesIO or one character   *)
(* of a StringIO at a time, until it gets a newline or nothing.            *)

(* Up to where readb or reads gives the GIL up; len and pos are as the     *)
(* step so far has left them.                                              *)
Ask(t) ==
    /\ chunk' = [chunk EXCEPT ![t] = <<>>]
    /\ IF kind = "bytes"
       THEN /\ want' = [want EXCEPT ![t] = IF len' - pos' > 1 THEN 1 ELSE len' - pos']
            /\ Goto(t, "copy")
       ELSE UNCHANGED want /\ Goto(t, "check")
    /\ IF In(Reading) \ {t} # {} THEN Spoil("two_reads") ELSE UNCHANGED spoilt

NextLine(t) ==
    /\ pc[t] = "idle"
    /\ UNCHANGED <<stream, piece, line, moved, undefined>>
    /\ Ask(t)

Outside(p, n) == p < 0 \/ p + n > Len(data)

ReadCopy(t) ==
    /\ pc[t] = "copy"
    /\ \/ /\ t \in moved \/ want[t] < 0 \/ (want[t] > 0 /\ Outside(pos, want[t]))
          /\ Undefined
       \/ /\ want[t] = 0 \/ (want[t] > 0 /\ ~Outside(pos, want[t]))
          /\ chunk' = [chunk EXCEPT ![t] = SubSeq(data, pos + 1, pos + want[t])]
          /\ Goto(t, "copied")
          /\ UNCHANGED <<stream, piece, want, line, moved, spoilt, undefined>>

(* What TI_next does with what it got. *)
Take(t) ==
    IF chunk[t] = <<>> \/ chunk[t][1] = "newline"
    THEN /\ Goto(t, "idle")
         /\ chunk' = [chunk EXCEPT ![t] = <<>>]
         /\ want' = [want EXCEPT ![t] = 0]
         /\ line' = [line EXCEPT ![t] = <<>>]
         /\ UNCHANGED spoilt
    ELSE /\ line' = [line EXCEPT ![t] = @ \o chunk[t]]
         /\ Ask(t)

ReadEnd(t) ==
    /\ pc[t] = "copied"
    /\ pos' = pos + want[t]
    /\ moved' = moved \ {t}
    /\ UNCHANGED <<kind, data, len, piece, undefined>>
    /\ Take(t)

(* Another thread may have moved the position between two uses of it.      *)
Check(t) ==
    /\ pc[t] = "check"
    /\ IF pos >= len
       THEN Goto(t, "fetched") /\ UNCHANGED want
       ELSE Goto(t, "fetch") /\ want' = [want EXCEPT ![t] = pos]
    /\ UNCHANGED <<stream, piece, chunk, line, moved, spoilt, undefined>>

(* Mutant: the bit is taken for its opposite. *)
CompleteInverted(c) == c[Len(c)] = "high" \/ Len(c) = 4

(* A character ends with the first byte that has its highest bit clear.    *)
Complete(c) == c[Len(c)] # "high" \/ Len(c) = 4

Fetch(t) ==
    /\ pc[t] = "fetch"
    /\ \E p \in {pos, want[t]} :
          \/ /\ t \in moved \/ Outside(p, 1)
             /\ Undefined
          \/ /\ ~Outside(p, 1)
             /\ pos' = p + 1
             /\ chunk' = [chunk EXCEPT ![t] = Append(@, data[p + 1])]
             /\ Goto(t, IF Complete(chunk'[t]) THEN "fetched" ELSE "check")
             /\ UNCHANGED <<kind, data, len, piece, want, line, moved, spoilt, undefined>>

ReadsEnd(t) ==
    /\ pc[t] = "fetched"
    /\ moved' = moved \ {t}
    /\ UNCHANGED <<stream, piece, undefined>>
    /\ Take(t)

-----------------------------------------------------------------------------
(* ksio_seek; a StringIO refuses it *)
Seek(t, p) ==
    /\ pc[t] = "idle"
    /\ kind = "bytes"
    /\ pos' = p
    /\ IF p \notin 0 .. len THEN Spoil("range")
       ELSE IF In(Reading) # {} THEN Spoil("moved_position")
       ELSE UNCHANGED spoilt
    /\ UNCHANGED <<kind, data, len, threads, undefined>>

(* ksio_trunc; a StringIO refuses to grow *)
Trunc(t, n) ==
    /\ pc[t] = "idle"
    /\ n > len => kind = "bytes"
    /\ IF len < 0 /\ n > len THEN Undefined
       ELSE /\ data' = [i \in 1 .. NextSize(Len(data), n) |->
                           IF len < i /\ i <= n THEN "zero"
                           ELSE IF i <= Len(data) THEN data[i] ELSE "any"]
            /\ moved' = IF n > Len(data) THEN moved \cup Windows ELSE moved
            /\ len' = n
            /\ pos' = IF pos > n THEN n ELSE pos
            /\ IF n < 0 THEN Spoil("range")
               ELSE IF Windows # {} THEN Spoil("moved_end")
               ELSE UNCHANGED spoilt
            /\ UNCHANGED <<kind, pc, piece, want, chunk, line, undefined>>

-----------------------------------------------------------------------------
Begin(t) ==
    \/ \E p \in Piece : WriteBegin(t, p)
    \/ NextLine(t)
    \/ \E p \in Targets : Seek(t, p)
    \/ \E n \in Sizes : Trunc(t, n)

Continue(t) ==
    \/ WriteCopy(t) \/ WriteEnd(t)
    \/ ReadCopy(t) \/ ReadEnd(t)
    \/ Check(t) \/ Fetch(t) \/ ReadsEnd(t)

(* On a spoilt stream what is under way goes on, and nothing else begins.  *)
Step(t) == (spoilt = "no" /\ Begin(t)) \/ Continue(t)

Next ==
    \/ ~undefined /\ \E t \in Thread : Step(t)
    \/ (undefined \/ (spoilt # "no" /\ Windows = {})) /\ UNCHANGED vars

Spec == Init /\ [][Next]_vars

-----------------------------------------------------------------------------
Byte == {"ascii", "high", "newline", "zero", "any"}

Unspoilt == spoilt = "no"

TypeOK ==
    /\ kind \in {"bytes", "string"}
    /\ data \in Seq(Byte) /\ len \in Int /\ pos \in Int
    /\ pc \in [Thread -> {"idle"} \cup Writing \cup Reading]
    /\ piece \in [Thread -> Piece \cup {<<>>}]
    /\ want \in [Thread -> Int]
    /\ chunk \in [Thread -> Seq(Byte)] /\ line \in [Thread -> Seq(Byte)]
    /\ moved \subseteq Windows
    /\ spoilt \in {"no", "two_writes", "two_reads", "moved_buffer", "moved_end",
                   "moved_position", "range"}
    /\ undefined \in BOOLEAN

(* Memory outside of the buffer is used, the position is beyond the end or *)
(* the end beyond the buffer only after two threads were writing or two    *)
(* reading at the same time, one of the three was moved in the middle of a *)
(* read or write, or one was set where there is none.                      *)
DefinedUnlessSpoilt ==
    /\ TypeOK
    /\ Unspoilt => ~undefined /\ pos \in 0 .. len /\ len \in 0 .. Len(data)

(* A byte of a BytesIO has been read when it is copied, the position moves *)
(* later.                                                                  *)
Copied(t) == pc[t] = "copied"
Ahead == IF \E t \in Thread : Copied(t) THEN want[CHOOSE t \in Thread : Copied(t)] ELSE 0

Stream == INSTANCE ByteStream WITH
    contents <- SubSeq(data, 1, len),
    position <- pos + Ahead,
    got <- [t \in Thread |-> line[t] \o chunk[t]],
    Zero <- "zero"

Finishes(t) == pc[t] = "wrote" /\ pc'[t] = "idle"

StreamStep ==
    IF \E t \in Thread : Finishes(t)
    THEN \E t \in Thread : Finishes(t) /\ Stream!Write(piece[t])
    ELSE \/ UNCHANGED Stream!vars
         \/ \E t \in Thread : pc[t] \in {"copy", "fetch"} /\ Stream!Read(t)
         \/ \E t \in Thread : pc'[t] = "idle" /\ Stream!EndLine(t)
         \/ \E p \in Targets : Stream!Seek(p)
         \/ \E n \in Sizes : Stream!Trunc(n)

(* While nothing has spoilt the stream, it is one that is written at the   *)
(* end and read at its position, also when one thread reads, its copy and  *)
(* its move of the position apart, while another writes: every write       *)
(* appends its piece when it ends, every byte that a reader gets is the    *)
(* next one, and no byte is got twice or skipped.                          *)
ImplementsStream == [][Unspoilt' => StreamStep]_vars

(* A line has no newline in it, but for one that follows bytes with their  *)
(* highest bit set in a StringIO, with which it is taken for one character *)
(* (BaseIO.c:899 looks at the first byte of it).                           *)
LinesEndAtNewlines ==
    \A t \in Thread : \A i \in 1 .. Len(line[t]) :
        line[t][i] = "newline" =>
            kind = "string" /\ i > 1 /\ line[t][i - 1] = "high"
=============================================================================
