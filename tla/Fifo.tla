--------------------------------- MODULE Fifo ---------------------------------
(***************************************************************************)
(* What a util.Queue and its iterators promise: values leave in the order  *)
(* they came, and an iterator gives the values from where it is, those     *)
(* that come later too, until it has reached the end once or what it is at *)
(* has left the queue.                                                     *)
(***************************************************************************)
EXTENDS Integers, Sequences, SequencesExt

CONSTANTS Value, Iter

VARIABLES
    queue,
    pos,    \* of each iterator: an index of queue, End or Lost
    given   \* by the last call

End == 0
Lost == -1

Init ==
    /\ queue = <<>> /\ given = <<>>
    /\ pos = [i \in Iter |-> End]

Push(vals) ==
    /\ queue' = queue \o vals /\ given' = <<>>
    /\ UNCHANGED pos

(* The first n values leave. *)
Leave(n) ==
    /\ queue' = SubSeq(queue, n + 1, Len(queue))
    /\ pos' = [i \in Iter |->
          IF pos[i] > n THEN pos[i] - n ELSE IF pos[i] > 0 THEN Lost ELSE pos[i]]

Pop ==
    \/ queue = <<>> /\ given' = <<"SizeError">> /\ UNCHANGED <<queue, pos>>
    \/ queue # <<>> /\ given' = <<Head(queue)>> /\ Leave(1)

(* A pop of more values than there are empties the queue all the same. *)
PopSome(n) ==
    \/ n <= Len(queue) /\ given' = SubSeq(queue, 1, n) /\ Leave(n)
    \/ n > Len(queue) /\ given' = <<"SizeError">> /\ Leave(Len(queue))

Begin(i) ==
    /\ pos' = [pos EXCEPT ![i] = IF queue = <<>> THEN End ELSE 1]
    /\ given' = <<>>
    /\ UNCHANGED queue

(* The iterator gives what it is at, and goes by steps. *)
Give(i, by) ==
    /\ \/ pos[i] = Lost /\ given' \in {<<v>> : v \in Value \cup {"end"}} /\ UNCHANGED pos
       \/ pos[i] = End /\ given' = <<"end">> /\ UNCHANGED pos
       \/ /\ pos[i] > 0
          /\ given' = <<queue[pos[i]]>>
          /\ pos' = [pos EXCEPT ![i] = IF @ + by \in DOMAIN queue THEN @ + by ELSE End]
    /\ UNCHANGED queue

Forth(i) == Give(i, 1)
Back(i) == Give(i, -1)

Next ==
    \/ \E vals \in UNION {[1 .. n -> Value] : n \in 0 .. 2} : Push(vals)
    \/ Pop
    \/ \E n \in 0 .. Len(queue) + 2 : PopSome(n)
    \/ \E i \in Iter : Begin(i) \/ Forth(i) \/ Back(i)

Spec == Init /\ [][Next]_<<queue, pos, given>>
=============================================================================
