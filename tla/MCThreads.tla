------------------------------ MODULE MCThreads ------------------------------
(* Instances of Threads for TLC. *)
EXTENDS Threads

CONSTANTS T, U

Objects == {Main, T, U}

Script(starts, joins, times, steps) ==
    [starts |-> starts, joins |-> joins, times |-> times, ops |-> steps,
     throwers |-> {}, fails |-> FALSE]

MainOnly == {Main} \X {T, U}

(* Any thread may start or join any other, itself included. *)
Anyhow == Script(Objects \X {T, U}, Objects \X {T, U}, 1, 3)

(* Only main() starts and joins threads, and may start them again. *)
Again == Script(MainOnly, MainOnly, 3, 4)

(* T may join U, but not the other way round. *)
InOrder == MainOnly \cup {<<T, U>>}
NoCycle == Script(InOrder, InOrder, 1, 3)

(* Threads cannot be created, or throw. *)
Failing == [Script(MainOnly, InOrder, 1, 2) EXCEPT !.throwers = {T, U}, !.fails = TRUE]

(* main() and U may both start T; main() joins it. *)
TwoStarters == Script(MainOnly \cup {<<U, T>>}, {<<Main, T>>}, 3, 4)

Orderly == {[s EXCEPT !.fails = TRUE] : s \in {Anyhow, Again}}
Ending == {NoCycle, Failing}
Racing == {TwoStarters}
=============================================================================
