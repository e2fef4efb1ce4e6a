-------------------------------- MODULE Lock --------------------------------
(***************************************************************************)
(* What a client of an os.mutex is promised, as the client sees it.  Each  *)
(* thread is idle, asking for the lock, or holding it; a call that asks    *)
(* ends by holding the lock or (os.mutex trylock) by going away without    *)
(* it, and nobody starts to hold the lock while another thread holds it.   *)
(* The memory of src/src/modules/os/mutex.c is not visible here: module    *)
(* Mutex has it, and implements this specification.                        *)
(***************************************************************************)
CONSTANT Thread

VARIABLE status

States == {"idle", "asking", "holding"}

TypeOK == status \in [Thread -> States]

Init == status = [t \in Thread |-> "idle"]

Moves(t, from, to) ==
    /\ status[t] = from
    /\ status' = [status EXCEPT ![t] = to]

Ask(t) == Moves(t, "idle", "asking")

Grant(t) ==
    /\ \A u \in Thread : status[u] # "holding"
    /\ Moves(t, "asking", "holding")

Refuse(t) == Moves(t, "asking", "idle")

Release(t) == Moves(t, "holding", "idle")

Next == \E t \in Thread : Ask(t) \/ Grant(t) \/ Refuse(t) \/ Release(t)

Spec == Init /\ [][Next]_status
=============================================================================
