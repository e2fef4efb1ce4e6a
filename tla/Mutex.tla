-------------------------------- MODULE Mutex --------------------------------
(***************************************************************************)
(* os.mutex, the lock of src/src/modules/os/mutex.c (the GIL is one), at   *)
(* the grain of its loads and stores.  A thread inside a call is at one of *)
(* the locations below; it is "out" or "in" between calls.                 *)
(*                                                                         *)
(*   pm        the pthread mutex: the thread that has it, or NULL          *)
(*   owned_by  the field of that name, written with and without pm         *)
(*   waitct    the field _waitct, an int nothing reads; kept modulo Width  *)
(*   reg       the register of a ++ or -- on _waitct, which is a load and  *)
(*             a store; 0 when not in use                                  *)
(*   blocking  whether the thread's current call is lock (else trylock)    *)
(*                                                                         *)
(* Clients unlock only what they hold.  A thread of Relockers may call     *)
(* lock or trylock again while it holds the mutex, which is what the test  *)
(* of owned_by at the top of both functions is for.                        *)
(***************************************************************************)
EXTENDS Integers

CONSTANTS Thread,     \* the kscript threads
          Relockers,  \* those whose code may lock what they hold
          NULL,       \* no thread
          Width       \* _waitct is kept modulo this (2^32 in the build)

ASSUME RelockersAssumption == Relockers \subseteq Thread
ASSUME NULLAssumption == NULL \notin Thread
ASSUME WidthAssumption == Width \in Nat \ {0}

VARIABLES pc, pm, owned_by, waitct, reg, blocking

vars == <<pc, pm, owned_by, waitct, reg, blocking>>

Locations == {"out", "inc_load", "inc_store", "acquire", "own",
              "dec_load", "dec_store", "in", "disown"}

Init ==
    /\ pc = [t \in Thread |-> "out"]
    /\ pm = NULL
    /\ owned_by = NULL
    /\ waitct = 0
    /\ reg = [t \in Thread |-> 0]
    /\ blocking = [t \in Thread |-> TRUE]

Goto(t, from, to) ==
    /\ pc[t] = from
    /\ pc' = [pc EXCEPT ![t] = to]

(* The test at the top of both calls: the owner is already served. *)
FastPath(t) == owned_by = t

Enter(t, isBlocking) ==
    /\ \/ pc[t] = "out"
       \/ pc[t] = "in" /\ t \in Relockers
    /\ pc' = [pc EXCEPT ![t] = IF FastPath(t) THEN "in" ELSE "inc_load"]
    /\ blocking' = [blocking EXCEPT ![t] = isBlocking]
    /\ UNCHANGED <<pm, owned_by, waitct, reg>>

LockCall(t) == Enter(t, TRUE)

TryLockCall(t) == Enter(t, FALSE)

(* _waitct++ and _waitct-- *)
LoadWaitct(t) ==
    /\ \/ Goto(t, "inc_load", "inc_store")
       \/ Goto(t, "dec_load", "dec_store")
    /\ reg' = [reg EXCEPT ![t] = waitct]
    /\ UNCHANGED <<pm, owned_by, waitct, blocking>>

(* Mutant: the thread writes its name before it has the pthread mutex. *)
IncWaitctOwning(t) ==
    /\ Goto(t, "inc_store", "acquire")
    /\ waitct' = (reg[t] + 1) % Width
    /\ reg' = [reg EXCEPT ![t] = 0]
    /\ owned_by' = t
    /\ UNCHANGED <<pm, blocking>>

IncWaitct(t) ==
    /\ Goto(t, "inc_store", "acquire")
    /\ waitct' = (reg[t] + 1) % Width
    /\ reg' = [reg EXCEPT ![t] = 0]
    /\ UNCHANGED <<pm, owned_by, blocking>>

(* pthread_mutex_lock or pthread_mutex_trylock finds the mutex free *)
Acquire(t) ==
    /\ Goto(t, "acquire", "own")
    /\ pm = NULL
    /\ pm' = t
    /\ UNCHANGED <<owned_by, waitct, reg, blocking>>

(* Mutant: trylock does not look at what pthread_mutex_trylock returned. *)
TryFailEnters(t) ==
    /\ ~blocking[t]
    /\ pm # NULL
    /\ Goto(t, "acquire", "in")
    /\ UNCHANGED <<pm, owned_by, waitct, reg, blocking>>

(* pthread_mutex_trylock returns EBUSY: _waitct stays as it was raised *)
TryFail(t) ==
    /\ ~blocking[t]
    /\ pm # NULL
    /\ Goto(t, "acquire", IF pm = t THEN "in" ELSE "out")
    /\ UNCHANGED <<pm, owned_by, waitct, reg, blocking>>

SetOwner(t) ==
    /\ Goto(t, "own", "dec_load")
    /\ owned_by' = t
    /\ UNCHANGED <<pm, waitct, reg, blocking>>

(* Mutant: the counter is wider than the field. *)
DecWaitctUnwrapped(t) ==
    /\ Goto(t, "dec_store", "in")
    /\ waitct' = reg[t] - 1
    /\ reg' = [reg EXCEPT ![t] = 0]
    /\ UNCHANGED <<pm, owned_by, blocking>>

DecWaitct(t) ==
    /\ Goto(t, "dec_store", "in")
    /\ waitct' = (reg[t] - 1) % Width
    /\ reg' = [reg EXCEPT ![t] = 0]
    /\ UNCHANGED <<pm, owned_by, blocking>>

(* Mutant: unlock forgets the pthread mutex. *)
UnlockCallKeeps(t) ==
    /\ Goto(t, "in", "disown")
    /\ UNCHANGED <<pm, owned_by, waitct, reg, blocking>>

(* ksos_mutex_unlock: pthread_mutex_unlock first, owned_by = NULL after *)
UnlockCall(t) ==
    /\ Goto(t, "in", "disown")
    /\ pm' = NULL
    /\ UNCHANGED <<owned_by, waitct, reg, blocking>>

(* Mutant: unlock leaves its caller's name in owned_by. *)
ClearOwnerForgets(t) ==
    /\ Goto(t, "disown", "out")
    /\ UNCHANGED <<pm, owned_by, waitct, reg, blocking>>

ClearOwner(t) ==
    /\ Goto(t, "disown", "out")
    /\ owned_by' = NULL
    /\ UNCHANGED <<pm, waitct, reg, blocking>>

Step(t) ==
    \/ LoadWaitct(t) \/ IncWaitct(t) \/ Acquire(t) \/ TryFail(t)
    \/ SetOwner(t) \/ DecWaitct(t) \/ UnlockCall(t) \/ ClearOwner(t)

Next == \E t \in Thread : LockCall(t) \/ TryLockCall(t) \/ Step(t)

Spec == Init /\ [][Next]_vars

(* A thread inside a call keeps running, and a holder unlocks in the end,  *)
(* however often it locks again before.  Whom pthread_mutex_lock lets in   *)
(* is open, its attributes being the default ones (mutex.c:22): a thread   *)
(* may be passed over for ever.                                            *)
Fairness == \A t \in Thread : WF_vars(Step(t)) /\ SF_vars(UnlockCall(t))

FairSpec == Spec /\ Fairness

-----------------------------------------------------------------------------

TypeOK ==
    /\ pc \in [Thread -> Locations]
    /\ pm \in Thread \cup {NULL}
    /\ owned_by \in Thread \cup {NULL}
    /\ waitct \in 0 .. Width - 1
    /\ reg \in [Thread -> 0 .. Width - 1]
    /\ blocking \in [Thread -> BOOLEAN]

(* The thread is past a successful lock or trylock and has not unlocked.   *)
Inside(t) == pc[t] \in {"own", "dec_load", "dec_store", "in"}

(* Two threads are never inside at once: the promise of os.mutex, although *)
(* lock and trylock return at once, without the pthread mutex, to whoever  *)
(* owned_by names, and owned_by is written by a thread that has already    *)
(* given the pthread mutex back.                                           *)
MutualExclusion ==
    \A t, u \in Thread : Inside(t) /\ Inside(u) => t = u

(* owned_by never names a thread that has lost the mutex, except while     *)
(* that thread is itself about to clear it: the fact the fast path of lock *)
(* and trylock rests on.                                                   *)
OwnerIsInside ==
    \A t \in Thread : owned_by = t => pm = t \/ pc[t] = "disown"

(* A holder locks again after another thread has wiped its name: the fast *)
(* path does not let it through, and it waits for what only it can release.*)
WaitsForItself(t) == pm = t /\ pc[t] = "acquire" /\ blocking[t]

Blocked(t) == pc[t] = "acquire" /\ blocking[t]

(* The mutex is never lost while it is wanted: a thread that blocks in     *)
(* ksos_mutex_lock for ever sees others get the mutex again and again,     *)
(* unless a holder has come to wait for itself.                            *)
LockHandedOn ==
    \A t \in Thread :
        <>[]Blocked(t)
        => \/ []<><<\E u \in Thread : Acquire(u)>>_vars
           \/ <>(\E u \in Thread : WaitsForItself(u))

-----------------------------------------------------------------------------

(* The client's view: asking from the call to its return or to the grant,  *)
(* holding from the grant to pthread_mutex_unlock.                         *)
status ==
    [t \in Thread |->
        IF Inside(t) \/ pm = t THEN "holding"
        ELSE IF pc[t] \in {"inc_load", "inc_store", "acquire"} THEN "asking"
        ELSE "idle"]

(* os.mutex implements the lock its clients expect.                        *)
ClientView == INSTANCE Lock

LockSpec == ClientView!Spec
=============================================================================
