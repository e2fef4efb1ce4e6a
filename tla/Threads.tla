------------------------------- MODULE Threads -------------------------------
(***************************************************************************)
(* os.thread (src/src/modules/os/thread.c): starting, running and joining  *)
(* threads under the global interpreter lock, and the exit handler that    *)
(* joins the threads left over.                                            *)
(*                                                                         *)
(* A thread is a kscript object; each successful start gives it a new      *)
(* pthread, here a strand.  The two are kept apart because an object may   *)
(* be started again after it finished.  Strand 0 is the one that runs      *)
(* main().  The lock is the one module Mutex implements, taken and given   *)
(* up in one step each; its test of owned_by compares thread OBJECTS, so   *)
(* a strand also passes when another strand of its own object is inside.   *)
(*                                                                         *)
(* What a strand's bytecodes compute is left out: at each bytecode it      *)
(* starts a thread, joins one, or does something else, as often as its     *)
(* script allows.  After every bytecode the VM lets the lock go and takes  *)
(* it back.                                                                *)
(***************************************************************************)
EXTENDS Buckets, Sequences, FiniteSets, Functions

CONSTANTS Thread,       \* the thread objects
          Main,         \* ksg_main_thread
          NULL,
          MaxStrand,    \* strands 1 .. MaxStrand may be created
          ReadsOnce,    \* is_queue, which start() polls, is not volatile: the
                        \* loop is built to read it once (cc -O3, the default
                        \* of configure) or each time round
          Scripts       \* what the program may do: each has
                        \*   starts    <<t, u>>: the code of t may start u
                        \*   joins     <<t, u>>: the code of t may join u
                        \*   times     how often one thread may be started
                        \*   ops       bytecodes that start, join or idle, per strand
                        \*   throwers  threads whose code may throw and not catch
                        \*   fails     whether pthread_create may fail

ASSUME MainAssumption == Main \in Thread
ASSUME BoundsAssumption == MaxStrand \in Nat /\ ReadsOnce \in BOOLEAN
ASSUME ScriptAssumption ==
    \A s \in Scripts :
        /\ s.starts \subseteq Thread \X (Thread \ {Main})
        /\ s.joins \subseteq Thread \X (Thread \ {Main})
        /\ {s.times, s.ops} \subseteq Nat
        /\ s.throwers \subseteq Thread
        /\ s.fails \in BOOLEAN

Strand == 0 .. MaxStrand

ASSUME NULLAssumption == NULL \notin Thread /\ NULL \notin Strand

VARIABLES
    script,     \* the one of Scripts that is played
    gil,        \* the strand that has the lock's pthread mutex
    pc,         \* where each strand is
    ops,        \* bytecodes each strand may still execute
    obj,        \* the thread object a strand runs (this_thread_key)
    target,     \* the object it is starting or joining
    waits,      \* the strand its pthread_join waits for
    joined,     \* strands whose pthread_join has returned
    is_active, is_queue, pth_,           \* fields of the thread objects
    failed,     \* threads whose pthread_create has failed; no step reads it
    ents, live, buckets,    \* active_threads: its entries, those that a search
                            \* finds, and how many buckets it has
    is_joining_active, exiting, next,    \* join_active_threads
    process     \* "runs", "ended", or "aborted" by a failed assertion

objVars == <<is_active, is_queue, pth_, failed>>
setVars == <<ents, live, buckets>>
exitVars == <<is_joining_active, exiting, next, process>>
vars == <<script, gil, pc, ops, obj, target, waits, joined, objVars, setVars, exitVars>>

Locations == {"free", "boot", "run", "opend", "yield", "spin", "hung", "spun",
              "joining", "waiting", "joined", "unjoined", "exit", "dead"}

(* Strand 0 has executed its first bytecode without ever taking the lock.  *)
Init ==
    /\ script \in Scripts
    /\ gil = NULL
    /\ pc = [p \in Strand |-> IF p = 0 THEN "opend" ELSE "free"]
    /\ ops = [p \in Strand |-> script.ops]
    /\ obj = [p \in Strand |-> Main]
    /\ target = [p \in Strand |-> NULL]
    /\ waits = [p \in Strand |-> NULL]
    /\ joined = {}
    /\ is_active = [t \in Thread |-> FALSE]
    /\ is_queue = [t \in Thread |-> FALSE]
    /\ pth_ = [t \in Thread |-> NULL]
    /\ failed = {}
    /\ ents = <<>>
    /\ live = {}
    /\ buckets = 0
    /\ is_joining_active = FALSE
    /\ exiting = NULL
    /\ next = 1
    /\ process = "runs"

-----------------------------------------------------------------------------

At(p, loc) == process = "runs" /\ pc[p] = loc

Goto(p, loc) == pc' = [pc EXCEPT ![p] = loc]

(* KS_GIL_LOCK: the mutex is free, or owned_by is already this object      *)
TakeGil(p) ==
    \/ gil = NULL /\ gil' = p
    \/ gil # NULL /\ obj[gil] = obj[p] /\ gil' = gil

GiveGil == gil' = NULL

Idle(t) == ~is_active[t] /\ ~is_queue[t]

Alive(p) == pc[p] \notin {"free", "boot", "dead"}

(* A bytecode begins: p has the lock and some of its program left.         *)
Executes(p) == At(p, "run") /\ ops[p] > 0 /\ ops' = [ops EXCEPT ![p] = @ - 1]

Bytecode(p) ==
    /\ Executes(p)
    /\ Goto(p, "opend")
    /\ UNCHANGED <<script, gil, obj, target, waits, joined, objVars, setVars, exitVars>>

(* VM_ALLOW_GIL: unlock, then lock *)
LetGo(p) ==
    /\ At(p, "opend")
    /\ GiveGil
    /\ Goto(p, "yield")
    /\ UNCHANGED <<script, ops, obj, target, waits, joined, objVars, setVars, exitVars>>

Resume(p) ==
    /\ At(p, "yield")
    /\ TakeGil(p)
    /\ Goto(p, "run")
    /\ UNCHANGED <<script, ops, obj, target, waits, joined, objVars, setVars, exitVars>>

(* Mutants: the new strand does not take the lock; it stays queued. *)
BootUnlocked(p) ==
    /\ At(p, "boot")
    /\ is_active' = [is_active EXCEPT ![obj[p]] = TRUE]
    /\ is_queue' = [is_queue EXCEPT ![obj[p]] = FALSE]
    /\ Goto(p, "run")
    /\ UNCHANGED <<script, gil, ops, obj, target, waits, joined, pth_, failed, setVars, exitVars>>

BootStillQueued(p) ==
    /\ At(p, "boot")
    /\ TakeGil(p)
    /\ is_active' = [is_active EXCEPT ![obj[p]] = TRUE]
    /\ Goto(p, "run")
    /\ UNCHANGED <<script, ops, obj, target, waits, joined, is_queue, pth_, failed, setVars, exitVars>>

(* init_thread_pthreads, up to the call of the thread's function *)
Boot(p) ==
    /\ At(p, "boot")
    /\ TakeGil(p)
    /\ is_active' = [is_active EXCEPT ![obj[p]] = TRUE]
    /\ is_queue' = [is_queue EXCEPT ![obj[p]] = FALSE]
    /\ Goto(p, "run")
    /\ UNCHANGED <<script, ops, obj, target, waits, joined, pth_, failed, setVars, exitVars>>

(* Mutant: only a join resets is_active. *)
FinishStillActive(p) ==
    /\ At(p, "run") /\ p # 0
    /\ GiveGil
    /\ Goto(p, "dead")
    /\ UNCHANGED <<script, ops, obj, target, waits, joined, objVars, setVars, exitVars>>

(* ... and after it returned *)
Finish(p) ==
    /\ At(p, "run") /\ p # 0
    /\ is_active' = [is_active EXCEPT ![obj[p]] = FALSE]
    /\ GiveGil
    /\ Goto(p, "dead")
    /\ UNCHANGED <<script, ops, obj, target, waits, joined, is_queue, pth_, failed, setVars, exitVars>>

-----------------------------------------------------------------------------
(* ksos_thread_start *)

MayStart(p, t) == <<obj[p], t>> \in script.starts /\ Executes(p)

StartAgain(p, t) ==
    /\ MayStart(p, t)
    /\ ~Idle(t)
    /\ Goto(p, "opend")
    /\ UNCHANGED <<script, gil, obj, target, waits, joined, objVars, setVars, exitVars>>

(* Mutant: the thread is not added to active_threads. *)
EnlistNowhere(t) ==
    /\ is_queue' = [is_queue EXCEPT ![t] = TRUE]
    /\ UNCHANGED <<is_active, setVars>>

(* ks_set_add(active_threads, self).  A key that was deleted keeps its     *)
(* entry, and gets a second one when it is added again; a resize makes     *)
(* buckets for all entries, and fails an assertion if two have one key.    *)
Resizes == TooFull(Len(ents), buckets)

EnlistAborts == Resizes /\ ~IsInjective(ents)

Enlist(t) ==
    LET found == IF Resizes THEN Range(ents) ELSE live
    IN /\ ~EnlistAborts
       /\ is_queue' = [is_queue EXCEPT ![t] = TRUE]
       /\ live' = found \cup {t}
       /\ ents' = IF t \in found THEN ents ELSE Append(ents, t)
       /\ buckets' = IF Resizes THEN Grown(Len(ents), buckets) ELSE buckets
       /\ UNCHANGED is_active

(* The strand pthread_create makes: the first one not used yet. *)
IsNew(q) == pc[q] = "free" /\ \A r \in Strand : r < q => pc[r] # "free"

StartedTooOften(t) ==
    Cardinality({q \in Strand : pc[q] # "free" /\ obj[q] = t}) >= script.times

(* Mutant: start does not test whether the thread runs already. *)
StartNewBusy(p, t) ==
    /\ MayStart(p, t)
    /\ ~StartedTooOften(t)
    /\ Enlist(t)
    /\ \E q \in Strand :
          /\ IsNew(q)
          /\ pc' = [pc EXCEPT ![p] = "spin", ![q] = "boot"]
          /\ obj' = [obj EXCEPT ![q] = t]
          /\ pth_' = [pth_ EXCEPT ![t] = q]
    /\ target' = [target EXCEPT ![p] = t]
    /\ GiveGil
    /\ UNCHANGED <<script, waits, joined, failed, exitVars>>

StartNew(p, t) ==
    /\ MayStart(p, t)
    /\ ~StartedTooOften(t)
    /\ Idle(t)
    /\ Enlist(t)
    /\ \E q \in Strand :
          /\ IsNew(q)
          /\ pc' = [pc EXCEPT ![p] = "spin", ![q] = "boot"]
          /\ obj' = [obj EXCEPT ![q] = t]
          /\ pth_' = [pth_ EXCEPT ![t] = q]
    /\ target' = [target EXCEPT ![p] = t]
    /\ GiveGil
    /\ UNCHANGED <<script, waits, joined, failed, exitVars>>

StartAborts(p, t) ==
    /\ MayStart(p, t)
    /\ Idle(t)
    /\ EnlistAborts
    /\ process' = "aborted"
    /\ UNCHANGED <<script, gil, pc, obj, target, waits, joined, objVars, setVars,
                   is_joining_active, exiting, next>>

(* while (self->is_queue) ; *)
Spin(p) ==
    /\ At(p, "spin")
    /\ ~is_queue[target[p]]
    /\ Goto(p, "spun")
    /\ UNCHANGED <<script, gil, ops, obj, target, waits, joined, objVars, setVars, exitVars>>

SpinForever(p) ==
    /\ At(p, "spin")
    /\ is_queue[target[p]]
    /\ ReadsOnce
    /\ Goto(p, "hung")
    /\ UNCHANGED <<script, gil, ops, obj, target, waits, joined, objVars, setVars, exitVars>>

Hangs(p) == At(p, "hung") /\ UNCHANGED vars

StartReturns(p) ==
    /\ At(p, "spun")
    /\ TakeGil(p)
    /\ Goto(p, "opend")
    /\ UNCHANGED <<script, ops, obj, target, waits, joined, objVars, setVars, exitVars>>

(* pthread_create fails: the exception is thrown with is_queue left TRUE *)
StartFails(p, t) ==
    /\ script.fails
    /\ MayStart(p, t)
    /\ Idle(t)
    /\ Enlist(t)
    /\ Goto(p, "opend")
    /\ failed' = failed \cup {t}
    /\ UNCHANGED <<script, gil, obj, target, waits, joined, pth_, exitVars>>

-----------------------------------------------------------------------------
(* ksos_thread_join *)

MayJoin(p, t) == <<obj[p], t>> \in script.joins /\ Executes(p)

JoinIdle(p, t) ==
    /\ MayJoin(p, t)
    /\ Idle(t)
    /\ Goto(p, "opend")
    /\ UNCHANGED <<script, gil, obj, target, waits, joined, objVars, setVars, exitVars>>

BeginJoin(p, t) ==
    /\ ~Idle(t)
    /\ target' = [target EXCEPT ![p] = t]
    /\ GiveGil
    /\ Goto(p, "joining")

JoinCall(p, t) ==
    /\ MayJoin(p, t)
    /\ BeginJoin(p, t)
    /\ UNCHANGED <<script, obj, waits, joined, objVars, setVars, exitVars>>

(* pthread_join refuses itself and a strand that waits for the caller, and *)
(* fails on a pth_ that was never set.  A second join of a strand is       *)
(* undefined: it may fail, and may also wait like the first.               *)
Undefined(p, q) ==
    q \in joined \/ \E r \in Strand \ {p} : pc[r] = "waiting" /\ waits[r] = q

Refused(p, q) ==
    \/ q \in {NULL, p}
    \/ q \in Strand /\ pc[q] = "waiting" /\ waits[q] = p

(* pth_ is read here, after the lock was given up. *)
PthreadJoin(p) ==
    LET q == pth_[target[p]] IN
    /\ At(p, "joining")
    /\ \/ /\ Refused(p, q) \/ Undefined(p, q)
          /\ Goto(p, "unjoined")
          /\ UNCHANGED waits
       \/ /\ ~Refused(p, q)
          /\ Goto(p, "waiting")
          /\ waits' = [waits EXCEPT ![p] = q]
    /\ UNCHANGED <<script, gil, ops, obj, target, joined, objVars, setVars, exitVars>>

(* Mutant: the join gives up before the strand has ended. *)
PthreadJoinedEarly(p) ==
    /\ At(p, "waiting")
    /\ joined' = joined \cup {waits[p]}
    /\ Goto(p, "joined")
    /\ UNCHANGED <<script, gil, ops, obj, target, waits, objVars, setVars, exitVars>>

PthreadJoined(p) ==
    /\ At(p, "waiting")
    /\ pc[waits[p]] = "dead"
    /\ joined' = joined \cup {waits[p]}
    /\ Goto(p, "joined")
    /\ UNCHANGED <<script, gil, ops, obj, target, waits, objVars, setVars, exitVars>>

(* Where a join that began goes on: in the program, or in the exit handler *)
JoinEnds(p) ==
    /\ Goto(p, IF exiting = p THEN "exit" ELSE "opend")
    /\ next' = IF exiting = p THEN next + 1 ELSE next

JoinReturns(p) ==
    /\ At(p, "joined")
    /\ TakeGil(p)
    /\ is_active' = [is_active EXCEPT ![target[p]] = FALSE]
    /\ live' = IF is_joining_active THEN live ELSE live \ {target[p]}
    /\ JoinEnds(p)
    /\ UNCHANGED <<script, ops, obj, target, waits, joined, is_queue, pth_, failed, ents, buckets,
                   is_joining_active, exiting, process>>

(* The exception is printed by the exit handler, or handled by the program *)
JoinFails(p) ==
    /\ At(p, "unjoined")
    /\ TakeGil(p)
    /\ JoinEnds(p)
    /\ UNCHANGED <<script, ops, obj, target, waits, joined, objVars, setVars,
                   is_joining_active, exiting, process>>

-----------------------------------------------------------------------------
(* exit(): by main() when its program has ended, by any strand whose code  *)
(* threw.  The first caller runs join_active_threads; a second one finds   *)
(* the handler taken and ends the process.                                 *)

CallsExit(p) == At(p, "run") /\ (p = 0 \/ obj[p] \in script.throwers)

Exit(p) ==
    /\ CallsExit(p)
    /\ exiting = NULL
    /\ exiting' = p
    /\ is_joining_active' = TRUE
    /\ next' = 1
    /\ Goto(p, "exit")
    /\ UNCHANGED <<script, gil, ops, obj, target, waits, joined, objVars, setVars, process>>

ExitAgain(p) ==
    /\ CallsExit(p)
    /\ exiting # NULL
    /\ process' = "ended"
    /\ UNCHANGED <<script, gil, pc, ops, obj, target, waits, joined, objVars, setVars,
                   is_joining_active, exiting, next>>

ExitSkips(p) ==
    /\ At(p, "exit")
    /\ next <= Len(ents)
    /\ Idle(ents[next])
    /\ next' = next + 1
    /\ UNCHANGED <<script, gil, pc, ops, obj, target, waits, joined, objVars, setVars,
                   is_joining_active, exiting, process>>

ExitJoins(p) ==
    /\ At(p, "exit")
    /\ next <= Len(ents)
    /\ BeginJoin(p, ents[next])
    /\ UNCHANGED <<script, ops, obj, waits, joined, objVars, setVars, exitVars>>

Halt(p) ==
    /\ At(p, "exit")
    /\ next > Len(ents)
    /\ is_joining_active' = FALSE
    /\ ents' = <<>>
    /\ live' = {}
    /\ buckets' = 0
    /\ process' = "ended"
    /\ UNCHANGED <<script, gil, pc, ops, obj, target, waits, joined, objVars, exiting, next>>

Halted == process # "runs" /\ UNCHANGED vars

-----------------------------------------------------------------------------

GilStep(p) ==
    \/ Resume(p) \/ Boot(p) \/ StartReturns(p) \/ JoinReturns(p) \/ JoinFails(p)

OwnStep(p) ==
    \/ Bytecode(p) \/ LetGo(p) \/ Finish(p) \/ Spin(p) \/ SpinForever(p)
    \/ PthreadJoin(p) \/ PthreadJoined(p)
    \/ Exit(p) \/ ExitAgain(p) \/ ExitSkips(p) \/ ExitJoins(p) \/ Halt(p)
    \/ \E t \in Thread : \/ StartAgain(p, t) \/ StartNew(p, t) \/ StartFails(p, t) \/ StartAborts(p, t)
                         \/ JoinIdle(p, t) \/ JoinCall(p, t)

Next == Halted \/ \E p \in Strand : GilStep(p) \/ OwnStep(p) \/ Hangs(p)

Spec == Init /\ [][Next]_vars

(* A strand that can go on does.  Whom the lock lets in is open: a strand  *)
(* may be passed over as long as others take it.                           *)
Fairness == \A p \in Strand : WF_vars(OwnStep(p)) /\ WF_vars(GilStep(p))

FairSpec == Spec /\ Fairness

-----------------------------------------------------------------------------

TypeOK ==
    /\ script \in Scripts
    /\ gil \in Strand \cup {NULL}
    /\ pc \in [Strand -> Locations]
    /\ ops \in [Strand -> 0 .. script.ops]
    /\ obj \in [Strand -> Thread]
    /\ target \in [Strand -> Thread \cup {NULL}]
    /\ waits \in [Strand -> Strand \cup {NULL}]
    /\ joined \subseteq Strand
    /\ is_active \in [Thread -> BOOLEAN]
    /\ is_queue \in [Thread -> BOOLEAN]
    /\ pth_ \in [Thread -> Strand \cup {NULL}]
    /\ failed \subseteq Thread
    /\ ents \in Seq(Thread)
    /\ live \subseteq Range(ents)
    /\ buckets \in Nat
    /\ is_joining_active \in BOOLEAN
    /\ exiting \in Strand \cup {NULL}
    /\ next \in Nat \ {0}
    /\ process \in {"runs", "ended", "aborted"}

(* The GIL keeps bytecodes from executing at the same time (thread.c,      *)
(* T_NAME's documentation): no two strands are inside the interpreter.     *)
OneExecutes ==
    \A p, q \in Strand :
        {pc[p], pc[q]} \subseteq {"run", "opend", "exit"} => p = q

(* isalive() tells the truth: is_active is set exactly while a strand of   *)
(* the thread is between its first and its last statement.                 *)
AliveIsActive ==
    \A t \in Thread \ {Main} :
        is_active[t] <=> \E p \in Strand : obj[p] = t /\ Alive(p)

(* Everything has its type.  A thread is queued while a strand is about to *)
(* run it, which the busy wait of start() rests on; and from the moment    *)
(* its pthread_create fails (thread.c:134): such a thread never executes   *)
(* again, and every later start() takes it for one that runs.              *)
QueuedHasStrand ==
    /\ TypeOK
    /\ \A t \in Thread :
           is_queue[t] <=> t \in failed \/ \E p \in Strand : obj[p] = t /\ pc[p] = "boot"
    /\ \A t \in failed : \A p \in Strand : obj[p] = t => pc[p] \in {"free", "dead"}

(* join() waits for the thread to finish: when a join that blocked returns *)
(* to the program, nothing of the thread executes, and no restart of it    *)
(* has slipped in between the end of its strand and the caller's turn.     *)
Waited ==
    \A p \in Strand :
        pc[p] = "joined" /\ pc'[p] = "opend"
        => \A q \in Strand : obj[q] = target[p] => pc[q] \in {"free", "dead"}

JoinWaits == [][Waited]_vars

(* When the exit handler is done no thread it was to wait for executes,    *)
(* threads started while it was joining others included.                   *)
ExitWaits ==
    process = "ended" => \A p \in Strand \ {0} : ~Alive(p) /\ pc[p] # "boot"

(* The process ends: no start() spins and no join() waits forever.         *)
Termination == <>(process = "ended")
=============================================================================
