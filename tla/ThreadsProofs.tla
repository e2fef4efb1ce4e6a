---------------------------- MODULE ThreadsProofs ----------------------------
(***************************************************************************)
(* Proofs about os.thread, for any threads, any number of strands and      *)
(* either way the busy wait is built, whether pthread_create fails or not, *)
(* and for programs that start each thread once, or in which only main()   *)
(* starts and joins threads; that the process outlives its threads, for    *)
(* those in which moreover no three threads may join each other in a       *)
(* cycle: of such threads each waits for the next, and the exit handler's  *)
(* joins of them are all refused.                                          *)
(***************************************************************************)
EXTENDS Threads, FiniteSetTheorems, TLAPS

(* What of a program the proofs need: TLC finds the process ended before   *)
(* its threads where two of them throw, and two strands inside where two   *)
(* threads start a third again and again.                                  *)
OnlyMain(s) == s.starts \cup s.joins \subseteq {Main} \X Thread

Orderly(s) ==
    /\ s.throwers = {}
    /\ s.times <= 1 \/ OnlyMain(s)

OrderlyScripts == \A s \in Scripts : Orderly(s)

-----------------------------------------------------------------------------

Live(p) == pc[p] \notin {"free", "dead"}
Inside(p) == pc[p] \in {"run", "opend", "exit"}
Joins(p) == pc[p] \in {"joining", "waiting", "joined", "unjoined"}

(* main() before it has let the lock go for the first time. *)
Fresh == gil = NULL /\ pc[0] = "opend" /\ \A q \in Strand \ {0} : pc[q] = "free"

(* Who is inside has the lock, and the other way round. *)
Locks ==
    /\ \A p \in Strand : Inside(p) => gil = p \/ Fresh
    /\ gil # NULL => Inside(gil)

(* A thread has one strand at a time, the last one it was given; main()'s  *)
(* is the first.                                                           *)
Strands ==
    /\ \A p \in Strand :
          Live(p) => IF p = 0 THEN obj[p] = Main ELSE obj[p] # Main /\ pth_[obj[p]] = p
    /\ \A t \in Thread : pth_[t] # NULL => t # Main /\ obj[pth_[t]] = t /\ pc[pth_[t]] # "free"
    /\ pc[0] \notin {"free", "dead", "boot"}

(* A thread is queued while its strand has not begun, or for ever. *)
Queue ==
    /\ \A t \in Thread :
          is_queue[t] <=> t \in failed \/ \E p \in Strand : obj[p] = t /\ pc[p] = "boot"
    /\ \A t \in failed : \A p \in Strand : obj[p] = t => ~Live(p)

Types ==
    /\ script \in Scripts
    /\ gil \in Strand \cup {NULL}
    /\ pc \in [Strand -> Locations]
    /\ obj \in [Strand -> Thread]
    /\ target \in [Strand -> Thread \cup {NULL}]
    /\ waits \in [Strand -> Strand \cup {NULL}]
    /\ is_active \in [Thread -> BOOLEAN]
    /\ is_queue \in [Thread -> BOOLEAN]
    /\ pth_ \in [Thread -> Strand \cup {NULL}]
    /\ failed \subseteq Thread \ {Main}
    /\ ents \in Seq(Thread \ {Main})
    /\ next \in Nat \ {0}

(* What is joined, or waited for until it has begun, is not main(). *)
Targets == \A p \in Strand : Joins(p) \/ pc[p] \in {"spin", "hung"} => target[p] \in Thread \ {Main}

Core == Types /\ Locks /\ Strands

Step(p) == GilStep(p) \/ OwnStep(p) \/ Hangs(p)

-----------------------------------------------------------------------------
(* The sets of constants.                                                  *)

LEMMA ZeroIsStrand == 0 \in Strand /\ NULL \notin Strand /\ NULL \notin Thread
  BY BoundsAssumption, NULLAssumption DEF Strand

LEMMA ScriptType ==
  ASSUME Types
  PROVE  /\ script.starts \subseteq Thread \X (Thread \ {Main})
         /\ script.joins \subseteq Thread \X (Thread \ {Main})
         /\ script.times \in Nat
  BY ScriptAssumption DEF Types

(* ks_nextprime returns a number. *)
LEMMA GrownType ==
  ASSUME NEW n \in Nat, NEW b \in Nat
  PROVE  Grown(n, b) \in Nat
<1>1. ASSUME NEW x \in Nat
      PROVE  NextPrime(x) \in Nat
  <2> DEFINE passed == {k \in x + 1 .. 2 * x : \A m \in x + 1 .. k : ~IsPrime(m)}
  <2>1. IsFiniteSet(x + 1 .. 2 * x)
    BY FS_Interval
  <2>2. IsFiniteSet(passed)
    BY <2>1, FS_Subset
  <2>3. Cardinality(passed) \in Nat
    BY <2>2, FS_CardinalityType
  <2> HIDE DEF passed
  <2>4. x + 1 + Cardinality(passed) \in Nat
    BY <2>3
  <2> QED
    BY <2>4 DEF NextPrime, passed
<1>2. (10 * n) \div 3 \in Nat
  OBVIOUS
<1>3. NextPrime((10 * n) \div 3) \in Nat
  BY <1>1, <1>2
<1> QED
  BY <1>3 DEF Grown, Wanted

-----------------------------------------------------------------------------
(* Types *)

(* A thread that is started or joined is not main()'s.                     *)
LEMMA EnlistType ==
  ASSUME Types, NEW t \in Thread \ {Main}, Enlist(t)
  PROVE  ents' \in Seq(Thread \ {Main}) /\ is_queue' = [is_queue EXCEPT ![t] = TRUE]
         /\ is_active' = is_active
<1>1. ents' = ents \/ ents' = Append(ents, t)
  BY DEF Enlist
<1>2. ents \in Seq(Thread \ {Main})
  BY DEF Types
<1> QED
  BY <1>1, <1>2 DEF Enlist

LEMMA MayType ==
  ASSUME Types, NEW p \in Strand, NEW t \in Thread
  PROVE  MayStart(p, t) \/ MayJoin(p, t) => t \in Thread \ {Main}
  BY ScriptType DEF MayStart, MayJoin

LEMMA TypesStep ==
  ASSUME Types, Targets, NEW p \in Strand, Step(p)
  PROVE  Types'
<1> DEFINE Places == /\ gil' \in Strand \cup {NULL} /\ pc' \in [Strand -> Locations]
                     /\ obj' \in [Strand -> Thread] /\ target' \in [Strand -> Thread \cup {NULL}]
                     /\ waits' \in [Strand -> Strand \cup {NULL}]
                     /\ pth_' \in [Thread -> Strand \cup {NULL}] /\ failed' \subseteq Thread \ {Main}
                     /\ script' = script
           Flags == /\ is_active' \in [Thread -> BOOLEAN] /\ is_queue' \in [Thread -> BOOLEAN]
           Lists == /\ ents' \in Seq(Thread \ {Main}) /\ next' \in Nat \ {0}
<1>0. script \in Scripts /\ \A n \in Nat \ {0} : n + 1 \in Nat \ {0}
  BY DEF Types
<1>1. CASE Resume(p) \/ Boot(p) \/ StartReturns(p)
  <2>1. Places /\ Flags
    BY <1>1 DEF Resume, Boot, StartReturns, TakeGil, objVars, setVars, exitVars, Types, Locations, Goto
  <2>2. Lists
    BY <1>1 DEF Resume, Boot, StartReturns, setVars, exitVars, Types
  <2> QED
    BY <1>0, <2>1, <2>2 DEF Types
<1>2. CASE JoinReturns(p) \/ JoinFails(p)
  <2>1. Places /\ Flags
    BY <1>2 DEF JoinReturns, JoinFails, JoinEnds, TakeGil, objVars, setVars, exitVars, Types, Locations, Goto
  <2>2. ents' = ents /\ (next' = next \/ next' = next + 1)
    BY <1>2 DEF JoinReturns, JoinFails, JoinEnds, setVars, exitVars
  <2>3. Lists
    BY <1>0, <2>2 DEF Types
  <2> QED
    BY <1>0, <2>1, <2>3 DEF Types
<1>3. CASE Bytecode(p) \/ LetGo(p) \/ Finish(p)
  <2>1. Places /\ Flags
    BY <1>3 DEF Bytecode, LetGo, Finish, GiveGil, objVars, setVars, exitVars, Types, Locations, Goto
  <2>2. Lists
    BY <1>3 DEF Bytecode, LetGo, Finish, setVars, exitVars, Types
  <2> QED
    BY <1>0, <2>1, <2>2 DEF Types
<1>4. CASE Spin(p) \/ SpinForever(p) \/ PthreadJoined(p)
  <2>1. Places /\ Flags
    BY <1>4 DEF Spin, SpinForever, PthreadJoined, objVars, setVars, exitVars, Types, Locations, Goto
  <2>2. Lists
    BY <1>4 DEF Spin, SpinForever, PthreadJoined, setVars, exitVars, Types
  <2> QED
    BY <1>0, <2>1, <2>2 DEF Types
<1>5. CASE PthreadJoin(p)
  <2>1. \/ pc' = [pc EXCEPT ![p] = "unjoined"] /\ UNCHANGED waits
        \/ /\ pc' = [pc EXCEPT ![p] = "waiting"]
           /\ waits' = [waits EXCEPT ![p] = pth_[target[p]]]
    BY <1>5 DEF PthreadJoin, Goto
  <2>2. target[p] \in Thread
    BY <1>5 DEF PthreadJoin, At, Targets, Joins
  <2>3. Places /\ Flags
    BY <1>5, <2>1, <2>2 DEF PthreadJoin, objVars, setVars, exitVars, Types, Locations
  <2>4. Lists
    BY <1>5 DEF PthreadJoin, setVars, exitVars, Types
  <2> QED
    BY <1>0, <2>3, <2>4 DEF Types
<1>6. CASE Exit(p) \/ ExitAgain(p) \/ ExitSkips(p) \/ Hangs(p)
  <2>1. Places /\ Flags
    BY <1>6 DEF Exit, ExitAgain, ExitSkips, Hangs, objVars, setVars, exitVars, vars, Types, Locations, Goto
  <2>2. ents' = ents /\ (next' = next \/ next' = next + 1 \/ next' = 1)
    BY <1>6 DEF Exit, ExitAgain, ExitSkips, Hangs, setVars, exitVars, vars
  <2>3. Lists
    BY <1>0, <2>2 DEF Types
  <2> QED
    BY <1>0, <2>1, <2>3 DEF Types
<1>7. CASE Halt(p)
  <2>1. Places /\ Flags
    BY <1>7 DEF Halt, objVars, Types
  <2>2. Lists
    BY <1>7 DEF Halt, Types
  <2> QED
    BY <1>0, <2>1, <2>2 DEF Types
<1>8. CASE ExitJoins(p)
  <2>1. ents[next] \in Thread
    <3>1. ents \in Seq(Thread \ {Main}) /\ next \in Nat \ {0} /\ next <= Len(ents)
      BY <1>8 DEF ExitJoins, Types
    <3> QED
      BY <3>1
  <2>2. Places /\ Flags
    BY <1>8, <2>1 DEF ExitJoins, BeginJoin, GiveGil, objVars, Types, Locations, Goto
  <2>3. Lists
    BY <1>8 DEF ExitJoins, setVars, exitVars, Types
  <2> QED
    BY <1>0, <2>2, <2>3 DEF Types
<1>9. ASSUME NEW t \in Thread, StartAgain(p, t) \/ StartAborts(p, t)
      PROVE  Types'
  <2>1. Places /\ Flags
    BY <1>9 DEF StartAgain, StartAborts, objVars, Types, Locations, Goto
  <2>2. Lists
    BY <1>9 DEF StartAgain, StartAborts, setVars, exitVars, Types
  <2> QED
    BY <1>0, <2>1, <2>2 DEF Types
<1>10. ASSUME NEW t \in Thread, StartFails(p, t)
       PROVE  Types'
  <2>1. t \in Thread \ {Main} /\ Enlist(t)
    BY <1>10, MayType DEF StartFails
  <2>2. ents' \in Seq(Thread \ {Main}) /\ Flags
    BY <2>1, EnlistType DEF Types
  <2>3. Places /\ next' \in Nat \ {0}
    BY <1>10, <2>1 DEF StartFails, exitVars, Types, Locations, Goto
  <2> QED
    BY <1>0, <2>2, <2>3 DEF Types
<1>11. ASSUME NEW t \in Thread, StartNew(p, t)
       PROVE  Types'
  <2>1. t \in Thread \ {Main} /\ Enlist(t)
    BY <1>11, MayType DEF StartNew
  <2>2. ents' \in Seq(Thread \ {Main}) /\ Flags
    BY <2>1, EnlistType DEF Types
  <2>3. Places /\ next' \in Nat \ {0}
    BY <1>11 DEF StartNew, GiveGil, exitVars, Types, Locations
  <2> QED
    BY <1>0, <2>2, <2>3 DEF Types
<1>12. ASSUME NEW t \in Thread, JoinIdle(p, t) \/ JoinCall(p, t)
       PROVE  Types'
  <2>1. Places /\ Flags
    BY <1>12 DEF JoinIdle, JoinCall, BeginJoin, GiveGil, objVars, Types, Locations, Goto
  <2>2. Lists
    BY <1>12 DEF JoinIdle, JoinCall, setVars, exitVars, Types
  <2> QED
    BY <1>0, <2>1, <2>2 DEF Types
<1> QED
  BY <1>1, <1>2, <1>3, <1>4, <1>5, <1>6, <1>7, <1>8, <1>9, <1>10, <1>11, <1>12 DEF Step, GilStep, OwnStep

-----------------------------------------------------------------------------
(* The kinds of steps, by what they do to the lock and to the strands.     *)

(* No thread is queued, or an idle one whose strand cannot be made. *)
Queues ==
    \/ UNCHANGED <<is_queue, failed>>
    \/ \E t \in Thread \ {Main} :
          /\ Idle(t)
          /\ is_queue' = [is_queue EXCEPT ![t] = TRUE]
          /\ failed' = failed \cup {t}

(* p goes to loc, which is a place of a strand that runs; nothing starts.  *)
Goes(p, loc) ==
    /\ pc[p] \notin {"free", "boot", "dead"}
    /\ loc \in Locations \ {"free", "boot", "dead"}
    /\ pc' = [pc EXCEPT ![p] = loc]
    /\ Queues
    /\ UNCHANGED <<script, obj, pth_>>

(* Nothing that a strand does, and no change of the lock. *)
Still == UNCHANGED <<script, gil, pc, obj, target, waits, joined, objVars>>

GoesOn(p) ==
    \E loc \in {"opend", "exit"} :
        Goes(p, loc) /\ pc[p] = "run" /\ UNCHANGED <<gil, target, waits, joined, is_active>>

Spins(p) ==
    \E loc \in {"spun", "hung"} :
        Goes(p, loc) /\ pc[p] = "spin" /\ UNCHANGED <<gil, target, waits, joined, is_active>>

Returns(p) ==
    \E loc \in {"run", "opend", "exit"} :
        /\ Goes(p, loc) /\ pc[p] \in {"yield", "spun", "unjoined"} /\ TakeGil(p)
        /\ UNCHANGED <<target, waits, joined, is_active>>

(* What a strand waits for, and what it joins. *)
LetsGo(p) ==
    \/ /\ Goes(p, "yield") /\ pc[p] = "opend" /\ GiveGil
       /\ UNCHANGED <<target, waits, joined, is_active>>
    \/ \E t \in Thread :
          /\ Goes(p, "joining") /\ pc[p] \in {"run", "exit"} /\ GiveGil
          /\ t # Main /\ ~Idle(t)
          /\ exiting' = exiting
          /\ (pc[p] = "exit" /\ t \in Range(ents)) \/ <<obj[p], t>> \in script.joins
          /\ target' = [target EXCEPT ![p] = t]
          /\ UNCHANGED <<waits, joined, is_active>>

JoinBegins(p) ==
    \/ /\ Goes(p, "unjoined") /\ pc[p] = "joining"
       /\ Refused(p, pth_[target[p]]) \/ Undefined(p, pth_[target[p]])
       /\ UNCHANGED <<gil, target, waits, joined, is_active>>
    \/ /\ Goes(p, "waiting") /\ pc[p] = "joining"
       /\ ~Refused(p, pth_[target[p]])
       /\ waits' = [waits EXCEPT ![p] = pth_[target[p]]]
       /\ UNCHANGED <<gil, target, joined, is_active>>

LEMMA Kinds ==
  ASSUME Types, Orderly(script), NEW p \in Strand, Step(p)
  PROVE  \/ Still \/ GoesOn(p) \/ Spins(p) \/ Returns(p) \/ LetsGo(p) \/ JoinBegins(p)
         \/ PthreadJoined(p) \/ JoinReturns(p) \/ Boot(p) \/ Finish(p)
         \/ \E t \in Thread : StartNew(p, t)
<1>1. CASE ExitAgain(p) \/ ExitSkips(p) \/ Halt(p) \/ Hangs(p) \/ \E t \in Thread : StartAborts(p, t)
  <2>1. Still
    BY <1>1 DEF ExitAgain, ExitSkips, Halt, Hangs, StartAborts, Still, objVars, vars
  <2> QED
    BY <2>1
<1>2. CASE Bytecode(p) \/ Exit(p) \/ \E t \in Thread : StartAgain(p, t) \/ JoinIdle(p, t)
  <2>1. GoesOn(p)
    BY <1>2 DEF Bytecode, Exit, StartAgain, JoinIdle, MayStart, MayJoin, Executes, CallsExit, At,
                Goto, objVars, GoesOn, Goes, Queues, Locations
  <2> QED
    BY <2>1
<1>3. CASE Spin(p) \/ SpinForever(p)
  <2>1. Spins(p)
    BY <1>3 DEF Spin, SpinForever, At, Goto, objVars, Spins, Goes, Queues, Locations
  <2> QED
    BY <2>1
<1>4. CASE Resume(p) \/ StartReturns(p) \/ JoinFails(p)
  <2>1. Returns(p)
    BY <1>4 DEF Resume, StartReturns, JoinFails, JoinEnds, At, Goto, objVars, Returns, Goes, Queues, Locations
  <2> QED
    BY <2>1
<1>5. CASE LetGo(p)
  <2>1. LetsGo(p)
    BY <1>5 DEF LetGo, At, Goto, objVars, LetsGo, Goes, Queues, Locations
  <2> QED
    BY <2>1
<1>6. ASSUME NEW t \in Thread, JoinCall(p, t)
      PROVE  LetsGo(p)
  <2>1. t # Main /\ ~Idle(t) /\ <<obj[p], t>> \in script.joins
    BY <1>6, MayType DEF JoinCall, BeginJoin, MayJoin
  <2>2. /\ Goes(p, "joining") /\ pc[p] = "run" /\ GiveGil
        /\ target' = [target EXCEPT ![p] = t]
        /\ UNCHANGED <<waits, joined, is_active>> /\ exiting' = exiting
    BY <1>6 DEF JoinCall, BeginJoin, MayJoin, Executes, At, Goto, objVars, exitVars, Goes, Queues, Locations
  <2> QED
    BY <2>1, <2>2 DEF LetsGo
<1>7. CASE ExitJoins(p)
  <2>1. ents \in Seq(Thread \ {Main}) /\ next \in Nat \ {0} /\ next <= Len(ents)
    BY <1>7 DEF ExitJoins, Types
  <2>2. ents[next] \in Thread \ {Main} /\ ents[next] \in Range(ents)
    BY <2>1 DEF Range
  <2>3. /\ Goes(p, "joining") /\ pc[p] = "exit" /\ GiveGil /\ ~Idle(ents[next])
        /\ target' = [target EXCEPT ![p] = ents[next]]
        /\ UNCHANGED <<waits, joined, is_active>> /\ exiting' = exiting
    BY <1>7 DEF ExitJoins, BeginJoin, At, Goto, objVars, exitVars, Goes, Queues, Locations
  <2>4. LetsGo(p)
    BY <2>2, <2>3 DEF LetsGo
  <2> QED
    BY <2>4
<1>8. CASE PthreadJoin(p)
  <2>1. JoinBegins(p)
    BY <1>8 DEF PthreadJoin, At, Goto, objVars, JoinBegins, Goes, Queues, Locations
  <2> QED
    BY <2>1
<1>9. ASSUME NEW t \in Thread, StartFails(p, t)
      PROVE  GoesOn(p)
  <2>1. t \in Thread \ {Main} /\ Enlist(t)
    BY <1>9, MayType DEF StartFails
  <2>2. Queues /\ is_active' = is_active
    BY <1>9, <2>1 DEF StartFails, Enlist, Queues
  <2>3. Goes(p, "opend") /\ pc[p] = "run" /\ UNCHANGED <<gil, target, waits, joined>>
    BY <1>9, <2>2 DEF StartFails, MayStart, Executes, At, Goto, Goes, Locations
  <2> QED
    BY <2>2, <2>3 DEF GoesOn
<1> QED
  BY <1>1, <1>2, <1>3, <1>4, <1>5, <1>6, <1>7, <1>8, <1>9 DEF Step, GilStep, OwnStep

-----------------------------------------------------------------------------
(* The lock *)

LEMMA OneLive ==
  ASSUME Types, Strands, NEW p \in Strand, NEW q \in Strand, Live(p), Live(q), obj[p] = obj[q]
  PROVE  p = q
BY DEF Strands

(* Who is inside and not at main()'s first bytecode has the lock. *)
LEMMA Holds ==
  ASSUME Types, Locks, NEW p \in Strand, Live(p), ~Fresh
  PROVE  Inside(p) => gil = p
BY DEF Locks

LEMMA NotFresh ==
  ASSUME NEW p \in Strand, Live(p), pc[p] # "opend"
  PROVE  ~Fresh
BY DEF Fresh, Live

(* Only p moves, and stays inside. *)
LEMMA LocksInside ==
  ASSUME Types, Locks, NEW p \in Strand, pc[p] \in {"run", "exit"}, NEW loc \in {"run", "opend", "exit"},
         pc' = [pc EXCEPT ![p] = loc], gil' = gil
  PROVE  Locks'
<1>1. gil = p /\ gil # NULL
  BY NotFresh, Holds, ZeroIsStrand DEF Inside, Live
<1>2. \A q \in Strand : Inside(q) => q = p
  BY <1>1 DEF Locks, Fresh
<1>3. \A q \in Strand : Inside(q)' => q = p
  BY <1>2 DEF Inside, Types
<1>4. Inside(p)'
  BY DEF Inside, Types
<1> QED
  BY <1>1, <1>3, <1>4 DEF Locks, Inside

(* p leaves, and nobody else comes inside. *)
LEMMA LocksLeft ==
  ASSUME Types, Locks, NEW p \in Strand, Inside(p), ~Inside(p)', gil' = NULL,
         \A q \in Strand : Inside(q)' => Inside(q)
  PROVE  Locks'
<1>1. \A q \in Strand : Inside(q) => q = p
  BY DEF Locks, Fresh, Inside
<1> QED
  BY <1>1 DEF Locks

(* p comes inside. *)
LEMMA LocksTaken ==
  ASSUME Types, Locks, Strands, NEW p \in Strand, Live(p), ~Inside(p), TakeGil(p),
         NEW loc \in {"run", "opend", "exit"}, pc' = [pc EXCEPT ![p] = loc]
  PROVE  Locks'
<1>1. ~Fresh
  BY NotFresh DEF Inside
<1>2. ASSUME gil # NULL PROVE FALSE
  <2>1. gil \in Strand /\ Inside(gil) /\ Live(gil) /\ obj[gil] = obj[p]
    BY <1>2 DEF Types, Locks, TakeGil, Inside, Live
  <2> QED
    BY <2>1, OneLive
<1>3. gil = NULL /\ gil' = p
  BY <1>2 DEF TakeGil
<1>4. \A q \in Strand : ~Inside(q)
  BY <1>1, <1>3, ZeroIsStrand DEF Locks
<1>5. \A q \in Strand : Inside(q)' => q = p
  BY <1>4 DEF Inside, Types
<1>6. Inside(p)'
  BY DEF Inside, Types
<1> QED
  BY <1>3, <1>5, <1>6 DEF Locks, Inside

(* p goes from one place outside to another. *)
LEMMA LocksOutside ==
  ASSUME Types, Locks, NEW p \in Strand, Live(p), ~Inside(p), ~Inside(p)', NEW loc,
         pc' = [pc EXCEPT ![p] = loc], gil' = gil
  PROVE  Locks'
<1>1. ~Fresh
  BY NotFresh DEF Inside
<1>2. \A q \in Strand : Inside(q)' => Inside(q)
  BY DEF Inside, Types
<1>3. \A q \in Strand : Inside(q) => Inside(q)'
  BY DEF Inside, Types
<1> QED
  <2>1. \A q \in Strand : Inside(q)' => gil' = q
    BY <1>1, <1>2 DEF Locks
  <2>2. gil' # NULL => Inside(gil)'
    <3>1. gil # NULL => gil \in Strand /\ Inside(gil)
      BY DEF Locks, Types
    <3> QED
      BY <3>1, <1>3 DEF Inside
  <2> QED
    BY <2>1, <2>2 DEF Locks

(* What a successful start does: q is new, and t had no strand left. *)
Starts(p, t, q) ==
    /\ pc[p] = "run" /\ q # 0 /\ q # p /\ pc[q] = "free"
    /\ t \in Thread \ {Main} /\ ~StartedTooOften(t) /\ <<obj[p], t>> \in script.starts
    /\ pc' = [pc EXCEPT ![p] = "spin", ![q] = "boot"]
    /\ obj' = [obj EXCEPT ![q] = t]
    /\ pth_' = [pth_ EXCEPT ![t] = q]
    /\ target' = [target EXCEPT ![p] = t]
    /\ is_queue' = [is_queue EXCEPT ![t] = TRUE]
    /\ GiveGil
    /\ UNCHANGED <<script, waits, joined, is_active, exiting, next, process>>

LEMMA Started ==
  ASSUME Types, Strands, NEW p \in Strand, NEW t \in Thread, StartNew(p, t)
  PROVE  \E q \in Strand : Starts(p, t, q)
<1>1. PICK q \in Strand : /\ IsNew(q)
                          /\ pc' = [pc EXCEPT ![p] = "spin", ![q] = "boot"]
                          /\ obj' = [obj EXCEPT ![q] = t]
                          /\ pth_' = [pth_ EXCEPT ![t] = q]
  BY DEF StartNew
<1>2. pc[q] = "free" /\ q # 0 /\ pc[p] = "run" /\ q # p
  BY <1>1 DEF IsNew, Strands, StartNew, MayStart, Executes, At
<1>3. t \in Thread \ {Main}
  BY MayType DEF StartNew
<1>4. is_queue' = [is_queue EXCEPT ![t] = TRUE] /\ is_active' = is_active
  BY DEF StartNew, Enlist
<1>5. /\ ~StartedTooOften(t) /\ <<obj[p], t>> \in script.starts
      /\ target' = [target EXCEPT ![p] = t] /\ GiveGil
      /\ UNCHANGED <<script, waits, joined, exiting, next, process>>
  BY DEF StartNew, exitVars, MayStart
<1> QED
  BY <1>1, <1>2, <1>3, <1>4, <1>5 DEF Starts

LEMMA LocksStep ==
  ASSUME Types, Orderly(script), Locks, Strands, NEW p \in Strand, Step(p)
  PROVE  Locks'
<1>1. CASE Still
  BY <1>1 DEF Still, Locks, Inside, Fresh
<1>2. CASE GoesOn(p)
  BY <1>2, LocksInside DEF GoesOn, Goes
<1>3. CASE Spins(p)
  <2>1. PICK loc \in {"spun", "hung"} : Goes(p, loc) /\ pc[p] = "spin" /\ gil' = gil
    BY <1>3 DEF Spins
  <2>2. Live(p) /\ ~Inside(p) /\ ~Inside(p)' /\ pc' = [pc EXCEPT ![p] = loc]
    BY <2>1 DEF Live, Inside, Goes, Types
  <2> QED
    BY <2>1, <2>2, LocksOutside
<1>4. CASE Returns(p)
  BY <1>4, LocksTaken DEF Returns, Goes, Live, Inside
<1>5. CASE LetsGo(p)
  <2>1. PICK loc \in {"yield", "joining"} : pc' = [pc EXCEPT ![p] = loc] /\ Inside(p) /\ gil' = NULL
    BY <1>5 DEF LetsGo, Goes, GiveGil, Inside
  <2>2. ~Inside(p)' /\ \A q \in Strand : Inside(q)' => Inside(q)
    BY <2>1 DEF Inside, Types
  <2> QED
    BY <2>1, <2>2, LocksLeft
<1>6. CASE JoinBegins(p) \/ PthreadJoined(p)
  <2>1. PICK loc \in {"unjoined", "waiting", "joined"} :
          pc[p] \in {"joining", "waiting"} /\ pc' = [pc EXCEPT ![p] = loc] /\ gil' = gil
    BY <1>6 DEF JoinBegins, Goes, PthreadJoined, At, Goto
  <2>2. Live(p) /\ ~Inside(p) /\ ~Inside(p)'
    BY <2>1 DEF Live, Inside, Types
  <2> QED
    BY <2>1, <2>2, LocksOutside
<1>7. CASE JoinReturns(p) \/ Boot(p)
  <2>1. PICK loc \in {"run", "opend", "exit"} :
          pc[p] \in {"joined", "boot"} /\ pc' = [pc EXCEPT ![p] = loc] /\ TakeGil(p)
    BY <1>7 DEF JoinReturns, JoinEnds, Boot, At, Goto
  <2> QED
    BY <2>1, LocksTaken DEF Live, Inside
<1>8. CASE Finish(p)
  <2>1. pc' = [pc EXCEPT ![p] = "dead"] /\ Inside(p) /\ gil' = NULL
    BY <1>8 DEF Finish, At, Goto, GiveGil, Inside
  <2>2. ~Inside(p)' /\ \A q \in Strand : Inside(q)' => Inside(q)
    BY <2>1 DEF Inside, Types
  <2> QED
    BY <2>1, <2>2, LocksLeft
<1>9. ASSUME NEW t \in Thread, StartNew(p, t)
      PROVE  Locks'
  <2>1. PICK q \in Strand : Starts(p, t, q)
    BY <1>9, Started
  <2>2. ~Inside(p)' /\ \A r \in Strand : Inside(r)' => Inside(r)
    BY <2>1 DEF Starts, Inside, Types
  <2>3. Inside(p) /\ gil' = NULL
    BY <2>1 DEF Starts, Inside, GiveGil
  <2> QED
    BY <2>2, <2>3, LocksLeft
<1> QED
  BY <1>1, <1>2, <1>3, <1>4, <1>5, <1>6, <1>7, <1>8, <1>9, Kinds

-----------------------------------------------------------------------------
(* Strands, queued and active threads *)

(* A step in which p goes from one place where it runs to another. *)
Moves(p) == \E loc \in Locations : Goes(p, loc) /\ is_active' = is_active

LEMMA MovesKind ==
  ASSUME Types, NEW p \in Strand, GoesOn(p) \/ Spins(p) \/ Returns(p) \/ LetsGo(p) \/ JoinBegins(p) \/ PthreadJoined(p)
  PROVE  Moves(p)
<1>1. CASE PthreadJoined(p)
  BY <1>1 DEF PthreadJoined, At, Goto, objVars, Moves, Goes, Queues, Locations
<1>2. CASE GoesOn(p) \/ Spins(p) \/ Returns(p)
  BY <1>2 DEF GoesOn, Spins, Returns, Moves, Locations
<1>3. CASE LetsGo(p) \/ JoinBegins(p)
  BY <1>3 DEF LetsGo, JoinBegins, Moves, Locations
<1> QED
  BY <1>1, <1>2, <1>3

(* An idle thread has no strand that is to run. *)
LEMMA IdleIsSettled ==
  ASSUME Types, Queue, AliveIsActive, NEW t \in Thread \ {Main}, Idle(t), NEW r \in Strand, obj[r] = t
  PROVE  ~Live(r)
BY DEF Idle, Queue, AliveIsActive, Alive, Live

LEMMA StrandsStep ==
  ASSUME Types, Orderly(script), Strands, Queue, AliveIsActive, NEW p \in Strand, Step(p)
  PROVE  Strands'
<1>1. CASE Still
  BY <1>1 DEF Still, Strands, Live, objVars
<1>2. CASE Moves(p) \/ JoinReturns(p)
  <2>1. PICK loc : Goes(p, loc)
    BY <1>2 DEF Moves, JoinReturns, JoinEnds, At, Goto, Goes, Queues, Locations
  <2>2. \A r \in Strand : Live(r)' => Live(r)
    BY <2>1 DEF Goes, Live, Types
  <2>3. \A r \in Strand : pc[r] # "free" => pc'[r] # "free"
    BY <2>1 DEF Goes, Types
  <2>4. pc'[0] \notin {"free", "dead", "boot"}
    BY <2>1, ZeroIsStrand DEF Goes, Strands, Types
  <2>5. pth_' = pth_ /\ obj' = obj
    BY <2>1 DEF Goes
  <2>6. \A t \in Thread : pth_[t] # NULL => pth_[t] \in Strand
    BY DEF Types
  <2> QED
    BY <2>2, <2>3, <2>4, <2>5, <2>6 DEF Strands
<1>3. CASE Boot(p) \/ Finish(p)
  <2>1. PICK loc \in {"run", "dead"} : pc' = [pc EXCEPT ![p] = loc] /\ pc[p] \in {"boot", "run"} /\ p # 0
    BY <1>3 DEF Boot, Finish, At, Goto, Strands
  <2>2. \A r \in Strand : Live(r)' => Live(r)
    BY <2>1 DEF Live, Types
  <2>3. \A r \in Strand : pc[r] # "free" => pc'[r] # "free"
    BY <2>1 DEF Types
  <2>4. pc'[0] \notin {"free", "dead", "boot"}
    BY <2>1, ZeroIsStrand DEF Strands, Types
  <2>5. pth_' = pth_ /\ obj' = obj
    BY <1>3 DEF Boot, Finish
  <2>6. \A t \in Thread : pth_[t] # NULL => pth_[t] \in Strand
    BY DEF Types
  <2> QED
    BY <2>2, <2>3, <2>4, <2>5, <2>6 DEF Strands
<1>4. ASSUME NEW t \in Thread, StartNew(p, t)
      PROVE  Strands'
  <2>1. PICK q \in Strand : Starts(p, t, q)
    BY <1>4, Started
  <2>2. \A r \in Strand : Live(r)' => r = q \/ (r # q /\ Live(r) /\ obj[r] # t)
    <3>1. Idle(t) /\ t \in Thread \ {Main}
      BY <1>4, <2>1 DEF StartNew, Starts
    <3>2. \A r \in Strand : Live(r) => obj[r] # t
      BY <3>1, IdleIsSettled
    <3>3. \A r \in Strand : Live(r)' => r = q \/ Live(r)
      BY <2>1 DEF Starts, Live, Types
    <3> QED
      BY <3>2, <3>3
  <2>3. ASSUME NEW r \in Strand, Live(r)'
        PROVE  IF r = 0 THEN obj'[r] = Main ELSE obj'[r] # Main /\ pth_'[obj'[r]] = r
    <3>1. CASE r = q
      BY <2>1, <3>1 DEF Starts, Types
    <3>2. CASE r # q
      <4>1. Live(r) /\ obj[r] # t /\ obj'[r] = obj[r] /\ obj[r] \in Thread
        BY <2>1, <2>2, <2>3, <3>2 DEF Starts, Types
      <4>2. pth_'[obj[r]] = pth_[obj[r]]
        BY <2>1, <4>1 DEF Starts, Types
      <4> QED
        BY <4>1, <4>2 DEF Strands
    <3> QED
      BY <3>1, <3>2
  <2>4. ASSUME NEW u \in Thread, pth_'[u] # NULL
        PROVE  u # Main /\ obj'[pth_'[u]] = u /\ pc'[pth_'[u]] # "free"
    <3>1. CASE u = t
      BY <2>1, <3>1 DEF Starts, Types
    <3>2. CASE u # t
      <4>1. pth_'[u] = pth_[u] /\ pth_[u] \in Strand
        BY <2>1, <2>4, <3>2 DEF Starts, Types
      <4>2. u # Main /\ obj[pth_[u]] = u /\ pc[pth_[u]] # "free"
        BY <2>4, <4>1 DEF Strands
      <4> QED
        BY <2>1, <4>1, <4>2 DEF Starts, Types
    <3> QED
      BY <3>1, <3>2
  <2>5. pc'[0] \notin {"free", "dead", "boot"}
    BY <2>1, ZeroIsStrand DEF Starts, Strands, Types
  <2> QED
    BY <2>3, <2>4, <2>5 DEF Strands
<1> QED
  BY <1>1, <1>2, <1>3, <1>4, Kinds, MovesKind

LEMMA QueueStep ==
  ASSUME Types, Orderly(script), Strands, Queue, AliveIsActive, NEW p \in Strand, Step(p)
  PROVE  Queue'
<1>1. CASE Still
  BY <1>1 DEF Still, Queue, Live, objVars
<1>2. CASE Moves(p) \/ JoinReturns(p) \/ Finish(p)
  <2>1. PICK loc \in Locations \ {"boot"} :
          pc' = [pc EXCEPT ![p] = loc] /\ pc[p] \notin {"free", "boot", "dead"} /\ obj' = obj /\ Queues
    BY <1>2 DEF Moves, JoinReturns, JoinEnds, Finish, At, Goto, Goes, Queues, Locations
  <2>2. \A r \in Strand : (pc'[r] = "boot" <=> pc[r] = "boot") /\ (Live(r)' => Live(r))
    BY <2>1 DEF Live, Types
  <2>3. CASE UNCHANGED <<is_queue, failed>>
    BY <2>1, <2>2, <2>3 DEF Queue
  <2>4. ASSUME NEW t \in Thread \ {Main}, Idle(t), is_queue' = [is_queue EXCEPT ![t] = TRUE],
               failed' = failed \cup {t}
        PROVE  Queue'
    <3>1. \A u \in Thread : is_queue'[u] <=> u = t \/ is_queue[u]
      BY <2>4 DEF Types
    <3>2. \A r \in Strand : obj[r] = t => ~Live(r)
      BY <2>4, IdleIsSettled
    <3> QED
      BY <2>1, <2>2, <2>4, <3>1, <3>2 DEF Queue
  <2> QED
    BY <2>1, <2>3, <2>4 DEF Queues
<1>3. CASE Boot(p)
  <2>1. /\ pc' = [pc EXCEPT ![p] = "run"] /\ pc[p] = "boot" /\ obj' = obj /\ failed' = failed
        /\ is_queue' = [is_queue EXCEPT ![obj[p]] = FALSE]
    BY <1>3 DEF Boot, At, Goto
  <2>2. \A r \in Strand : (pc'[r] = "boot" <=> pc[r] = "boot" /\ r # p) /\ (Live(r)' => Live(r))
    BY <2>1 DEF Live, Types
  <2>3. \A r \in Strand : pc[r] = "boot" /\ r # p => obj[r] # obj[p]
    BY <2>1, OneLive DEF Live
  <2>4. \A t \in Thread : is_queue'[t] <=> t # obj[p] /\ is_queue[t]
    BY <2>1 DEF Types
  <2>5. obj[p] \notin failed
    BY <2>1 DEF Queue, Live
  <2> QED
    BY <2>1, <2>2, <2>3, <2>4, <2>5 DEF Queue
<1>4. ASSUME NEW t \in Thread, StartNew(p, t)
      PROVE  Queue'
  <2>1. PICK q \in Strand : Starts(p, t, q)
    BY <1>4, Started
  <2>2. obj'[q] = t /\ pc'[q] = "boot" /\ is_queue'[t]
    BY <2>1 DEF Starts, Types
  <2>3. \A r \in Strand \ {q} :
          obj'[r] = obj[r] /\ (pc'[r] = "boot" <=> pc[r] = "boot") /\ (Live(r)' => Live(r))
    BY <2>1 DEF Starts, Live, Types
  <2>4. pc[q] # "boot"
    BY <2>1 DEF Starts
  <2>5. \A u \in Thread \ {t} : is_queue'[u] <=> is_queue[u]
    BY <2>1 DEF Starts, Types
  <2>6. t \notin failed /\ failed' = failed
    BY <1>4 DEF StartNew, Idle, Queue
  <2> QED
    BY <2>2, <2>3, <2>4, <2>5, <2>6 DEF Queue
<1> QED
  BY <1>1, <1>2, <1>3, <1>4, Kinds, MovesKind

(* A thread whose strand could not be made stays so. *)
LEMMA FailedKept ==
  ASSUME Types, Orderly(script), NEW p \in Strand, Step(p)
  PROVE  failed \subseteq failed'
<1>1. CASE Still
  BY <1>1 DEF Still, objVars
<1>2. CASE Moves(p)
  BY <1>2 DEF Moves, Goes, Queues
<1>3. CASE JoinReturns(p) \/ Boot(p) \/ Finish(p)
  BY <1>3 DEF JoinReturns, Boot, Finish
<1>4. ASSUME NEW t \in Thread, StartNew(p, t)
      PROVE  failed' = failed
  BY <1>4 DEF StartNew
<1> QED
  BY <1>1, <1>2, <1>3, <1>4, Kinds, MovesKind

(* What a strand joins, and the strand its pthread_join waits for: the     *)
(* last one of the thread, until the join has returned.                    *)
Joiners ==
    /\ \A p \in Strand :
          /\ Joins(p) => pth_[target[p]] # NULL \/ target[p] \in failed
          /\ pc[p] \in {"waiting", "joined"} => pth_[target[p]] # NULL /\ waits[p] = pth_[target[p]]
          /\ pc[p] = "joined" => pc[waits[p]] = "dead"
          /\ Joins(p) /\ exiting # p => <<obj[p], target[p]>> \in script.joins
    /\ \A q \in joined : q \in Strand /\ pc[q] = "dead"

(* The thread whose join has waited has no strand left. *)
LEMMA JoinedIsSettled ==
  ASSUME Types, Strands, Targets, Joiners, NEW p \in Strand, pc[p] = "joined",
         NEW r \in Strand, obj[r] = target[p]
  PROVE  ~Live(r)
<1>1. target[p] \in Thread \ {Main}
  BY DEF Targets, Joins
<1>2. pc[pth_[target[p]]] = "dead"
  BY DEF Joiners
<1> QED
  BY <1>1, <1>2 DEF Strands, Live

LEMMA ActiveStep ==
  ASSUME Types, Orderly(script), Strands, Queue, Targets, Joiners, AliveIsActive, NEW p \in Strand, Step(p)
  PROVE  AliveIsActive'
<1>1. CASE Still
  BY <1>1 DEF Still, AliveIsActive, Alive, objVars
<1>2. CASE Moves(p)
  <2>1. \A r \in Strand : Alive(r)' <=> Alive(r)
    BY <1>2 DEF Moves, Goes, Alive, Types
  <2> QED
    BY <1>2, <2>1 DEF AliveIsActive, Moves, Goes
<1>3. CASE JoinReturns(p)
  <2>1. /\ pc[p] = "joined" /\ obj' = obj
        /\ is_active' = [is_active EXCEPT ![target[p]] = FALSE]
    BY <1>3 DEF JoinReturns, At
  <2>2. \A r \in Strand : Alive(r)' <=> Alive(r)
    BY <1>3 DEF JoinReturns, JoinEnds, At, Goto, Alive, Types
  <2>3. \A r \in Strand : obj[r] = target[p] => ~Alive(r)
    BY <2>1, JoinedIsSettled DEF Alive, Live
  <2>4. \A t \in Thread : is_active'[t] <=> t # target[p] /\ is_active[t]
    BY <2>1 DEF Types
  <2> QED
    BY <2>1, <2>2, <2>3, <2>4 DEF AliveIsActive
<1>4. CASE Boot(p)
  <2>1. /\ pc[p] = "boot" /\ pc' = [pc EXCEPT ![p] = "run"] /\ obj' = obj
        /\ is_active' = [is_active EXCEPT ![obj[p]] = TRUE]
    BY <1>4 DEF Boot, At, Goto
  <2>2. \A r \in Strand : Alive(r)' <=> Alive(r) \/ r = p
    BY <2>1 DEF Alive, Types
  <2>3. \A t \in Thread : is_active'[t] <=> t = obj[p] \/ is_active[t]
    BY <2>1 DEF Types
  <2> QED
    BY <2>1, <2>2, <2>3 DEF AliveIsActive
<1>5. CASE Finish(p)
  <2>1. /\ pc[p] = "run" /\ pc' = [pc EXCEPT ![p] = "dead"] /\ obj' = obj /\ p # 0
        /\ is_active' = [is_active EXCEPT ![obj[p]] = FALSE]
    BY <1>5 DEF Finish, At, Goto
  <2>2. \A r \in Strand : Alive(r)' <=> Alive(r) /\ r # p
    BY <2>1 DEF Alive, Types
  <2>3. \A t \in Thread : is_active'[t] <=> t # obj[p] /\ is_active[t]
    BY <2>1 DEF Types
  <2>4. \A r \in Strand : Alive(r) /\ obj[r] = obj[p] => r = p
    BY <2>1, OneLive DEF Alive, Live
  <2> QED
    BY <2>1, <2>2, <2>3, <2>4 DEF AliveIsActive
<1>6. ASSUME NEW t \in Thread, StartNew(p, t)
      PROVE  AliveIsActive'
  <2>1. PICK q \in Strand : Starts(p, t, q)
    BY <1>6, Started
  <2>2. \A r \in Strand : (Alive(r)' <=> Alive(r)) /\ (Alive(r) => obj'[r] = obj[r])
    BY <2>1 DEF Starts, Alive, Types
  <2>3. is_active' = is_active
    BY <2>1 DEF Starts
  <2> QED
    BY <2>2, <2>3 DEF AliveIsActive
<1> QED
  BY <1>1, <1>2, <1>3, <1>4, <1>5, <1>6, Kinds, MovesKind

LEMMA TargetsStep ==
  ASSUME Types, Orderly(script), Strands, Targets, NEW p \in Strand, Step(p)
  PROVE  Targets'
<1> DEFINE Aims(r) == Joins(r) \/ pc[r] \in {"spin", "hung"}
       Yields == pc' = [pc EXCEPT ![p] = "yield"] /\ target' = target
<1>1. CASE Still
  BY <1>1 DEF Still, Targets, Joins
<1>2. CASE GoesOn(p) \/ Spins(p) \/ Returns(p) \/ JoinBegins(p) \/ JoinReturns(p) \/ PthreadJoined(p)
           \/ Boot(p) \/ Finish(p) \/ Yields
  <2>1. \A r \in Strand \ {p} : Aims(r)' => Aims(r)
    BY <1>2 DEF GoesOn, Spins, Returns, JoinBegins, LetsGo, Goes, JoinReturns, JoinEnds, PthreadJoined, Boot, Finish, At, Goto, Joins, Types
  <2>2. Aims(p)' => Aims(p)
    <3>1. CASE Spins(p)
      BY <3>1 DEF Spins
    <3>2. CASE JoinBegins(p) \/ PthreadJoined(p)
      BY <3>2 DEF JoinBegins, PthreadJoined, At, Joins
    <3>3. CASE Returns(p) \/ JoinReturns(p) \/ GoesOn(p)
      BY <3>3 DEF Returns, JoinReturns, JoinEnds, GoesOn, Goes, Goto, Joins, Types
    <3>4. CASE Boot(p) \/ Finish(p)
      BY <3>4 DEF Boot, Finish, Goto, Joins, Types
    <3>5. CASE Yields
      BY <3>5 DEF Joins, Types
    <3> QED
      BY <1>2, <3>1, <3>2, <3>3, <3>4, <3>5
  <2>3. target' = target
    BY <1>2 DEF GoesOn, Spins, Returns, JoinBegins, JoinReturns, PthreadJoined, Boot, Finish
  <2> QED
    BY <2>1, <2>2, <2>3 DEF Targets
<1>3. ASSUME NEW t \in Thread \ {Main}, target' = [target EXCEPT ![p] = t],
             \A r \in Strand \ {p} : Aims(r)' => Aims(r)
      PROVE  Targets'
  BY <1>3 DEF Targets, Types
<1>4. CASE LetsGo(p) /\ ~Yields
  <2>1. PICK t \in Thread \ {Main} : target' = [target EXCEPT ![p] = t] /\ Goes(p, "joining")
    BY <1>4 DEF LetsGo, Goes
  <2>2. \A r \in Strand \ {p} : Aims(r)' => Aims(r)
    BY <2>1 DEF Goes, Joins, Types
  <2> QED
    BY <1>3, <2>1, <2>2
<1>5. ASSUME NEW t \in Thread, StartNew(p, t)
      PROVE  Targets'
  <2>1. PICK q \in Strand : Starts(p, t, q)
    BY <1>5, Started
  <2>2. \A r \in Strand \ {p} : Aims(r)' => Aims(r)
    BY <2>1 DEF Starts, Joins, Types
  <2>3. t \in Thread \ {Main} /\ target' = [target EXCEPT ![p] = t]
    BY <2>1 DEF Starts
  <2> QED
    BY <1>3, <2>2, <2>3
<1> QED
  BY <1>1, <1>2, <1>4, <1>5, Kinds

-----------------------------------------------------------------------------
(* Who joins *)

(* Only main() calls exit(). *)
Handler ==
    /\ exiting \in {NULL, 0}
    /\ \A p \in Strand : pc[p] = "exit" => exiting = p

LEMMA ExitingStep ==
  ASSUME NEW p \in Strand, Step(p)
  PROVE  exiting' = exiting \/ Exit(p)
<1>1. GilStep(p) => exiting' = exiting
  BY DEF GilStep, Resume, Boot, StartReturns, JoinReturns, JoinFails, exitVars
<1>2. (\E t \in Thread : StartAgain(p, t) \/ StartNew(p, t) \/ StartFails(p, t) \/ StartAborts(p, t)
                         \/ JoinIdle(p, t) \/ JoinCall(p, t)) => exiting' = exiting
  BY DEF StartAgain, StartNew, StartFails, StartAborts, JoinIdle, JoinCall, exitVars
<1>3. OwnStep(p) \/ Hangs(p) => exiting' = exiting \/ Exit(p)
  BY <1>2 DEF OwnStep, Hangs, Bytecode, LetGo, Finish, Spin, SpinForever, PthreadJoin, PthreadJoined, ExitJoins,
              ExitAgain, ExitSkips, Halt, vars, exitVars
<1> QED
  BY <1>1, <1>3 DEF Step

LEMMA HandlerStep ==
  ASSUME Types, Orderly(script), Handler, NEW p \in Strand, Step(p)
  PROVE  /\ Handler'
         /\ exiting' = exiting \/ (exiting = NULL /\ exiting' = 0 /\ p = 0 /\ pc' = [pc EXCEPT ![p] = "exit"])
<1>1. CASE Exit(p)
  <2>1. p = 0 /\ exiting = NULL /\ exiting' = p /\ pc' = [pc EXCEPT ![p] = "exit"]
    BY <1>1 DEF Exit, CallsExit, Orderly, Goto
  <2>2. \A r \in Strand : pc'[r] = "exit" => r = p
    BY <2>1, ZeroIsStrand DEF Handler, Types
  <2> QED
    BY <2>1, <2>2 DEF Handler
<1>2. ASSUME exiting' = exiting, NEW loc, pc' = [pc EXCEPT ![p] = loc], loc # "exit"
      PROVE  Handler'
  <2>1. \A r \in Strand : pc'[r] = "exit" => pc[r] = "exit"
    BY <1>2 DEF Types
  <2> QED
    BY <1>2, <2>1 DEF Handler
<1>3. CASE Bytecode(p) \/ \E t \in Thread : StartAgain(p, t) \/ JoinIdle(p, t)
  <2>1. exiting' = exiting /\ pc' = [pc EXCEPT ![p] = "opend"]
    BY <1>3 DEF Bytecode, StartAgain, JoinIdle, Goto, exitVars
  <2> QED
    BY <1>2, <2>1
<1>4. CASE LetGo(p) \/ Resume(p) \/ Boot(p) \/ Finish(p)
  <2>1. exiting' = exiting /\ \E loc \in {"yield", "run", "dead"} : pc' = [pc EXCEPT ![p] = loc]
    BY <1>4 DEF LetGo, Resume, Boot, Finish, Goto, exitVars
  <2> QED
    BY <1>2, <2>1
<1>5. CASE Spin(p) \/ SpinForever(p) \/ StartReturns(p)
  <2>1. exiting' = exiting /\ \E loc \in {"spun", "hung", "opend"} : pc' = [pc EXCEPT ![p] = loc]
    BY <1>5 DEF Spin, SpinForever, StartReturns, Goto, exitVars
  <2> QED
    BY <1>2, <2>1
<1>6. CASE PthreadJoin(p) \/ PthreadJoined(p) \/ ExitJoins(p) \/ \E t \in Thread : JoinCall(p, t)
  <2>1. exiting' = exiting /\ \E loc \in {"joining", "waiting", "unjoined", "joined"} : pc' = [pc EXCEPT ![p] = loc]
    BY <1>6 DEF PthreadJoin, PthreadJoined, ExitJoins, JoinCall, BeginJoin, Goto, exitVars
  <2> QED
    BY <1>2, <2>1
<1>7. CASE JoinReturns(p) \/ JoinFails(p)
  <2>1. exiting' = exiting /\ pc' = [pc EXCEPT ![p] = IF exiting = p THEN "exit" ELSE "opend"]
    BY <1>7 DEF JoinReturns, JoinFails, JoinEnds, Goto
  <2>2. CASE exiting = p
    <3>1. \A r \in Strand : pc'[r] = "exit" => r = p \/ pc[r] = "exit"
      BY <2>1 DEF Types
    <3> QED
      BY <2>1, <2>2, <3>1 DEF Handler
  <2>3. CASE exiting # p
    <3>1. pc' = [pc EXCEPT ![p] = "opend"]
      BY <2>1, <2>3
    <3> QED
      BY <1>2, <2>1, <3>1
  <2> QED
    BY <2>1, <2>2, <2>3
<1>8. CASE ExitAgain(p) \/ ExitSkips(p) \/ Halt(p) \/ Hangs(p) \/ \E t \in Thread : StartAborts(p, t)
  <2>1. exiting' = exiting /\ pc' = pc
    BY <1>8 DEF ExitAgain, ExitSkips, Halt, Hangs, StartAborts, vars, exitVars
  <2> QED
    BY <2>1 DEF Handler
<1>9. ASSUME NEW t \in Thread, StartNew(p, t)
      PROVE  Handler' /\ exiting' = exiting
  <2>1. PICK q \in Strand : pc' = [pc EXCEPT ![p] = "spin", ![q] = "boot"]
    BY <1>9 DEF StartNew
  <2>2. exiting' = exiting
    BY <1>9 DEF StartNew, exitVars
  <2>3. \A r \in Strand : pc'[r] = "exit" => pc[r] = "exit"
    BY <2>1 DEF Types
  <2> QED
    BY <2>2, <2>3 DEF Handler
<1>10. ASSUME NEW t \in Thread, StartFails(p, t)
       PROVE  Handler'
  <2>1. exiting' = exiting /\ pc' = [pc EXCEPT ![p] = "opend"]
    BY <1>10 DEF StartFails, Goto, exitVars
  <2> QED
    BY <1>2, <2>1
<1>11. exiting' = exiting \/ Exit(p)
  BY ExitingStep
<1> QED
  BY <1>1, <1>3, <1>4, <1>5, <1>6, <1>7, <1>8, <1>9, <1>10, <1>11 DEF Step, GilStep, OwnStep, Exit, CallsExit, Orderly, Goto

(* A thread that is not idle has a strand, or could not be given one. *)
LEMMA BusyHasStrand ==
  ASSUME Types, Strands, Queue, AliveIsActive, NEW t \in Thread \ {Main}, ~Idle(t)
  PROVE  pth_[t] # NULL \/ t \in failed
<1>1. t \in failed \/ \E r \in Strand : obj[r] = t /\ Live(r)
  BY DEF Idle, Queue, AliveIsActive, Alive, Live
<1> QED
  BY <1>1, ZeroIsStrand DEF Strands

(* A thread that may be started once and has a strand is not started.      *)
LEMMA StartedOnce ==
  ASSUME Types, Strands, script.times <= 1, NEW p \in Strand, NEW t \in Thread,
         NEW q \in Strand, Starts(p, t, q)
  PROVE  pth_[t] = NULL
<1> SUFFICES ASSUME pth_[t] # NULL PROVE FALSE
  OBVIOUS
<1> DEFINE made == {u \in Strand : pc[u] # "free" /\ obj[u] = t}
<1>1. pth_[t] \in made
  BY DEF Types, Strands
<1>2. IsFiniteSet(Strand)
  BY FS_Interval, BoundsAssumption DEF Strand
<1>3. IsFiniteSet(made) /\ made # {}
  BY <1>1, <1>2, FS_Subset
<1>4. Cardinality(made) \in Nat /\ Cardinality(made) # 0
  BY <1>3, FS_CardinalityType, FS_EmptySet
<1>5. script.times \in Nat
  BY ScriptType
<1>6. ~(Cardinality(made) >= script.times)
  BY DEF Starts, StartedTooOften
<1> QED
  BY <1>4, <1>5, <1>6

(* When only main() starts threads, it is main() that starts one. *)
LEMMA MainStarts ==
  ASSUME Types, Strands, OnlyMain(script), NEW p \in Strand, NEW t \in Thread,
         NEW q \in Strand, Starts(p, t, q)
  PROVE  p = 0
<1>1. obj[p] = Main /\ Live(p)
  BY DEF OnlyMain, Starts, Live
<1> QED
  BY <1>1 DEF Strands

(* A thread that is being joined is not started. *)
LEMMA NotRestarted ==
  ASSUME Types, Orderly(script), Strands, Queue, Joiners, Handler, NEW p \in Strand, NEW t \in Thread,
         NEW q \in Strand, Starts(p, t, q), Idle(t), NEW r \in Strand, Joins(r)
  PROVE  target[r] # t
<1> SUFFICES ASSUME target[r] = t PROVE FALSE
  OBVIOUS
<1>1. pth_[t] # NULL
  BY DEF Joiners, Idle, Queue
<1>2. CASE script.times <= 1
  BY <1>1, <1>2, StartedOnce
<1>3. CASE OnlyMain(script)
  <2>1. p = 0
    BY <1>3, MainStarts
  <2>2. exiting # r => obj[r] = Main
    BY <1>3 DEF Joiners, OnlyMain
  <2>3. r = 0
    BY <2>2, ZeroIsStrand DEF Strands, Handler, Joins, Live
  <2> QED
    BY <2>1, <2>3 DEF Starts, Joins
<1> QED
  BY <1>2, <1>3 DEF Orderly

(* What Joiners says of one strand. *)
Joiner(p) ==
    /\ Joins(p) => pth_[target[p]] # NULL \/ target[p] \in failed
    /\ pc[p] \in {"waiting", "joined"} => pth_[target[p]] # NULL /\ waits[p] = pth_[target[p]]
    /\ pc[p] = "joined" => pc[waits[p]] = "dead"
    /\ Joins(p) /\ exiting # p => <<obj[p], target[p]>> \in script.joins

Ended == \A q \in joined : q \in Strand /\ pc[q] = "dead"

(* A strand that does not move goes on joining as before. *)
LEMMA JoinersKept ==
  ASSUME Types, Joiners, Handler, NEW r \in Strand,
         pc'[r] = pc[r], \A q \in Strand : pc[q] = "dead" => pc'[q] = "dead",
         Joins(r) => target'[r] = target[r] /\ waits'[r] = waits[r] /\ obj'[r] = obj[r] /\ pth_'[target[r]] = pth_[target[r]],
         script' = script, exiting' = exiting \/ exiting = NULL, failed \subseteq failed',
         Targets
  PROVE  Joiner(r)'
<1>1. CASE Joins(r)
  <2>2. Joiner(r) /\ target[r] \in Thread
    BY <1>1 DEF Joiners, Joiner, Targets
  <2>3. Joins(r)'
    BY <1>1 DEF Joins
  <2>4. /\ pth_'[target'[r]] # NULL \/ target'[r] \in failed'
        /\ pc'[r] \in {"waiting", "joined"} => pth_'[target'[r]] # NULL /\ waits'[r] = pth_'[target'[r]]
    BY <1>1, <2>2 DEF Joiner
  <2>5. pc'[r] = "joined" => pc'[waits'[r]] = "dead"
    <3>1. pc[r] = "joined" => pth_[target[r]] \in Strand
      BY <1>1, <2>2 DEF Joiner, Types
    <3>2. pc[r] = "joined" => waits[r] \in Strand /\ pc[waits[r]] = "dead"
      BY <2>2, <3>1 DEF Joiner
    <3> QED
      BY <1>1, <3>2
  <2>6. exiting' # r => <<obj'[r], target'[r]>> \in script'.joins
    BY <1>1, <2>2, ZeroIsStrand DEF Joiner
  <2> QED
    BY <2>4, <2>5, <2>6 DEF Joiner
<1>2. CASE ~Joins(r)
  BY <1>2 DEF Joiner, Joins
<1> QED
  BY <1>1, <1>2

LEMMA JoinersStep ==
  ASSUME Types, Orderly(script), Strands, Queue, AliveIsActive, Targets, Handler, Joiners, NEW p \in Strand, Step(p)
  PROVE  Joiners'
<1>0. (exiting' = exiting \/ exiting = NULL) /\ failed \subseteq failed'
  BY HandlerStep, FailedKept
<1> SUFFICES (\A r \in Strand : Joiner(r)') /\ Ended'
  BY DEF Joiners, Joiner, Ended
<1>1. CASE Still
  <2>1. \A r \in Strand : Joiner(r)'
    BY <1>0, <1>1, JoinersKept DEF Still, objVars
  <2>2. Ended'
    BY <1>1 DEF Still, Ended, Joiners
  <2> QED
    BY <2>1, <2>2
<1>2. ASSUME NEW loc, pc' = [pc EXCEPT ![p] = loc], pc[p] # "dead", UNCHANGED <<script, obj, pth_>>,
             \A r \in Strand \ {p} : target'[r] = target[r] /\ waits'[r] = waits[r]
      PROVE  (\A r \in Strand \ {p} : Joiner(r)') /\ (joined' = joined => Ended')
  <2>1. \A q \in Strand : (pc[q] = "dead" => pc'[q] = "dead") /\ (q # p => pc'[q] = pc[q])
    BY <1>2 DEF Types
  <2>2. \A r \in Strand \ {p} : Joiner(r)'
    BY <1>0, <1>2, <2>1, JoinersKept
  <2>3. joined' = joined => Ended'
    BY <2>1 DEF Ended, Joiners
  <2> QED
    BY <2>2, <2>3
<1>3. CASE GoesOn(p) \/ Spins(p) \/ Returns(p)
  <2>1. PICK loc \in {"run", "opend", "exit", "spun", "hung"} :
          Goes(p, loc) /\ UNCHANGED <<target, waits, joined>>
    BY <1>3 DEF GoesOn, Spins, Returns
  <2>2. Joiner(p)'
    BY <2>1 DEF Goes, Joiner, Joins, Types
  <2> QED
    BY <1>2, <2>1, <2>2 DEF Goes
<1>4. CASE Boot(p) \/ Finish(p) \/ JoinReturns(p)
  <2>1. PICK loc \in {"run", "opend", "exit", "dead"} :
          /\ pc' = [pc EXCEPT ![p] = loc] /\ pc[p] \in {"boot", "run", "joined"}
          /\ UNCHANGED <<script, obj, pth_, target, waits, joined>>
    BY <1>4 DEF Boot, Finish, JoinReturns, JoinEnds, At, Goto
  <2>2. Joiner(p)'
    BY <2>1 DEF Joiner, Joins, Types
  <2> QED
    BY <1>2, <2>1, <2>2
<1>5. CASE Goes(p, "yield") /\ UNCHANGED <<target, waits, joined>>
  <2>1. Joiner(p)'
    BY <1>5 DEF Goes, Joiner, Joins, Types
  <2> QED
    BY <1>2, <1>5, <2>1 DEF Goes
<1>6. ASSUME NEW t \in Thread, Goes(p, "joining"), t # Main, ~Idle(t), exiting' = exiting,
             pc[p] = "exit" \/ <<obj[p], t>> \in script.joins,
             target' = [target EXCEPT ![p] = t], UNCHANGED <<waits, joined>>
      PROVE  (\A r \in Strand : Joiner(r)') /\ Ended'
  <2>1. pth_[t] # NULL \/ t \in failed'
    BY <1>0, <1>6, BusyHasStrand
  <2>2. pc'[p] = "joining" /\ target'[p] = t /\ pth_' = pth_ /\ obj' = obj /\ script' = script
    BY <1>6 DEF Goes, Types
  <2>3. exiting' # p => <<obj[p], t>> \in script.joins
    BY <1>6 DEF Handler
  <2>4. Joiner(p)'
    BY <2>1, <2>2, <2>3 DEF Joiner
  <2>5. \A r \in Strand \ {p} : target'[r] = target[r]
    BY <1>6 DEF Types
  <2> QED
    BY <1>2, <1>6, <2>4, <2>5 DEF Goes
<1>7. CASE JoinBegins(p)
  <2>1. PICK loc \in {"unjoined", "waiting"} :
          /\ Goes(p, loc) /\ pc[p] = "joining" /\ target' = target /\ joined' = joined
          /\ loc = "waiting" => pth_[target[p]] # NULL /\ waits' = [waits EXCEPT ![p] = pth_[target[p]]]
          /\ loc = "unjoined" => waits' = waits
    BY <1>7 DEF JoinBegins, Refused
  <2>2. pc'[p] = loc /\ pth_' = pth_ /\ obj' = obj /\ script' = script
    BY <2>1 DEF Goes, Types
  <2>3. \A r \in Strand \ {p} : waits'[r] = waits[r]
    BY <2>1 DEF Types
  <2>4. loc = "waiting" => waits'[p] = pth_[target[p]]
    BY <2>1 DEF Types
  <2>5. (pth_[target[p]] # NULL \/ target[p] \in failed) /\ (exiting # p => <<obj[p], target[p]>> \in script.joins)
    BY <2>1 DEF Joiners, Joins
  <2>6. Joiner(p)'
    BY <1>0, <2>1, <2>2, <2>4, <2>5, ZeroIsStrand DEF Joiner
  <2> QED
    BY <1>2, <2>1, <2>3, <2>6 DEF Goes
<1>8. CASE PthreadJoined(p)
  <2>1. /\ pc[p] = "waiting" /\ pc' = [pc EXCEPT ![p] = "joined"] /\ pc[waits[p]] = "dead"
        /\ joined' = joined \cup {waits[p]} /\ UNCHANGED <<script, obj, pth_, target, waits, exiting>>
    BY <1>8 DEF PthreadJoined, At, Goto, objVars, exitVars
  <2>2. waits[p] = pth_[target[p]] /\ pth_[target[p]] # NULL /\ target[p] \in Thread
        /\ (exiting # p => <<obj[p], target[p]>> \in script.joins)
    BY <2>1 DEF Joiners, Joins, Targets
  <2>3. waits[p] \in Strand /\ waits[p] # p
    BY <2>1, <2>2 DEF Types
  <2>4. pc'[p] = "joined" /\ pc'[waits[p]] = "dead"
    BY <2>1, <2>3 DEF Types
  <2>5. Joiner(p)'
    BY <2>1, <2>2, <2>4 DEF Joiner
  <2>6. \A q \in Strand : pc[q] = "dead" => pc'[q] = "dead"
    BY <2>1 DEF Types
  <2>7. Ended'
    BY <2>1, <2>3, <2>4, <2>6 DEF Joiners, Ended
  <2> QED
    BY <1>2, <2>1, <2>5, <2>7
<1>9. ASSUME NEW t \in Thread, StartNew(p, t)
      PROVE  (\A r \in Strand : Joiner(r)') /\ Ended'
  <2>1. PICK q \in Strand : Starts(p, t, q)
    BY <1>9, Started
  <2>2. \A r \in Strand \ {p, q} : pc'[r] = pc[r] /\ target'[r] = target[r] /\ obj'[r] = obj[r]
    BY <2>1 DEF Starts, Types
  <2>3. pc'[p] = "spin" /\ pc'[q] = "boot"
    BY <2>1 DEF Starts, Types
  <2>4. \A r \in Strand : pc[r] = "dead" => pc'[r] = "dead"
    BY <2>1 DEF Starts, Types
  <2>5. ASSUME NEW r \in Strand, Joins(r)
        PROVE  pth_'[target[r]] = pth_[target[r]]
    <3>1. target[r] # t /\ target[r] \in Thread
      BY <1>9, <2>1, <2>5, NotRestarted DEF Targets, StartNew
    <3> QED
      BY <2>1, <3>1 DEF Starts, Types
  <2>6. waits' = waits /\ joined' = joined /\ script' = script
    BY <2>1 DEF Starts
  <2>7. \A r \in Strand \ {p, q} : Joiner(r)'
    BY <1>0, <2>2, <2>4, <2>5, <2>6, JoinersKept
  <2>8. Joiner(p)' /\ Joiner(q)'
    BY <2>3 DEF Joiner, Joins
  <2>9. Ended'
    BY <2>4, <2>6 DEF Ended, Joiners
  <2> QED
    BY <2>7, <2>8, <2>9
<1> QED
  BY <1>1, <1>3, <1>4, <1>5, <1>6, <1>7, <1>8, <1>9, Kinds DEF LetsGo

-----------------------------------------------------------------------------
(* The set of threads to be joined at the exit *)

Counts ==
    /\ ops \in [Strand -> 0 .. script.ops]
    /\ live \subseteq Range(ents)
    /\ buckets \in Nat
    /\ is_joining_active \in BOOLEAN
    /\ process \in {"runs", "ended", "aborted"}

LEMMA RangeAppend ==
  ASSUME NEW S, NEW s \in Seq(S), NEW t \in S
  PROVE  Range(Append(s, t)) = Range(s) \cup {t}
<1>1. /\ DOMAIN s = 1 .. Len(s) /\ DOMAIN Append(s, t) = 1 .. Len(s) + 1 /\ Len(s) \in Nat
      /\ Append(s, t)[Len(s) + 1] = t /\ \A k \in 1 .. Len(s) : Append(s, t)[k] = s[k]
  OBVIOUS
<1>2. \A k \in 1 .. Len(s) + 1 : k \in 1 .. Len(s) \/ k = Len(s) + 1
  BY <1>1
<1>3. 1 .. Len(s) \subseteq 1 .. Len(s) + 1 /\ Len(s) + 1 \in 1 .. Len(s) + 1
  BY <1>1
<1> HIDE <1>1
<1> QED
  BY <1>1, <1>2, <1>3 DEF Range

LEMMA Enlisted ==
  ASSUME Types, Counts, NEW t \in Thread \ {Main}, Enlist(t)
  PROVE  /\ ents' = ents \/ ents' = Append(ents, t)
         /\ Range(ents') = Range(ents) \cup {t}
         /\ live' \subseteq Range(ents')
         /\ buckets' \in Nat
<1> DEFINE found == IF Resizes THEN Range(ents) ELSE live
<1>1. ents \in Seq(Thread \ {Main}) /\ Len(ents) \in Nat
  BY DEF Types
<1>2. found \subseteq Range(ents)
  BY DEF Counts
<1>3. live' = found \cup {t} /\ ents' = IF t \in found THEN ents ELSE Append(ents, t)
  BY DEF Enlist
<1>4. Range(ents') = Range(ents) \cup {t}
  <2>1. CASE t \in found
    BY <1>2, <1>3, <2>1
  <2>2. CASE t \notin found
    BY <1>1, <1>3, <2>2, RangeAppend
  <2> QED
    BY <2>1, <2>2
<1>5. buckets' \in Nat
  <2>1. buckets' = buckets \/ buckets' = Grown(Len(ents), buckets)
    BY DEF Enlist
  <2>2. buckets \in Nat
    BY DEF Counts
  <2> QED
    BY <1>1, <2>1, <2>2, GrownType
<1> QED
  BY <1>2, <1>3, <1>4, <1>5

LEMMA CountsStep ==
  ASSUME Types, Orderly(script), Counts, NEW p \in Strand, Step(p)
  PROVE  Counts'
<1> DEFINE Left == ops' = ops \/ (ops[p] > 0 /\ ops' = [ops EXCEPT ![p] = @ - 1])
           Set == live' \subseteq Range(ents') /\ buckets' \in Nat
           Exit2 == is_joining_active' \in BOOLEAN /\ process' \in {"runs", "ended", "aborted"}
<1>0. script' = script /\ script.ops \in Nat
  BY ScriptAssumption DEF Types, Step, GilStep, OwnStep, Resume, Boot, StartReturns, JoinReturns, JoinFails, Bytecode, LetGo, Finish, Spin,
     SpinForever, PthreadJoin, PthreadJoined, Exit, ExitAgain, ExitSkips, ExitJoins, Halt, Hangs, StartAgain, StartNew,
     StartFails, StartAborts, JoinIdle, JoinCall, vars
<1>1. Left => ops' \in [Strand -> 0 .. script'.ops]
  <2>1. \A n \in 0 .. script.ops : n > 0 => n - 1 \in 0 .. script.ops
    BY <1>0
  <2> QED
    BY <1>0, <2>1 DEF Counts
<1>2. CASE GilStep(p)
  <2>1. Left /\ Exit2
    BY <1>2 DEF GilStep, Resume, Boot, StartReturns, JoinReturns, JoinFails, Counts, exitVars
  <2>2. Set
    BY <1>2 DEF GilStep, Resume, Boot, StartReturns, JoinReturns, JoinFails, Counts, setVars
  <2> QED
    BY <1>1, <2>1, <2>2 DEF Counts
<1>3. CASE Bytecode(p) \/ LetGo(p) \/ Finish(p) \/ Spin(p) \/ SpinForever(p) \/ PthreadJoin(p) \/ PthreadJoined(p) \/ Exit(p) \/ ExitJoins(p)
  <2>1. Left /\ Exit2
    BY <1>3 DEF Bytecode, Executes, LetGo, Finish, Spin, SpinForever, PthreadJoin, PthreadJoined, Exit, ExitJoins, Counts, exitVars
  <2>2. Set
    BY <1>3 DEF Bytecode, LetGo, Finish, Spin, SpinForever, PthreadJoin, PthreadJoined, Exit, ExitJoins, Counts, setVars
  <2> QED
    BY <1>1, <2>1, <2>2 DEF Counts
<1>4. CASE ExitAgain(p) \/ ExitSkips(p) \/ Halt(p) \/ Hangs(p)
  <2>1. Left /\ Exit2
    BY <1>4 DEF ExitAgain, ExitSkips, Halt, Hangs, Counts, vars, exitVars
  <2>2. Set
    BY <1>4 DEF ExitAgain, ExitSkips, Halt, Hangs, Counts, setVars, vars
  <2> QED
    BY <1>1, <2>1, <2>2 DEF Counts
<1>5. ASSUME NEW t \in Thread, StartAgain(p, t) \/ StartAborts(p, t) \/ JoinIdle(p, t) \/ JoinCall(p, t)
      PROVE  Counts'
  <2>1. Left /\ Exit2
    BY <1>5 DEF StartAgain, StartAborts, JoinIdle, JoinCall, MayStart, MayJoin, Executes, Counts, exitVars
  <2>2. Set
    BY <1>5 DEF StartAgain, StartAborts, JoinIdle, JoinCall, Counts, setVars
  <2> QED
    BY <1>1, <2>1, <2>2 DEF Counts
<1>6. ASSUME NEW t \in Thread, StartNew(p, t)
      PROVE  Counts'
  <2>1. Left /\ Exit2
    BY <1>6 DEF StartNew, MayStart, Executes, Counts, exitVars
  <2>2. t \in Thread \ {Main} /\ Enlist(t)
    BY <1>6, MayType DEF StartNew
  <2>3. Set
    BY <2>2, Enlisted
  <2> QED
    BY <1>1, <2>1, <2>3 DEF Counts
<1>7. ASSUME NEW t \in Thread, StartFails(p, t)
      PROVE  Counts'
  <2>1. Left /\ Exit2
    BY <1>7 DEF StartFails, MayStart, Executes, Counts, exitVars
  <2>2. t \in Thread \ {Main} /\ Enlist(t)
    BY <1>7, MayType DEF StartFails
  <2>3. Set
    BY <2>2, Enlisted
  <2> QED
    BY <1>1, <2>1, <2>3 DEF Counts
<1> QED
  BY <1>2, <1>3, <1>4, <1>5, <1>6, <1>7 DEF Step, OwnStep

-----------------------------------------------------------------------------
(* The inductive invariant *)

IInv ==
    /\ Types
    /\ Targets
    /\ Locks
    /\ Strands
    /\ Queue
    /\ AliveIsActive
    /\ Handler
    /\ Joiners
    /\ Counts

LEMMA InitInv ==
  ASSUME Init
  PROVE  IInv
<1>1. Types
  BY MainAssumption, ZeroIsStrand DEF Init, Types, Locations
<1>2. \A p \in Strand : pc[p] = IF p = 0 THEN "opend" ELSE "free"
  BY DEF Init
<1>3. Targets
  BY <1>2 DEF Targets, Joins
<1>4. Locks
  BY <1>2, ZeroIsStrand DEF Init, Locks, Fresh
<1>5. Strands
  BY <1>2, ZeroIsStrand DEF Init, Strands, Live
<1>6. Queue
  BY <1>2 DEF Init, Queue
<1>7. AliveIsActive
  <2>1. \A t \in Thread \ {Main} : \A p \in Strand : obj[p] # t
    BY DEF Init
  <2> QED
    BY <2>1 DEF Init, AliveIsActive
<1>8. Handler /\ Joiners
  BY <1>2 DEF Init, Handler, Joiners, Joins
<1>9. Counts
  <2>1. script.ops \in Nat
    BY ScriptAssumption DEF Init
  <2>2. script.ops \in 0 .. script.ops
    BY <2>1
  <2>3. ops \in [Strand -> 0 .. script.ops]
    BY <2>2 DEF Init
  <2>4. live \subseteq Range(ents) /\ buckets \in Nat
    BY DEF Init
  <2>5. is_joining_active \in BOOLEAN /\ process \in {"runs", "ended", "aborted"}
    BY DEF Init
  <2> QED
    BY <2>3, <2>4, <2>5 DEF Counts
<1> QED
  BY <1>1, <1>3, <1>4, <1>5, <1>6, <1>7, <1>8, <1>9 DEF IInv

LEMMA StepInv ==
  ASSUME OrderlyScripts, IInv, [Next]_vars
  PROVE  IInv'
<1>1. Orderly(script)
  BY DEF OrderlyScripts, IInv, Types
<1>2. ASSUME NEW p \in Strand, Step(p)
      PROVE  IInv'
  <2>1. Types' /\ Counts'
    BY <1>1, <1>2, TypesStep, CountsStep DEF IInv
  <2>2. Locks' /\ Strands' /\ Queue'
    BY <1>1, <1>2, LocksStep, StrandsStep, QueueStep DEF IInv
  <2>3. AliveIsActive' /\ Targets'
    BY <1>1, <1>2, ActiveStep, TargetsStep DEF IInv
  <2>4. Handler' /\ Joiners'
    BY <1>1, <1>2, HandlerStep, JoinersStep DEF IInv
  <2> QED
    BY <2>1, <2>2, <2>3, <2>4 DEF IInv
<1>3. CASE UNCHANGED vars
  <2>1. Types' /\ Targets' /\ Counts'
    BY <1>3 DEF IInv, vars, objVars, setVars, exitVars, Types, Targets, Joins, Counts
  <2>2. Locks' /\ Strands' /\ Queue'
    BY <1>3 DEF IInv, vars, objVars, setVars, exitVars, Locks, Inside, Fresh, Strands, Live, Queue
  <2>3. AliveIsActive' /\ Handler' /\ Joiners'
    BY <1>3 DEF IInv, vars, objVars, setVars, exitVars, AliveIsActive, Alive, Handler, Joiners, Joins
  <2> QED
    BY <2>1, <2>2, <2>3 DEF IInv
<1> QED
  BY <1>2, <1>3 DEF Next, Halted, Step

(* The invariant from which the rest follows: who is inside has the GIL,   *)
(* an object has at most one strand that lives, and the flags of an object *)
(* and the set of active threads agree with it.                            *)
THEOREM Invariant ==
  ASSUME OrderlyScripts
  PROVE  Spec => []IInv
<1>1. Init => IInv
  BY InitInv
<1>2. IInv /\ [Next]_vars => IInv'
  BY StepInv
<1> QED
  BY <1>1, <1>2, PTL DEF Spec

(* The GIL's promise (thread.c:247): no two strands execute bytecodes at   *)
(* the same time.                                                          *)
THEOREM Exclusion ==
  ASSUME OrderlyScripts
  PROVE  Spec => []OneExecutes
<1>1. IInv => OneExecutes
  <2> SUFFICES ASSUME IInv, NEW p \in Strand, NEW q \in Strand, {pc[p], pc[q]} \subseteq {"run", "opend", "exit"}
               PROVE  p = q
    BY DEF OneExecutes
  <2>1. Inside(p) /\ Inside(q)
    BY DEF Inside
  <2> QED
    BY <2>1 DEF IInv, Locks, Fresh, Inside
<1> QED
  BY <1>1, Invariant, PTL

(* isalive() is TRUE exactly while a strand of the thread lives.           *)
THEOREM Activity ==
  ASSUME OrderlyScripts
  PROVE  Spec => []AliveIsActive
<1>1. IInv => AliveIsActive
  BY DEF IInv
<1> QED
  BY <1>1, Invariant, PTL

(* is_queue tells that a strand was made that has not begun (thread.c:123, *)
(* 52), or that none could be made (thread.c:134); then none ever will be. *)
THEOREM Queueing ==
  ASSUME OrderlyScripts
  PROVE  Spec => []QueuedHasStrand
<1>1. IInv => QueuedHasStrand
  <2> SUFFICES ASSUME IInv PROVE QueuedHasStrand
    OBVIOUS
  <2>1. joined \subseteq Strand /\ exiting \in Strand \cup {NULL}
    BY ZeroIsStrand DEF IInv, Joiners, Handler
  <2>2. ents \in Seq(Thread)
    <3>1. ents \in Seq(Thread \ {Main}) /\ ents \in [1 .. Len(ents) -> Thread \ {Main}] /\ Len(ents) \in Nat
      BY DEF IInv, Types
    <3>2. ents \in [1 .. Len(ents) -> Thread]
      BY <3>1
    <3> QED
      BY <3>1, <3>2
  <2>3. TypeOK
    BY <2>1, <2>2 DEF IInv, Types, Counts, TypeOK
  <2> QED
    BY <2>3 DEF IInv, Queue, QueuedHasStrand, Live
<1> QED
  BY <1>1, Invariant, PTL

(* When a join is about to return to its caller, nothing of the thread     *)
(* that was joined executes (thread.c:161).                                *)
THEOREM Joining ==
  ASSUME OrderlyScripts
  PROVE  Spec => JoinWaits
<1>1. IInv /\ [Next]_vars => [Waited]_vars
  <2> SUFFICES ASSUME IInv, NEW p \in Strand, pc[p] = "joined", NEW q \in Strand, obj[q] = target[p]
               PROVE  pc[q] \in {"free", "dead"}
    BY DEF Waited
  <2> QED
    BY JoinedIsSettled DEF IInv, Live
<1> QED
  BY <1>1, Invariant, PTL DEF Spec, JoinWaits

-----------------------------------------------------------------------------
(* The exit handler *)

(* In any set of threads there are one or two that no other of the set may *)
(* join: no cycle of three or more threads joining each other.  Two that   *)
(* join each other are no harm, pthread_join refuses to the second.        *)
Untangled(s) ==
    \A S \in SUBSET (Thread \ {Main}) : S # {} =>
        \E t, u \in S : \A v \in S \ {t, u} : {<<v, t>>, <<v, u>>} \cap s.joins = {}

(* No strand waits for itself or for one that waits for it. *)
Apart ==
    \A p, q \in Strand :
        pc[p] = "waiting" /\ waits[p] = q => p # q /\ ~(pc[q] = "waiting" /\ waits[q] = p)

Finished(t) == \A p \in Strand : obj[p] = t => ~Live(p)

(* The exit handler need not wait for t: it has ended, or somebody else    *)
(* waits for it.                                                           *)
Settled(t) ==
    Finished(t) \/ \E r \in Strand \ {0} : pc[r] = "waiting" /\ waits[r] = pth_[t]

(* Every thread that runs is in active_threads. *)
Entered ==
    /\ \A t \in Range(ents) : pth_[t] # NULL \/ t \in failed
    /\ process = "runs" => \A p \in Strand \ {0} : Live(p) => obj[p] \in Range(ents)

(* The exit handler, run by main(), has seen to the threads before next. *)
Left ==
    exiting = 0 /\ process = "runs" =>
        /\ pc[0] = "exit" \/ Joins(0)
        /\ next <= Len(ents) + 1
        /\ Joins(0) => next <= Len(ents) /\ target[0] = ents[next]
        /\ \A t \in Thread : \A k \in 1 .. Len(ents) : k < next /\ ents[k] = t => Settled(t)
        /\ \A t \in Thread : pc[0] = "unjoined" /\ target[0] = t => Settled(t)

LEMMA WaitingStep ==
  ASSUME Types, Orderly(script), Strands, NEW p \in Strand, Step(p), NEW r \in Strand, pc'[r] = "waiting"
  PROVE  \/ pc[r] = "waiting" /\ waits'[r] = waits[r]
         \/ /\ r = p /\ pc[p] = "joining" /\ ~Refused(p, pth_[target[p]])
            /\ waits'[p] = pth_[target[p]]
<1>1. CASE Still
  BY <1>1 DEF Still
<1>2. CASE GoesOn(p) \/ Spins(p) \/ Returns(p)
  BY <1>2 DEF GoesOn, Spins, Returns, Goes, Types
<1>3. CASE LetsGo(p)
  BY <1>3 DEF LetsGo, Goes, Types
<1>4. CASE JoinBegins(p)
  BY <1>4 DEF JoinBegins, Goes, Types
<1>5. CASE PthreadJoined(p) \/ JoinReturns(p) \/ Boot(p) \/ Finish(p)
  BY <1>5 DEF PthreadJoined, JoinReturns, JoinEnds, Boot, Finish, Goto, Types
<1>6. ASSUME NEW t \in Thread, StartNew(p, t)
      PROVE  pc[r] = "waiting" /\ waits'[r] = waits[r]
  <2>1. PICK q \in Strand : Starts(p, t, q)
    BY <1>6, Started
  <2> QED
    BY <2>1 DEF Starts, Types
<1> QED
  BY <1>1, <1>2, <1>3, <1>4, <1>5, <1>6, Kinds

LEMMA ApartStep ==
  ASSUME Types, Orderly(script), Strands, Apart, NEW p \in Strand, Step(p)
  PROVE  Apart'
<1> SUFFICES ASSUME NEW r \in Strand, NEW q \in Strand, pc'[r] = "waiting", waits'[r] = q
             PROVE  r # q /\ ~(pc'[q] = "waiting" /\ waits'[q] = r)
  BY DEF Apart
<1>1. CASE pc[r] = "waiting" /\ waits[r] = q
  <2>1. r # q /\ ~(pc[q] = "waiting" /\ waits[q] = r)
    BY <1>1 DEF Apart
  <2>2. ASSUME pc'[q] = "waiting", waits'[q] = r
        PROVE  FALSE
    <3>1. q = p /\ ~Refused(p, pth_[target[p]]) /\ pth_[target[p]] = r
      BY <2>1, <2>2, WaitingStep
    <3> QED
      BY <1>1, <3>1 DEF Refused
  <2> QED
    BY <2>1, <2>2
<1>2. CASE r = p /\ ~Refused(p, q) /\ pc[p] = "joining"
  <2>1. r # q /\ ~(pc[q] = "waiting" /\ waits[q] = r)
    BY <1>2 DEF Refused
  <2>2. pc'[q] = "waiting" => pc[q] = "waiting" /\ waits'[q] = waits[q]
    BY <1>2, <2>1, WaitingStep
  <2> QED
    BY <2>1, <2>2
<1> QED
  BY <1>1, <1>2, WaitingStep

(* Whose last strand is dead has finished. *)
LEMMA DeadIsFinished ==
  ASSUME Strands, NEW t \in Thread \ {Main}, pc[pth_[t]] = "dead"
  PROVE  Finished(t)
BY DEF Finished, Strands, Live

(* No strand becomes live, except the one that is started. *)
LEMMA LiveStep ==
  ASSUME Types, Orderly(script), Strands, NEW p \in Strand, Step(p)
  PROVE  \/ (\A r \in Strand : Live(r)' => Live(r)) /\ obj' = obj /\ pth_' = pth_
         \/ \E t \in Thread, q \in Strand : Starts(p, t, q) /\ StartNew(p, t)
<1>1. CASE Still
  BY <1>1 DEF Still, Live, objVars
<1>2. CASE Moves(p)
  BY <1>2 DEF Moves, Goes, Live, Types
<1>3. CASE JoinReturns(p) \/ Boot(p) \/ Finish(p)
  <2>1. obj' = obj /\ pth_' = pth_ /\ Live(p) /\ \E loc : pc' = [pc EXCEPT ![p] = loc]
    BY <1>3 DEF JoinReturns, JoinEnds, Boot, Finish, Goto, At, Live
  <2> QED
    BY <2>1 DEF Live, Types
<1>4. ASSUME NEW t \in Thread, StartNew(p, t)
      PROVE  \E q \in Strand : Starts(p, t, q)
  BY <1>4, Started
<1> QED
  BY <1>1, <1>2, <1>3, <1>4, Kinds, MovesKind

(* main() starts nothing from its exit handler. *)
LEMMA NotAgain ==
  ASSUME Types, Orderly(script), Strands, Handler, Left, exiting = 0, process = "runs",
         NEW p \in Strand, NEW u \in Thread, NEW q \in Strand, Starts(p, u, q)
  PROVE  pth_[u] = NULL /\ p # 0
<1>1. p # 0
  BY DEF Left, Starts, Joins
<1> QED
  BY <1>1, StartedOnce, MainStarts DEF Orderly

LEMMA SettledKept ==
  ASSUME Types, Orderly(script), Strands, Queue, AliveIsActive, Handler, Left, exiting = 0, process = "runs",
         NEW p \in Strand, Step(p), NEW t \in Thread \ {Main}, pth_[t] # NULL \/ t \in failed, Settled(t)
  PROVE  Settled(t)'
<1>1. (\A r \in Strand : Live(r)' /\ obj'[r] = t => Live(r) /\ obj[r] = t) /\ pth_'[t] = pth_[t]
  <2>1. CASE (\A r \in Strand : Live(r)' => Live(r)) /\ obj' = obj /\ pth_' = pth_
    BY <2>1
  <2>2. ASSUME NEW u \in Thread, NEW q \in Strand, Starts(p, u, q), StartNew(p, u)
        PROVE  (\A r \in Strand : Live(r)' /\ obj'[r] = t => Live(r) /\ obj[r] = t) /\ pth_'[t] = pth_[t]
    <3>1. u # t
      BY <2>2, NotAgain DEF StartNew, Idle, Queue
    <3> QED
      BY <2>2, <3>1 DEF Starts, Live, Types
  <2> QED
    BY <2>1, <2>2, LiveStep
<1>2. CASE Finished(t)
  BY <1>1, <1>2 DEF Finished, Settled
<1>3. ASSUME NEW r \in Strand \ {0}, pc[r] = "waiting", waits[r] = pth_[t]
      PROVE  Settled(t)'
  <2>1. CASE pc'[r] = "waiting"
    BY <1>1, <1>3, <2>1, WaitingStep DEF Settled
  <2>2. CASE PthreadJoined(p) /\ r = p
    <3>1. pc[pth_[t]] = "dead"
      BY <1>3, <2>2 DEF PthreadJoined
    <3> QED
      BY <1>1, <3>1, DeadIsFinished DEF Finished, Settled
  <2>3. pc'[r] = "waiting" \/ (PthreadJoined(p) /\ r = p)
    <3>1. CASE Still
      BY <1>3, <3>1 DEF Still
    <3>2. CASE GoesOn(p) \/ Spins(p) \/ Returns(p)
      BY <1>3, <3>2 DEF GoesOn, Spins, Returns, Goes, Types
    <3>3. CASE LetsGo(p) \/ JoinBegins(p)
      BY <1>3, <3>3 DEF LetsGo, JoinBegins, Goes, Types
    <3>4. CASE PthreadJoined(p) \/ JoinReturns(p) \/ Boot(p) \/ Finish(p)
      BY <1>3, <3>4 DEF PthreadJoined, JoinReturns, JoinEnds, Boot, Finish, Goto, At, Types
    <3>5. ASSUME NEW u \in Thread, StartNew(p, u)
          PROVE  pc'[r] = "waiting"
      <4>1. PICK q \in Strand : Starts(p, u, q)
        BY <3>5, Started
      <4> QED
        BY <1>3, <4>1 DEF Starts, Types
    <3> QED
      BY <3>1, <3>2, <3>3, <3>4, <3>5, Kinds
  <2> QED
    BY <2>1, <2>2, <2>3
<1> QED
  BY <1>2, <1>3 DEF Settled

LEMMA Runs ==
  ASSUME NEW p \in Strand, Step(p)
  PROVE  process = "runs"
<1>1. GilStep(p) \/ Hangs(p) => process = "runs"
  BY DEF GilStep, Resume, Boot, StartReturns, JoinReturns, JoinFails, Hangs, At
<1>2. (\E t \in Thread : StartAgain(p, t) \/ StartNew(p, t) \/ StartFails(p, t) \/ StartAborts(p, t)
                         \/ JoinIdle(p, t) \/ JoinCall(p, t)) => process = "runs"
  BY DEF StartAgain, StartNew, StartFails, StartAborts, JoinIdle, JoinCall, MayStart, MayJoin, Executes, At
<1>3. OwnStep(p) => process = "runs"
  BY <1>2 DEF OwnStep, Bytecode, Executes, LetGo, Finish, Spin, SpinForever, PthreadJoin, PthreadJoined, Exit, ExitJoins,
              ExitAgain, ExitSkips, Halt, CallsExit, At
<1> QED
  BY <1>1, <1>3 DEF Step

(* What changes active_threads. *)
LEMMA EntsStep ==
  ASSUME NEW p \in Strand, Step(p), ~Halt(p)
  PROVE  ents' = ents \/ \E t \in Thread : (StartNew(p, t) \/ StartFails(p, t)) /\ Enlist(t)
<1>1. GilStep(p) \/ Hangs(p) => ents' = ents
  BY DEF GilStep, Resume, Boot, StartReturns, JoinReturns, JoinFails, Hangs, vars, setVars
<1>2. ASSUME NEW t \in Thread, StartAgain(p, t) \/ StartAborts(p, t) \/ JoinIdle(p, t) \/ JoinCall(p, t)
      PROVE  ents' = ents
  BY <1>2 DEF StartAgain, StartAborts, JoinIdle, JoinCall, setVars
<1>3. ASSUME NEW t \in Thread, StartNew(p, t) \/ StartFails(p, t)
      PROVE  Enlist(t)
  BY <1>3 DEF StartNew, StartFails
<1>4. CASE OwnStep(p)
  BY <1>2, <1>3, <1>4 DEF OwnStep, Bytecode, LetGo, Finish, Spin, SpinForever, PthreadJoin, PthreadJoined, Exit, ExitJoins,
              ExitAgain, ExitSkips, setVars
<1> QED
  BY <1>1, <1>4 DEF Step

LEMMA EnteredStep ==
  ASSUME Types, Orderly(script), Counts, Strands, Queue, AliveIsActive, Entered, NEW p \in Strand, Step(p)
  PROVE  Entered'
<1>1. CASE Halt(p)
  BY <1>1 DEF Halt, Entered, Range
<1>2. CASE ents' = ents /\ (\A r \in Strand : Live(r)' => Live(r)) /\ obj' = obj /\ pth_' = pth_
  BY <1>2, Runs, FailedKept DEF Entered
<1>3. ASSUME NEW t \in Thread, NEW q \in Strand, Starts(p, t, q), StartNew(p, t)
      PROVE  Entered'
  <2>1. Range(ents') = Range(ents) \cup {t}
    BY <1>3, Enlisted DEF Starts, StartNew
  <2>2. pth_'[t] = q /\ \A u \in Thread \ {t} : pth_'[u] = pth_[u]
    BY <1>3 DEF Starts, Types
  <2>3. Range(ents) \subseteq Thread
    <3>1. ents \in [1 .. Len(ents) -> Thread \ {Main}]
      BY DEF Types
    <3> QED
      BY <3>1 DEF Range
  <2>4. \A u \in Range(ents') : pth_'[u] # NULL \/ u \in failed'
    BY <2>1, <2>2, <2>3, ZeroIsStrand, FailedKept DEF Entered
  <2>5. \A r \in Strand : r # q => obj'[r] = obj[r] /\ (Live(r)' => Live(r))
    BY <1>3 DEF Starts, Live, Types
  <2>6. obj'[q] = t
    BY <1>3 DEF Starts, Types
  <2>7. \A r \in Strand \ {0} : Live(r)' => obj'[r] \in Range(ents')
    BY <2>1, <2>5, <2>6, Runs DEF Entered
  <2> QED
    BY <2>4, <2>7 DEF Entered
<1>4. ASSUME NEW t \in Thread, StartFails(p, t)
      PROVE  Entered'
  <2>1. pc' = [pc EXCEPT ![p] = "opend"] /\ pc[p] = "run" /\ obj' = obj /\ pth_' = pth_
        /\ failed' = failed \cup {t} /\ process' = process /\ t \in Thread \ {Main} /\ Enlist(t)
    BY <1>4, MayType DEF StartFails, MayStart, Executes, At, Goto, exitVars
  <2>2. Range(ents') = Range(ents) \cup {t}
    BY <2>1, Enlisted
  <2>3. \A r \in Strand : Live(r)' => Live(r)
    BY <2>1 DEF Live, Types
  <2> QED
    BY <2>1, <2>2, <2>3 DEF Entered
<1>5. CASE ~Halt(p) /\ ~(\E t \in Thread : StartNew(p, t) \/ StartFails(p, t))
  <2>1. ents' = ents
    BY <1>5, EntsStep
  <2> QED
    BY <1>2, <1>5, <2>1, LiveStep
<1>6. CASE \E t \in Thread : StartNew(p, t)
  BY <1>3, <1>6, Started
<1> QED
  BY <1>1, <1>4, <1>5, <1>6

(* What the steps of another strand leave alone while main() is exiting. *)
LEMMA OthersStep ==
  ASSUME Types, Orderly(script), Strands, Counts, Handler, exiting = 0, NEW p \in Strand \ {0}, Step(p)
  PROVE  /\ pc'[0] = pc[0] /\ target'[0] = target[0] /\ next' = next
         /\ ents' = ents \/ \E t \in Thread \ {Main} : ents' = Append(ents, t)
<1>0. pc[p] # "exit" /\ exiting # p /\ exiting # NULL /\ 0 \in Strand
  BY ZeroIsStrand DEF Handler
<1>1. next' = next
  <2>1. GilStep(p) \/ Hangs(p) => next' = next
    BY <1>0 DEF GilStep, Resume, Boot, StartReturns, JoinReturns, JoinFails, JoinEnds, Hangs, vars, exitVars
  <2>2. (\E t \in Thread : StartAgain(p, t) \/ StartNew(p, t) \/ StartFails(p, t) \/ StartAborts(p, t)
                           \/ JoinIdle(p, t) \/ JoinCall(p, t)) => next' = next
    BY DEF StartAgain, StartNew, StartFails, StartAborts, JoinIdle, JoinCall, exitVars
  <2>3. OwnStep(p) => next' = next
    BY <1>0, <2>2 DEF OwnStep, Bytecode, LetGo, Finish, Spin, SpinForever, PthreadJoin, PthreadJoined, Exit, ExitJoins,
                ExitAgain, ExitSkips, Halt, At, exitVars
  <2> QED
    BY <2>1, <2>3 DEF Step
<1>2. ents' = ents \/ \E t \in Thread \ {Main} : ents' = Append(ents, t)
  <2>1. ~Halt(p)
    BY <1>0 DEF Halt, At
  <2>2. ASSUME NEW t \in Thread, StartNew(p, t) \/ StartFails(p, t)
        PROVE  ents' = ents \/ \E u \in Thread \ {Main} : ents' = Append(ents, u)
    <3>1. t \in Thread \ {Main} /\ Enlist(t)
      BY <2>2, MayType DEF StartNew, StartFails
    <3> QED
      BY <3>1, Enlisted
  <2> QED
    BY <2>1, <2>2, EntsStep
<1>3. pc'[0] = pc[0] /\ target'[0] = target[0]
  <2>1. CASE Still
    BY <2>1 DEF Still
  <2>2. CASE GoesOn(p) \/ Spins(p) \/ Returns(p)
    BY <1>0, <2>2 DEF GoesOn, Spins, Returns, Goes, Types
  <2>3. CASE LetsGo(p) \/ JoinBegins(p)
    BY <1>0, <2>3 DEF LetsGo, JoinBegins, Goes, Types
  <2>4. CASE PthreadJoined(p) \/ JoinReturns(p) \/ Boot(p) \/ Finish(p)
    BY <1>0, <2>4 DEF PthreadJoined, JoinReturns, JoinEnds, Boot, Finish, Goto, Types
  <2>5. ASSUME NEW t \in Thread, StartNew(p, t)
        PROVE  pc'[0] = pc[0] /\ target'[0] = target[0]
    <3>1. PICK q \in Strand : Starts(p, t, q)
      BY <2>5, Started
    <3> QED
      BY <1>0, <3>1 DEF Starts, Types
  <2> QED
    BY <2>1, <2>2, <2>3, <2>4, <2>5, Kinds
<1> QED
  BY <1>1, <1>2, <1>3

(* Where pthread_join refuses to main(), there is nothing to wait for. *)
LEMMA RefusedIsSettled ==
  ASSUME Types, Strands, Queue, Targets, Joiners, 0 \in Strand, pc[0] = "joining",
         Refused(0, pth_[target[0]]) \/ Undefined(0, pth_[target[0]]),
         NEW t \in Thread, target[0] = t
  PROVE  Settled(t)
<1>0. SUFFICES ASSUME t \notin failed PROVE Settled(t)
  BY DEF Queue, Settled, Finished
<1>1. t \in Thread \ {Main} /\ pth_[t] \in Strand /\ obj[pth_[t]] = t
  <2>1. Joins(0)
    BY DEF Joins
  <2>2. t # Main
    BY <2>1 DEF Targets
  <2>3. pth_[t] # NULL
    BY <1>0, <2>1 DEF Joiners
  <2>4. obj[pth_[t]] = t
    BY <2>3 DEF Strands
  <2>5. pth_[t] \in Strand
    BY <2>3 DEF Types
  <2> QED
    BY <2>2, <2>4, <2>5
<1>2. pth_[t] # 0 /\ pth_[t] # NULL
  <2>1. obj[0] = Main
    BY DEF Strands, Live
  <2> QED
    BY <1>1, <2>1, ZeroIsStrand
<1>3. CASE Refused(0, pth_[t])
  <2>1. pc[pth_[t]] = "waiting" /\ waits[pth_[t]] = 0
    BY <1>2, <1>3 DEF Refused
  <2>2. pth_[target[pth_[t]]] = 0 /\ target[pth_[t]] \in Thread \ {Main}
    BY <1>1, <2>1 DEF Joiners, Targets, Joins
  <2>3. obj[0] # Main
    BY <2>2, ZeroIsStrand DEF Strands
  <2> QED
    BY <2>3 DEF Strands, Live
<1>4. CASE pth_[t] \in joined
  <2>1. pc[pth_[t]] = "dead"
    BY <1>4 DEF Joiners
  <2> QED
    BY <1>1, <2>1, DeadIsFinished DEF Settled
<1>5. CASE \E r \in Strand \ {0} : pc[r] = "waiting" /\ waits[r] = pth_[t]
  BY <1>5 DEF Settled
<1> QED
  BY <1>3, <1>4, <1>5 DEF Undefined

LEMMA LeftStep ==
  ASSUME Types, Orderly(script), Strands, Queue, AliveIsActive, Targets, Handler, Joiners, Counts, Entered, Left,
         NEW p \in Strand, Step(p)
  PROVE  Left'
<1> SUFFICES ASSUME exiting' = 0, process' = "runs" PROVE Left'
  BY DEF Left
<1>0. process = "runs" /\ 0 \in Strand /\ ents \in Seq(Thread \ {Main}) /\ Len(ents) \in Nat /\ next \in Nat \ {0}
  BY Runs, ZeroIsStrand DEF Types
<1>1. CASE exiting # 0
  <2>1. Exit(p) /\ p = 0
    BY <1>1, ExitingStep DEF Exit, CallsExit, Orderly
  <2>2. pc'[0] = "exit" /\ next' = 1 /\ ents' = ents
    BY <1>0, <2>1 DEF Exit, Goto, Types, setVars
  <2>3. 1 <= Len(ents) + 1 /\ \A k \in 1 .. Len(ents) : ~(k < 1)
    BY <1>0
  <2> QED
    BY <2>2, <2>3 DEF Left, Joins
<1>2. CASE exiting = 0
  <2>1. \A t \in Thread \ {Main} : (pth_[t] # NULL \/ t \in failed) /\ Settled(t) => Settled(t)'
    BY <1>0, <1>2, SettledKept
  <2>2. \A k \in 1 .. Len(ents) : ents[k] \in Thread \ {Main} /\ (pth_[ents[k]] # NULL \/ ents[k] \in failed)
    <3>1. \A k \in 1 .. Len(ents) : k \in DOMAIN ents /\ ents[k] \in Thread \ {Main}
      BY <1>0
    <3> QED
      BY <3>1 DEF Entered, Range
  <2>3. ASSUME pc'[0] = "exit" \/ Joins(0)',
               next' <= Len(ents) + 1, next' \in Nat,
               Joins(0)' => next' <= Len(ents) /\ target'[0] = ents[next'],
               \A t \in Thread : \A k \in 1 .. Len(ents) : k < next' /\ ents[k] = t => Settled(t),
               \A t \in Thread : pc'[0] = "unjoined" /\ target'[0] = t =>
                   t # Main /\ (pth_[t] # NULL \/ t \in failed) /\ Settled(t),
               ents' = ents \/ \E t \in Thread \ {Main} : ents' = Append(ents, t)
        PROVE  Left'
    <3>1. /\ Len(ents') = Len(ents) \/ Len(ents') = Len(ents) + 1
          /\ \A k \in 1 .. Len(ents) : ents'[k] = ents[k]
      BY <1>0, <2>3
    <3>2. next' <= Len(ents') + 1 /\ (Joins(0)' => next' <= Len(ents'))
      BY <1>0, <2>3, <3>1
    <3>3. \A k \in 1 .. Len(ents') : k < next' => k \in 1 .. Len(ents)
      BY <1>0, <2>3, <3>1
    <3>4. \A t \in Thread : \A k \in 1 .. Len(ents') : k < next' /\ ents'[k] = t => Settled(t)'
      BY <2>1, <2>2, <2>3, <3>1, <3>3
    <3>5. \A t \in Thread : pc'[0] = "unjoined" /\ target'[0] = t => Settled(t)'
      BY <2>1, <2>3
    <3>6. Joins(0)' => target'[0] = ents'[next']
      <4>1. Joins(0)' => next' \in 1 .. Len(ents)
        <5>1. next' # 0
          BY TypesStep DEF Types
        <5> QED
          BY <1>0, <2>3, <5>1
      <4> QED
        BY <2>3, <3>1, <4>1
    <3> QED
      BY <2>3, <3>2, <3>4, <3>5, <3>6 DEF Left
  <2>4. /\ pc[0] = "exit" \/ Joins(0)
        /\ next <= Len(ents) + 1
        /\ Joins(0) => next <= Len(ents) /\ target[0] = ents[next]
        /\ \A t \in Thread : \A k \in 1 .. Len(ents) : k < next /\ ents[k] = t => Settled(t)
        /\ \A t \in Thread : pc[0] = "unjoined" /\ target[0] = t => Settled(t)
    BY <1>0, <1>2 DEF Left
  <2>5. \A t \in Thread : Joins(0) /\ target[0] = t => t # Main /\ (pth_[t] # NULL \/ t \in failed)
    BY <1>0 DEF Targets, Joiners
  <2>6. CASE p # 0
    <3>1. /\ pc'[0] = pc[0] /\ target'[0] = target[0] /\ next' = next
          /\ ents' = ents \/ \E t \in Thread \ {Main} : ents' = Append(ents, t)
      BY <1>2, <2>6, OthersStep
    <3>2. Joins(0)' <=> Joins(0)
      BY <3>1 DEF Joins
    <3> QED
      BY <1>0, <2>3, <2>4, <2>5, <3>1, <3>2 DEF Joins
  <2>7. CASE ExitSkips(0)
    <3>1. next' = next + 1 /\ next <= Len(ents) /\ ents' = ents /\ pc[0] = "exit" /\ pc' = pc /\ Idle(ents[next])
      BY <2>7 DEF ExitSkips, At, setVars
    <3>2. next \in 1 .. Len(ents) /\ \A k \in 1 .. Len(ents) : k < next' => k < next \/ k = next
      BY <1>0, <3>1
    <3>3. Settled(ents[next])
      BY <2>2, <3>1, <3>2, IdleIsSettled DEF Settled, Finished
    <3>4. \A t \in Thread : \A k \in 1 .. Len(ents) : k < next' /\ ents[k] = t => Settled(t)
      BY <2>4, <3>2, <3>3
    <3>5. next' <= Len(ents) + 1 /\ next' \in Nat
      BY <1>0, <3>1
    <3> QED
      BY <2>3, <3>1, <3>4, <3>5 DEF Joins
  <2>8. CASE ExitJoins(0)
    <3>1. /\ pc'[0] = "joining" /\ next' = next /\ next <= Len(ents) /\ ents' = ents
          /\ target'[0] = ents[next]
      BY <1>0, <2>8 DEF ExitJoins, BeginJoin, Goto, Types, setVars, exitVars
    <3> QED
      BY <1>0, <2>3, <2>4, <3>1 DEF Joins
  <2>9. CASE PthreadJoin(0)
    <3>1. /\ target' = target /\ next' = next /\ ents' = ents /\ pc[0] = "joining"
          /\ \/ pc'[0] = "waiting"
             \/ pc'[0] = "unjoined" /\ (Refused(0, pth_[target[0]]) \/ Undefined(0, pth_[target[0]]))
      BY <1>0, <2>9 DEF PthreadJoin, At, Goto, Types, setVars, exitVars
    <3>2. \A t \in Thread : pc'[0] = "unjoined" /\ target[0] = t => Settled(t)
      BY <1>0, <3>1, RefusedIsSettled
    <3>3. Joins(0)
      BY <3>1 DEF Joins
    <3> QED
      BY <1>0, <2>3, <2>4, <2>5, <3>1, <3>2, <3>3 DEF Joins
  <2>10. CASE PthreadJoined(0)
    <3>1. target' = target /\ next' = next /\ ents' = ents /\ pc[0] = "waiting" /\ pc'[0] = "joined"
      BY <1>0, <2>10 DEF PthreadJoined, At, Goto, Types, setVars, exitVars
    <3> QED
      BY <1>0, <2>3, <2>4, <3>1 DEF Joins
  <2>11. CASE JoinReturns(0) \/ JoinFails(0)
    <3>1. ents' = ents /\ pc[0] \in {"joined", "unjoined"} /\ pc'[0] = "exit" /\ next' = next + 1
      BY <1>0, <1>2, <2>11 DEF JoinReturns, JoinFails, JoinEnds, At, Goto, Types, setVars
    <3>2. Joins(0) /\ next \in 1 .. Len(ents) /\ \A k \in 1 .. Len(ents) : k < next' => k < next \/ k = next
      BY <1>0, <2>4, <3>1 DEF Joins
    <3>3. \A t \in Thread : target[0] = t => Settled(t)
      <4>1. CASE pc[0] = "joined"
        BY <1>0, <4>1, JoinedIsSettled DEF Settled, Finished
      <4> QED
        BY <2>4, <3>1, <4>1
    <3>4. \A t \in Thread : \A k \in 1 .. Len(ents) : k < next' /\ ents[k] = t => Settled(t)
      BY <2>4, <3>2, <3>3
    <3>5. next' <= Len(ents) + 1 /\ next' \in Nat
      BY <1>0, <2>4, <3>1, <3>2
    <3> QED
      BY <2>3, <3>1, <3>4, <3>5 DEF Joins
  <2>12. CASE p = 0
    <3>1. ~Halt(0) /\ ~ExitAgain(0)
      BY DEF Halt, ExitAgain
    <3>2. ~Exit(0)
      BY <1>2, ZeroIsStrand DEF Exit
    <3>3. ~Resume(0) /\ ~Boot(0) /\ ~StartReturns(0) /\ ~Bytecode(0) /\ ~LetGo(0) /\ ~Finish(0) /\ ~Spin(0) /\ ~SpinForever(0) /\ ~Hangs(0)
      BY <2>4 DEF Joins, Resume, Boot, StartReturns, Bytecode, Executes, LetGo, Finish, Spin, SpinForever, Hangs, At
    <3>4. \A t \in Thread : ~MayStart(0, t) /\ ~MayJoin(0, t)
      BY <2>4 DEF Joins, MayStart, MayJoin, Executes, At
    <3>5. \A t \in Thread : ~(StartAgain(0, t) \/ StartNew(0, t) \/ StartFails(0, t) \/ StartAborts(0, t)
                              \/ JoinIdle(0, t) \/ JoinCall(0, t))
      BY <3>4 DEF StartAgain, StartNew, StartFails, StartAborts, JoinIdle, JoinCall
    <3> QED
      BY <2>7, <2>8, <2>9, <2>10, <2>11, <2>12, <3>1, <3>2, <3>3, <3>5 DEF Step, GilStep, OwnStep
  <2> QED
    BY <2>6, <2>12
<1> QED
  BY <1>1, <1>2

(* Who runs when the handler has seen to every thread: nobody, or each of  *)
(* them is waited for by one who runs.                                     *)
LEMMA WaitedFor ==
  ASSUME Types, Strands, Targets, Handler, Joiners, Entered, Left, exiting = 0, process = "runs", ~(next <= Len(ents)),
         NEW a \in Strand \ {0}, Live(a)
  PROVE  \E w \in Strand \ {0} : /\ pc[w] = "waiting" /\ waits[w] = a
                                 /\ <<obj[w], obj[a]>> \in script.joins
<1>1. obj[a] \in Thread \ {Main} /\ pth_[obj[a]] = a
  BY DEF Strands, Types
<1>2. PICK k \in 1 .. Len(ents) : ents[k] = obj[a]
  <2>1. obj[a] \in Range(ents) /\ ents \in Seq(Thread \ {Main})
    BY DEF Entered, Types
  <2>2. \E k \in DOMAIN ents : ents[k] = obj[a]
    BY <2>1 DEF Range
  <2> QED
    BY <2>1, <2>2
<1>3. k < next
  <2>1. Len(ents) \in Nat /\ next \in Nat
    BY DEF Types
  <2> QED
    BY <2>1
<1>4. Settled(obj[a])
  BY <1>1, <1>2, <1>3 DEF Left
<1>5. PICK w \in Strand \ {0} : pc[w] = "waiting" /\ waits[w] = a
  BY <1>1, <1>4 DEF Settled, Finished
<1>6. target[w] \in Thread /\ pth_[target[w]] = a /\ <<obj[w], target[w]>> \in script.joins
  BY <1>5 DEF Targets, Joins, Joiners
<1>7. target[w] = obj[a]
  BY <1>6, ZeroIsStrand DEF Strands
<1> QED
  BY <1>5, <1>6, <1>7

LEMMA NobodyLeft ==
  ASSUME Types, Untangled(script), Strands, Targets, Handler, Joiners, Entered, Left, Apart,
         exiting = 0, process = "runs", ~(next <= Len(ents)),
         NEW r \in Strand \ {0}
  PROVE  ~Live(r)
<1> SUFFICES ASSUME Live(r) PROVE FALSE
  OBVIOUS
<1> DEFINE S == {obj[a] : a \in {b \in Strand \ {0} : Live(b)}}
<1>1. S \in SUBSET (Thread \ {Main}) /\ S # {}
  BY DEF Types, Strands
<1>2. PICK t \in S, u \in S : \A v \in S \ {t, u} : {<<v, t>>, <<v, u>>} \cap script.joins = {}
  BY <1>1 DEF Untangled
<1>3. PICK a \in Strand \ {0} : Live(a) /\ obj[a] = t
  OBVIOUS
<1>4. PICK b \in Strand \ {0} : Live(b) /\ obj[b] = u
  OBVIOUS
<1>5. ASSUME NEW x \in {a, b}
      PROVE  \E w \in {a, b} : pc[w] = "waiting" /\ waits[w] = x
  <2>1. Live(x) /\ x \in Strand \ {0} /\ obj[x] \in {t, u}
    BY <1>3, <1>4
  <2>2. PICK w \in Strand \ {0} : /\ pc[w] = "waiting" /\ waits[w] = x
                                 /\ <<obj[w], obj[x]>> \in script.joins
    BY <2>1, WaitedFor
  <2>3. Live(w) /\ obj[w] \in S
    BY <2>2 DEF Live
  <2>4. obj[w] \in {t, u}
    BY <1>2, <2>1, <2>2, <2>3
  <2>5. w = a \/ w = b
    BY <1>3, <1>4, <2>3, <2>4, OneLive
  <2> QED
    BY <2>2, <2>5
<1> QED
  BY <1>5 DEF Apart

EInv == IInv /\ Apart /\ Entered /\ Left /\ ExitWaits

UntangledScripts == \A s \in Scripts : Untangled(s)

LEMMA ExitWaitsStep ==
  ASSUME Orderly(script), Untangled(script), IInv, Apart, Entered, Left, NEW p \in Strand, Step(p)
  PROVE  ExitWaits'
<1> SUFFICES ASSUME process' = "ended" PROVE ExitWaits'
  BY DEF ExitWaits
<1>1. process = "runs"
  BY Runs
<1>2. process' = process \/ process' = "aborted" \/ ExitAgain(p) \/ Halt(p)
  <2>1. GilStep(p) \/ Hangs(p) => process' = process
    BY DEF GilStep, Resume, Boot, StartReturns, JoinReturns, JoinFails, Hangs, vars, exitVars
  <2>2. (\E t \in Thread : StartAgain(p, t) \/ StartNew(p, t) \/ StartFails(p, t) \/ StartAborts(p, t)
                           \/ JoinIdle(p, t) \/ JoinCall(p, t)) => process' = process \/ process' = "aborted"
    BY DEF StartAgain, StartNew, StartFails, StartAborts, JoinIdle, JoinCall, exitVars
  <2>3. OwnStep(p) => process' = process \/ process' = "aborted" \/ ExitAgain(p) \/ Halt(p)
    BY <2>2 DEF OwnStep, Bytecode, LetGo, Finish, Spin, SpinForever, PthreadJoin, PthreadJoined, Exit, ExitJoins,
                ExitSkips, exitVars
  <2> QED
    BY <2>1, <2>3 DEF Step
<1>3. ~ExitAgain(p)
  <2> SUFFICES ASSUME ExitAgain(p) PROVE FALSE
    OBVIOUS
  <2>1. p = 0 /\ pc[p] = "run" /\ exiting # NULL
    BY DEF ExitAgain, CallsExit, Orderly, At
  <2>2. exiting = 0
    BY <2>1 DEF IInv, Handler
  <2> QED
    BY <1>1, <2>1, <2>2 DEF Left, Joins
<1>4. Halt(p)
  BY <1>1, <1>2, <1>3
<1>5. exiting = 0 /\ ~(next <= Len(ents))
  <2>1. exiting = p /\ next > Len(ents) /\ Len(ents) \in Nat /\ next \in Nat
    BY <1>4 DEF Halt, At, IInv, Handler, Types
  <2>2. exiting = 0
    BY <2>1, ZeroIsStrand DEF IInv, Handler
  <2>3. ~(next <= Len(ents))
    BY <2>1
  <2> QED
    BY <2>2, <2>3
<1>6. \A r \in Strand \ {0} : ~Live(r)
  BY <1>1, <1>5, NobodyLeft DEF IInv
<1>7. pc' = pc
  BY <1>4 DEF Halt
<1> QED
  BY <1>6, <1>7 DEF ExitWaits, Alive, Live

(* The process does not end before its threads (thread.c:28), if no three  *)
(* threads may join each other in a cycle.                                 *)
THEOREM Leaving ==
  ASSUME OrderlyScripts, UntangledScripts
  PROVE  Spec => []ExitWaits
<1>1. Init => EInv
  <2> SUFFICES ASSUME Init PROVE EInv
    OBVIOUS
  <2>1. IInv
    BY InitInv
  <2>2. \A p \in Strand : pc[p] = IF p = 0 THEN "opend" ELSE "free"
    BY DEF Init
  <2>3. Apart
    BY <2>2 DEF Apart
  <2>4. Entered
    BY <2>2 DEF Init, Entered, Range, Live
  <2>5. Left /\ ExitWaits
    BY ZeroIsStrand DEF Init, Left, ExitWaits
  <2> QED
    BY <2>1, <2>3, <2>4, <2>5 DEF EInv
<1>2. EInv /\ [Next]_vars => EInv'
  <2> SUFFICES ASSUME EInv, [Next]_vars PROVE EInv'
    OBVIOUS
  <2>1. IInv'
    BY StepInv DEF EInv
  <2>2. Orderly(script) /\ Untangled(script)
    BY DEF OrderlyScripts, UntangledScripts, EInv, IInv, Types
  <2>3. ASSUME NEW p \in Strand, Step(p)
        PROVE  Apart' /\ Entered' /\ Left' /\ ExitWaits'
    <3>1. Apart' /\ Entered'
      BY <2>2, <2>3, ApartStep, EnteredStep DEF EInv, IInv
    <3>2. Left'
      BY <2>2, <2>3, LeftStep DEF EInv, IInv
    <3>3. ExitWaits'
      BY <2>2, <2>3, ExitWaitsStep DEF EInv
    <3> QED
      BY <3>1, <3>2, <3>3
  <2>4. CASE UNCHANGED vars
    <3>1. Apart' /\ Entered'
      BY <2>4 DEF EInv, vars, objVars, setVars, exitVars, Apart, Entered, Range, Live
    <3>2. Left'
      BY <2>4 DEF EInv, vars, objVars, setVars, exitVars, Left, Joins, Settled, Finished, Live
    <3>3. ExitWaits'
      BY <2>4 DEF EInv, vars, objVars, setVars, exitVars, ExitWaits, Alive
    <3> QED
      BY <2>1, <3>1, <3>2, <3>3 DEF EInv
  <2> QED
    BY <2>1, <2>3, <2>4 DEF EInv, Next, Halted, Step
<1>3. EInv => ExitWaits
  BY DEF EInv
<1> QED
  BY <1>1, <1>2, <1>3, PTL DEF Spec
=============================================================================
