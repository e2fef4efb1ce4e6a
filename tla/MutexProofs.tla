----------------------------- MODULE MutexProofs -----------------------------
(***************************************************************************)
(* Proofs about os.mutex, for any threads, any relocking threads and any   *)
(* width of _waitct.                                                       *)
(***************************************************************************)
EXTENDS Mutex, TLAPS

(* Mutual exclusion is not inductive: a thread may come to be inside by    *)
(* the fast path, on the word of owned_by alone.  What makes owned_by      *)
(* trustworthy is that a thread which gave pm up still has to clear it     *)
(* ("disown") before it can call again, and that being inside always       *)
(* means having pm.                                                        *)
InsideHasMutex == \A t \in Thread : Inside(t) => pm = t

OutLacksMutex == \A t \in Thread : pc[t] \in {"out", "disown"} => pm # t

IInv == TypeOK /\ InsideHasMutex /\ OutLacksMutex /\ OwnerIsInside

(* The invariant holds at the start: the mutex is made free and unowned.   *)
LEMMA InvInit == Init => IInv
  BY NULLAssumption, WidthAssumption
  DEF Init, IInv, TypeOK, InsideHasMutex, OutLacksMutex, OwnerIsInside,
      Inside, Locations

(* Counting up or down modulo Width stays below Width.                     *)
LEMMA WrapType ==
  ASSUME NEW r \in 0 .. Width - 1
  PROVE  (r + 1) % Width \in 0 .. Width - 1 /\ (r - 1) % Width \in 0 .. Width - 1
<1>1. \A x \in Int : x % Width \in 0 .. Width - 1
  BY WidthAssumption
<1>2. r + 1 \in Int /\ r - 1 \in Int
  BY WidthAssumption
<1> QED
  BY <1>1, <1>2

(* Every statement of lock, trylock and unlock keeps the types.            *)
LEMMA TypeStep == TypeOK /\ [Next]_vars => TypeOK'
<1> SUFFICES ASSUME TypeOK, [Next]_vars PROVE TypeOK'
  OBVIOUS
<1> USE DEF TypeOK, Locations, Goto
<1>1. ASSUME NEW t \in Thread, LockCall(t) \/ TryLockCall(t) PROVE TypeOK'
  BY <1>1 DEF LockCall, TryLockCall, Enter
<1>2. ASSUME NEW t \in Thread, LoadWaitct(t) PROVE TypeOK'
  BY <1>2 DEF LoadWaitct
<1>3. ASSUME NEW t \in Thread, IncWaitct(t) PROVE TypeOK'
  BY <1>3, WrapType, WidthAssumption DEF IncWaitct
<1>4. ASSUME NEW t \in Thread, DecWaitct(t) PROVE TypeOK'
  BY <1>4, WrapType, WidthAssumption DEF DecWaitct
<1>5. ASSUME NEW t \in Thread, Acquire(t) \/ TryFail(t) PROVE TypeOK'
  BY <1>5 DEF Acquire, TryFail
<1>6. ASSUME NEW t \in Thread, SetOwner(t) \/ ClearOwner(t) \/ UnlockCall(t)
      PROVE  TypeOK'
  BY <1>6 DEF SetOwner, ClearOwner, UnlockCall
<1>7. CASE UNCHANGED vars
  BY <1>7 DEF vars
<1> QED
  BY <1>1, <1>2, <1>3, <1>4, <1>5, <1>6, <1>7 DEF Next, Step

(* Every statement of lock, trylock and unlock keeps the invariant.        *)
LEMMA InvStep == IInv /\ [Next]_vars => IInv'
<1> SUFFICES ASSUME IInv, [Next]_vars PROVE IInv'
  OBVIOUS
<1>0. TypeOK'
  BY TypeStep DEF IInv
<1> DEFINE Kept == InsideHasMutex' /\ OutLacksMutex' /\ OwnerIsInside'
<1> USE NULLAssumption DEF IInv, TypeOK, InsideHasMutex, OutLacksMutex,
        OwnerIsInside, Inside, Locations, Goto
<1>1. ASSUME NEW t \in Thread, LockCall(t) \/ TryLockCall(t) PROVE Kept
  BY <1>1 DEF LockCall, TryLockCall, Enter, FastPath
<1>2. ASSUME NEW t \in Thread, LoadWaitct(t) PROVE Kept
  BY <1>2 DEF LoadWaitct
<1>3. ASSUME NEW t \in Thread, IncWaitct(t) PROVE Kept
  BY <1>3 DEF IncWaitct
<1>4. ASSUME NEW t \in Thread, Acquire(t) PROVE Kept
  BY <1>4 DEF Acquire
<1>5. ASSUME NEW t \in Thread, TryFail(t) PROVE Kept
  BY <1>5 DEF TryFail
<1>6. ASSUME NEW t \in Thread, SetOwner(t) PROVE Kept
  BY <1>6 DEF SetOwner
<1>7. ASSUME NEW t \in Thread, DecWaitct(t) PROVE Kept
  BY <1>7 DEF DecWaitct
<1>8. ASSUME NEW t \in Thread, UnlockCall(t) PROVE Kept
  BY <1>8 DEF UnlockCall
<1>9. ASSUME NEW t \in Thread, ClearOwner(t) PROVE Kept
  BY <1>9 DEF ClearOwner
<1>10. CASE UNCHANGED vars
  BY <1>10 DEF vars
<1>11. Kept
  BY <1>1, <1>2, <1>3, <1>4, <1>5, <1>6, <1>7, <1>8, <1>9, <1>10 DEF Next, Step
<1> QED
  BY <1>0, <1>11

(* The strengthened invariant holds in every reachable state.              *)
THEOREM Invariant == Spec => []IInv
<1>1. Init => IInv
  BY InvInit
<1>2. IInv /\ [Next]_vars => IInv'
  BY InvStep
<1> QED
  BY <1>1, <1>2, PTL DEF Spec

(* The fields of an os.mutex keep their types.                             *)
THEOREM TypeCorrect == Spec => []TypeOK
<1>1. IInv => TypeOK
  BY DEF IInv
<1> QED
  BY <1>1, Invariant, PTL

(* lock and trylock never let two threads in, fast path included.          *)
THEOREM Exclusion == Spec => []MutualExclusion
<1>1. IInv => MutualExclusion
  BY DEF IInv, InsideHasMutex, MutualExclusion
<1> QED
  BY <1>1, Invariant, PTL

(* owned_by only ever names the holder or a thread about to clear it.      *)
THEOREM OwnerTrusted == Spec => []OwnerIsInside
<1>1. IInv => OwnerIsInside
  BY DEF IInv
<1> QED
  BY <1>1, Invariant, PTL

-----------------------------------------------------------------------------

(* Every statement of mutex.c is a step of the lock its clients expect,    *)
(* or changes nothing they can see.                                        *)
LEMMA ClientStep == IInv /\ IInv' /\ [Next]_vars => [ClientView!Next]_status
<1> SUFFICES ASSUME IInv, IInv', [Next]_vars PROVE [ClientView!Next]_status
  OBVIOUS
<1> USE NULLAssumption DEF IInv, TypeOK, InsideHasMutex, OutLacksMutex,
        Inside, Goto, status
<1>1. ASSUME NEW t \in Thread, LockCall(t) \/ TryLockCall(t)
      PROVE  ClientView!Ask(t) \/ UNCHANGED status
  BY <1>1 DEF LockCall, TryLockCall, Enter, FastPath, ClientView!Ask,
              ClientView!Moves, OwnerIsInside
<1>2. ASSUME NEW t \in Thread,
             LoadWaitct(t) \/ IncWaitct(t) \/ SetOwner(t) \/ DecWaitct(t)
      PROVE  UNCHANGED status
  BY <1>2 DEF LoadWaitct, IncWaitct, SetOwner, DecWaitct
<1>3. ASSUME NEW t \in Thread, Acquire(t) PROVE ClientView!Grant(t)
  BY <1>3, ZenonT(60) DEF Acquire, ClientView!Grant, ClientView!Moves
<1>4. ASSUME NEW t \in Thread, TryFail(t)
      PROVE  ClientView!Refuse(t) \/ UNCHANGED status
  BY <1>4 DEF TryFail, ClientView!Refuse, ClientView!Moves
<1>5. ASSUME NEW t \in Thread, UnlockCall(t) PROVE ClientView!Release(t)
  BY <1>5, ZenonT(60) DEF UnlockCall, ClientView!Release, ClientView!Moves
<1>6. ASSUME NEW t \in Thread, ClearOwner(t) PROVE UNCHANGED status
  BY <1>6 DEF ClearOwner
<1>7. CASE UNCHANGED vars
  BY <1>7 DEF vars
<1> QED
  BY <1>1, <1>2, <1>3, <1>4, <1>5, <1>6, <1>7
  DEF Next, Step, ClientView!Next

(* os.mutex implements the abstract lock.                                  *)
THEOREM ImplementsLock == Spec => LockSpec
<1>1. Init => ClientView!Init
  BY NULLAssumption DEF Init, ClientView!Init, status, Inside
<1>2. IInv /\ IInv' /\ [Next]_vars => [ClientView!Next]_status
  BY ClientStep
<1> QED
  BY <1>1, <1>2, Invariant, PTL DEF Spec, LockSpec, ClientView!Spec
=============================================================================
