--------------------------- MODULE TryMutexProofs ---------------------------
(***************************************************************************)
(* Proofs about TryMutex, for any set of goroutines: mutual exclusion, that *)
(* TryLock waits for no critical section, and that the flag and the mutex  *)
(* together implement the one-step lock TryLock.                           *)
(*                                                                         *)
(* The inductive invariant relates the flag and the mutex to the           *)
(* goroutines: the flag is set exactly when some goroutine owns it, it has *)
(* one owner at most, and the mutex is held by who is in or leaving a      *)
(* critical section.                                                       *)
(***************************************************************************)
EXTENDS TryMutex, TLAPS

HoldsMutex(t) == pc[t] \in {"critical", "unlocking"}

Inv ==
  /\ TypeOK
  /\ \A t \in Threads : FlagOwner(t) => locked
  /\ locked => \E t \in Threads : FlagOwner(t)
  /\ \A t, u \in Threads : FlagOwner(t) /\ FlagOwner(u) => t = u
  /\ \A t \in Threads : HoldsMutex(t) <=> mu = t

LEMMA InitInv == Init => Inv
BY NobodyAssumption DEF Init, Inv, TypeOK, FlagOwner, HoldsMutex

\* Every step keeps the invariant; who sets the flag becomes its one owner,
\* who clears it was its one owner.
LEMMA StepInv == Inv /\ [Next]_vars => Inv'
<1> SUFFICES ASSUME Inv, [Next]_vars PROVE Inv'
  OBVIOUS
<1> USE NobodyAssumption DEF Inv, TypeOK, FlagOwner, HoldsMutex
<1>1. ASSUME NEW t \in Threads, ClaimFlag(t) PROVE Inv'
  BY <1>1 DEF ClaimFlag
<1>2. ASSUME NEW t \in Threads, LockMutex(t) PROVE Inv'
  BY <1>2 DEF LockMutex
<1>3. ASSUME NEW t \in Threads, ClearFlag(t) PROVE Inv'
  BY <1>3 DEF ClearFlag
<1>4. ASSUME NEW t \in Threads, UnlockMutex(t) PROVE Inv'
  BY <1>4 DEF UnlockMutex
<1>5. CASE UNCHANGED vars
  BY <1>5 DEF vars
<1>6. QED
  BY <1>1, <1>2, <1>3, <1>4, <1>5 DEF Next, Step

LEMMA Invariance == Spec => []Inv
BY InitInv, StepInv, PTL DEF Spec

\* Every variable keeps its type.
THEOREM TypeCorrect == Spec => []TypeOK
<1>1. Inv => TypeOK
  BY DEF Inv
<1>2. QED
  BY <1>1, Invariance, PTL

\* One goroutine at most is in a critical section or leaving one, although
\* Unlock clears the flag before it unlocks the mutex.
THEOREM Exclusion == Spec => []MutualExclusion
<1>1. Inv => MutualExclusion
  BY DEF Inv, MutualExclusion, HoldsMutex
<1>2. QED
  BY <1>1, Invariance, PTL

\* A goroutine inside TryLock waits for no other's critical section.
THEOREM NoWaiting == Spec => []TryLockDoesNotWait
<1>1. Inv => TryLockDoesNotWait
  BY DEF Inv, TryLockDoesNotWait, FlagOwner
<1>2. QED
  BY <1>1, Invariance, PTL

-----------------------------------------------------------------------------
(* Refinement *)

\* The owner the callers see.
Owner == IF \E t \in Threads : FlagOwner(t)
         THEN CHOOSE t \in Threads : FlagOwner(t)
         ELSE Nobody

LEMMA OwnerIs ==
  ASSUME Inv, NEW t \in Threads, FlagOwner(t)
  PROVE  Owner = t
BY DEF Owner, Inv

LEMMA OwnerNobody ==
  ASSUME Inv, ~locked
  PROVE  Owner = Nobody
BY DEF Owner, Inv

LEMMA OwnerIsPrimed ==
  ASSUME Inv', NEW t \in Threads, FlagOwner(t)'
  PROVE  Owner' = t
BY DEF Owner, Inv

LEMMA OwnerNobodyPrimed ==
  ASSUME Inv', ~locked'
  PROVE  Owner' = Nobody
BY DEF Owner, Inv

\* Claiming the flag acquires the lock, clearing it releases the lock; locking
\* and unlocking the mutex are not seen.
THEOREM Refinement == Spec => ImplementsTryLock
<1>1. Init => Lock!Init
  BY DEF Init, Lock!Init, FlagOwner
<1>2. Inv /\ Inv' /\ [Next]_vars => [Lock!Next]_Owner
  <2> SUFFICES ASSUME Inv, Inv', [Next]_vars PROVE [Lock!Next]_Owner
    OBVIOUS
  <2>1. ASSUME NEW t \in Threads, ClaimFlag(t) PROVE Lock!Acquire(t)
    <3>1. Owner = Nobody
      BY <2>1, OwnerNobody DEF ClaimFlag
    <3>2. FlagOwner(t)'
      BY <2>1 DEF ClaimFlag, FlagOwner, Inv, TypeOK
    <3>3. Owner' = t
      BY <3>2, OwnerIsPrimed
    <3>4. QED
      BY <3>1, <3>3 DEF Lock!Acquire, Owner
  <2>2. ASSUME NEW t \in Threads, LockMutex(t) PROVE Owner' = Owner
    <3>1. FlagOwner(t) /\ FlagOwner(t)'
      BY <2>2 DEF LockMutex, FlagOwner, Inv, TypeOK
    <3>2. QED
      BY <3>1, OwnerIs, OwnerIsPrimed
  <2>3. ASSUME NEW t \in Threads, ClearFlag(t) PROVE Lock!Release(t)
    <3>1. FlagOwner(t)
      BY <2>3 DEF ClearFlag, FlagOwner
    <3>2. Owner = t
      BY <3>1, OwnerIs
    <3>3. Owner' = Nobody
      BY <2>3, OwnerNobodyPrimed DEF ClearFlag
    <3>4. QED
      BY <3>2, <3>3 DEF Lock!Release, Owner
  <2>4. ASSUME NEW t \in Threads, UnlockMutex(t) PROVE Owner' = Owner
    <3>1. \A u \in Threads : FlagOwner(u)' <=> FlagOwner(u)
      BY <2>4 DEF UnlockMutex, FlagOwner, Inv, TypeOK
    <3>2. CASE \E u \in Threads : FlagOwner(u)
      <4>1. PICK u \in Threads : FlagOwner(u)
        BY <3>2
      <4>2. QED
        BY <4>1, <3>1, OwnerIs, OwnerIsPrimed
    <3>3. CASE ~\E u \in Threads : FlagOwner(u)
      BY <3>1, <3>3 DEF Owner
    <3>4. QED
      BY <3>2, <3>3
  <2>5. CASE UNCHANGED vars
    BY <2>5 DEF vars, Owner, FlagOwner
  <2>6. QED
    BY <2>1, <2>2, <2>3, <2>4, <2>5 DEF Next, Step, Lock!Next
<1>3. QED
  BY <1>1, <1>2, Invariance, PTL DEF Spec, ImplementsTryLock, Lock!Spec, Owner
=============================================================================
