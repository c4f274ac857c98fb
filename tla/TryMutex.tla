------------------------------ MODULE TryMutex ------------------------------
(***************************************************************************)
(* TryMutex of control-plane/scaling/scaling.go: a non-blocking lock made  *)
(* of an atomic flag and a sync.Mutex.  TryLock claims the flag with a     *)
(* compare-and-swap and only then locks the mutex; Unlock clears the flag  *)
(* BEFORE it unlocks the mutex, so a new owner of the flag can find the    *)
(* mutex still held.  AutoScaling and ManualScaling are the callers.       *)
(***************************************************************************)

CONSTANTS
  Threads,  \* goroutines that call TryLock
  Nobody    \* the mutex is free

ASSUME NobodyAssumption == Nobody \notin Threads

VARIABLES
  locked,   \* TryMutex.locked is 1
  mu,       \* holder of TryMutex.mu
  pc        \* "idle", "locking", "critical" or "unlocking", per goroutine

vars == <<locked, mu, pc>>

Init ==
  /\ locked = FALSE
  /\ mu = Nobody
  /\ pc = [t \in Threads |-> "idle"]

\* Mutant: the flag is stored without comparing it.
ClaimFlagBlindly(t) ==
  /\ pc[t] = "idle"
  /\ locked' = TRUE
  /\ pc' = [pc EXCEPT ![t] = "locking"]
  /\ UNCHANGED mu

\* The compare-and-swap of TryLock succeeds; when it fails TryLock returns
\* false and nothing has changed.
ClaimFlag(t) ==
  /\ pc[t] = "idle"
  /\ ~locked
  /\ locked' = TRUE
  /\ pc' = [pc EXCEPT ![t] = "locking"]
  /\ UNCHANGED mu

\* Mutant: TryLock does not lock the mutex once it has the flag.
LockMutexUnlocked(t) ==
  /\ pc[t] = "locking"
  /\ mu' = t
  /\ pc' = [pc EXCEPT ![t] = "critical"]
  /\ UNCHANGED locked

\* m.mu.Lock(): waits for the mutex, then TryLock returns true.
LockMutex(t) ==
  /\ pc[t] = "locking"
  /\ mu = Nobody
  /\ mu' = t
  /\ pc' = [pc EXCEPT ![t] = "critical"]
  /\ UNCHANGED locked

\* Unlock, first statement.
ClearFlag(t) ==
  /\ pc[t] = "critical"
  /\ locked' = FALSE
  /\ pc' = [pc EXCEPT ![t] = "unlocking"]
  /\ UNCHANGED mu

\* Mutant: Unlock gives up the flag only.
UnlockFlagOnly(t) ==
  /\ pc[t] = "unlocking"
  /\ pc' = [pc EXCEPT ![t] = "idle"]
  /\ UNCHANGED <<locked, mu>>

\* Unlock, second statement.
UnlockMutex(t) ==
  /\ pc[t] = "unlocking"
  /\ mu' = Nobody
  /\ pc' = [pc EXCEPT ![t] = "idle"]
  /\ UNCHANGED locked

Step(t) == ClaimFlag(t) \/ LockMutex(t) \/ ClearFlag(t) \/ UnlockMutex(t)

Next == \E t \in Threads : Step(t)

\* A goroutine that has begun to lock or to unlock is scheduled until it has.
Fairness ==
  \A t \in Threads : WF_vars(LockMutex(t)) /\ WF_vars(ClearFlag(t) \/ UnlockMutex(t))

Spec == Init /\ [][Next]_vars
FairSpec == Spec /\ Fairness

-----------------------------------------------------------------------------
TypeOK ==
  /\ locked \in BOOLEAN
  /\ mu \in Threads \cup {Nobody}
  /\ pc \in [Threads -> {"idle", "locking", "critical", "unlocking"}]

\* At most one goroutine is between a TryLock that returned true and the end
\* of its Unlock, although Unlock gives up the flag before the mutex.
MutualExclusion ==
  \A t, u \in Threads :
    pc[t] \in {"critical", "unlocking"} /\ pc[u] \in {"critical", "unlocking"} => t = u

\* TryLock does not wait for a critical section: a goroutine that waits for
\* the mutex only ever waits for the last statement of an Unlock.
TryLockDoesNotWait ==
  \A t, u \in Threads : pc[t] = "locking" => pc[u] # "critical"

\* A claimed flag leads to a held lock: TryLock does return.
ClaimSucceeds == \A t \in Threads : pc[t] = "locking" ~> pc[t] = "critical"

\* The lock as its callers see it: taken where the flag is claimed, given back
\* where the flag is cleared.
FlagOwner(t) == pc[t] \in {"locking", "critical"}

Lock == INSTANCE TryLock
          WITH owner <- IF \E t \in Threads : FlagOwner(t)
                        THEN CHOOSE t \in Threads : FlagOwner(t)
                        ELSE Nobody

ImplementsTryLock == Lock!Spec
=============================================================================
