------------------------------- MODULE TryLock -------------------------------
(* The non-blocking lock AutoScaling and ManualScaling rely on: taking it and *)
(* giving it back are single steps, and it has one owner at most.             *)

CONSTANTS Threads, Nobody

VARIABLE owner

Init == owner = Nobody

Acquire(t) == owner = Nobody /\ owner' = t
Release(t) == owner = t /\ owner' = Nobody

Next == \E t \in Threads : Acquire(t) \/ Release(t)

Spec == Init /\ [][Next]_owner
=============================================================================
