---------------------------- MODULE PhaseBarrier ----------------------------
(***************************************************************************)
(* What a reusable barrier promises to the threads that call it, with no   *)
(* mutex, condition variable or counter.  Thread t has called the barrier  *)
(* arrived[t] times and has come back from passed[t] of these calls.       *)
(***************************************************************************)
EXTENDS Naturals

CONSTANT Threads

VARIABLES arrived, passed

vars == <<arrived, passed>>

Init ==
  /\ arrived = [t \in Threads |-> 0]
  /\ passed  = [t \in Threads |-> 0]

(* A thread outside the barrier calls it.                                  *)
Arrive(t) ==
  /\ passed[t] = arrived[t]
  /\ arrived' = [arrived EXCEPT ![t] = @ + 1]
  /\ UNCHANGED passed

(* A call returns only when every thread has made as many calls.           *)
Depart(t) ==
  /\ passed[t] # arrived[t]
  /\ \A u \in Threads : arrived[t] <= arrived[u]
  /\ passed' = [passed EXCEPT ![t] = @ + 1]
  /\ UNCHANGED arrived

Next == \E t \in Threads : Arrive(t) \/ Depart(t)

Safety == Init /\ [][Next]_vars

(* Once every thread has arrived, every call returns.                      *)
Spec == Safety /\ \A t \in Threads : WF_vars(Depart(t))
=============================================================================
