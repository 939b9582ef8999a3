------------------------------- MODULE Barrier -------------------------------
(***************************************************************************)
(* The reusable barrier of prefix-sum/s2768394.c (lines 48-53, 182-212): a *)
(* monitor made of one mutex, one condition variable, the arrival counter  *)
(* nthread and the generation counter round.  jacobi/jacobi.c (156-199) is *)
(* the same code with numWorkers for NTHREADS.                             *)
(*                                                                         *)
(* Each thread calls barrier() at most Calls times and does its own work   *)
(* in between; a module that uses the barrier says which work.             *)
(*                                                                         *)
(* POSIX lets pthread_cond_wait return without a signal.  MaxSpurious      *)
(* bounds how often that happens in a behaviour, so that weak fairness is  *)
(* enough for progress; nothing depends on its value.                      *)
(***************************************************************************)
EXTENDS ThreadSet, FiniteSets

CONSTANTS Calls,        \* calls of barrier() made by each thread
          MaxSpurious   \* bound on spurious wakeups in a behaviour

ASSUME BarrierAssumption == Calls \in Nat /\ MaxSpurious \in Nat

Nobody == -1            \* barrier_mutex is free

VARIABLES
  barrier_mutex,   \* the thread that holds the mutex, or Nobody
  nthread,         \* bstate.nthread
  round,           \* bstate.round
  current_round,   \* the local variable of barrier(), per thread
  bpc,             \* where each thread is in barrier()
  calls,           \* history: calls of barrier() made so far, per thread
  spurious         \* history: spurious wakeups so far

bvars == <<barrier_mutex, nthread, round, current_round, bpc, calls, spurious>>

(* out    not in barrier()                lock   in pthread_mutex_lock     *)
(* enter  holds the mutex, not counted    wait   blocked in the cond wait  *)
(* woken  left the wait, wants the mutex  check  holds it, about to test   *)
(* unlock holds the mutex, about to leave       the loop condition         *)
Points == {"out", "lock", "enter", "wait", "woken", "check", "unlock"}

Holding == {"enter", "check", "unlock"}

BarrierTypeOK ==
  /\ barrier_mutex \in Threads \cup {Nobody}
  /\ nthread \in 0 .. NTHREADS
  /\ round \in Nat
  /\ current_round \in [Threads -> Nat]
  /\ bpc \in [Threads -> Points]
  /\ calls \in [Threads -> Nat]
  /\ spurious \in 0 .. MaxSpurious

-----------------------------------------------------------------------------
(* barrier_init; bstate is a zero-initialised global, so round starts at 0 *)
BarrierInit ==
  /\ barrier_mutex = Nobody
  /\ nthread = 0
  /\ round = 0
  /\ current_round = [t \in Threads |-> 0]
  /\ bpc = [t \in Threads |-> "out"]
  /\ calls = [t \in Threads |-> 0]
  /\ spurious = 0

Goto(t, from, to) == bpc[t] = from /\ bpc' = [bpc EXCEPT ![t] = to]

CallBarrier(t) ==
  /\ Goto(t, "out", "lock")
  /\ calls' = [calls EXCEPT ![t] = @ + 1]
  /\ UNCHANGED <<barrier_mutex, nthread, round, current_round, spurious>>

(* pthread_mutex_lock, and the same on the way out of pthread_cond_wait    *)
Acquire(t, from, to) ==
  /\ Goto(t, from, to)
  /\ barrier_mutex = Nobody
  /\ barrier_mutex' = t
  /\ UNCHANGED <<nthread, round, current_round, calls, spurious>>

Lock(t) == Acquire(t, "lock", "enter")

Reacquire(t) == Acquire(t, "woken", "check")

(* Mutant of ArriveLast: nthread is not reset for the next use.            *)
ArriveLastNoReset(t) ==
  /\ bpc[t] = "enter"
  /\ nthread + 1 = NTHREADS
  /\ round' = round + 1
  /\ nthread' = nthread + 1
  /\ bpc' = [u \in Threads |-> CASE u = t          -> "unlock"
                                 [] bpc[u] = "wait" -> "woken"
                                 [] OTHER           -> bpc[u]]
  /\ UNCHANGED <<barrier_mutex, current_round, calls, spurious>>

(* The last thread to arrive opens the next round and wakes every waiter.  *)
ArriveLast(t) ==
  /\ bpc[t] = "enter"
  /\ nthread + 1 = NTHREADS
  /\ round' = round + 1
  /\ nthread' = 0
  /\ bpc' = [u \in Threads |-> CASE u = t          -> "unlock"
                                 [] bpc[u] = "wait" -> "woken"
                                 [] OTHER           -> bpc[u]]
  /\ UNCHANGED <<barrier_mutex, current_round, calls, spurious>>

(* Any other thread notes the round and waits, which frees the mutex.      *)
ArriveEarly(t) ==
  /\ Goto(t, "enter", "wait")
  /\ nthread + 1 # NTHREADS
  /\ nthread' = nthread + 1
  /\ current_round' = [current_round EXCEPT ![t] = round]
  /\ barrier_mutex' = Nobody
  /\ UNCHANGED <<round, calls, spurious>>

SpuriousWakeup(t) ==
  /\ Goto(t, "wait", "woken")
  /\ spurious < MaxSpurious
  /\ spurious' = spurious + 1
  /\ UNCHANGED <<barrier_mutex, nthread, round, current_round, calls>>

(* The condition of the do-while loop: wait again in the same round.       *)
WaitAgain(t) ==
  /\ Goto(t, "check", "wait")
  /\ round = current_round[t]
  /\ barrier_mutex' = Nobody
  /\ UNCHANGED <<nthread, round, current_round, calls, spurious>>

(* Mutant of LeaveLoop: the round is not tested after a wakeup.            *)
LeaveLoopUntested(t) ==
  /\ Goto(t, "check", "unlock")
  /\ UNCHANGED <<barrier_mutex, nthread, round, current_round, calls, spurious>>

LeaveLoop(t) ==
  /\ Goto(t, "check", "unlock")
  /\ round # current_round[t]
  /\ UNCHANGED <<barrier_mutex, nthread, round, current_round, calls, spurious>>

(* pthread_mutex_unlock and the return to the caller                       *)
Unlock(t) ==
  /\ Goto(t, "unlock", "out")
  /\ barrier_mutex' = Nobody
  /\ UNCHANGED <<nthread, round, current_round, calls, spurious>>

(* The steps of a call in progress that the scheduler must let a thread    *)
(* take; a spurious wakeup may happen and need not.                        *)
BarrierStep(t) ==
  \/ Lock(t)
  \/ ArriveLast(t)
  \/ ArriveEarly(t)
  \/ Reacquire(t)
  \/ WaitAgain(t)
  \/ LeaveLoop(t)
  \/ Unlock(t)

BarrierNext ==
  \E t \in Threads :
    \/ calls[t] < Calls /\ CallBarrier(t)
    \/ BarrierStep(t)
    \/ SpuriousWakeup(t)

BarrierSafety == BarrierInit /\ [][BarrierNext]_bvars

BarrierSpec == BarrierSafety /\ \A t \in Threads : WF_bvars(BarrierStep(t))

-----------------------------------------------------------------------------
(* Calls of barrier() that t has returned from, and in which t was counted *)
Passed(t) == IF bpc[t] = "out" THEN calls[t] ELSE calls[t] - 1

Counted(t) == IF bpc[t] \in {"lock", "enter"} THEN calls[t] - 1 ELSE calls[t]

Inside(t) == bpc[t] \in {"wait", "woken", "check"}

(* No thread is past a barrier that another has not yet reached, however   *)
(* wakeups, lock acquisitions and reuse of the barrier interleave          *)
(* (s2768394.c:188-212; the two calls at 135 and 141).                     *)
NoOvertaking == \A t, u \in Threads : Passed(t) <= calls[u]

(* A thread blocked on the condition variable waits for a round that is    *)
(* still open: the broadcast (199) never misses it.                        *)
NoLostWakeup == \A t \in Threads : bpc[t] = "wait" => current_round[t] = round

(* barrier_mutex is held by the one thread inside the critical section.    *)
MutexOwner == \A t \in Threads : bpc[t] \in Holding <=> barrier_mutex = t

(* nthread counts the threads that have entered the open round; everyone   *)
(* else has been counted in exactly the rounds already closed.             *)
InRound(r) == {t \in Threads : Counted(t) = r}

RoundCount ==
  /\ nthread = Cardinality(InRound(round + 1))
  /\ nthread < NTHREADS
  /\ \A t \in Threads :
       /\ Counted(t) = IF Inside(t) /\ current_round[t] = round
                       THEN round + 1 ELSE round
       /\ Inside(t) => current_round[t] = Counted(t) - 1

(* The inductive invariant: NoOvertaking follows from it.                  *)
BarrierInv == BarrierTypeOK /\ MutexOwner /\ RoundCount /\ NoLostWakeup

(* The monitor implements the abstract barrier.                            *)
Phases == INSTANCE PhaseBarrier WITH
            Threads <- Threads,
            arrived <- calls,
            passed  <- [t \in Threads |-> Passed(t)]

(* Every step of the monitor (s2768394.c:188-212) is a step of a barrier   *)
(* that releases nobody before all have arrived, and every released call   *)
(* returns.                                                                *)
ImplementsPhaseBarrier == Phases!Spec
=============================================================================
