------------------------------ MODULE BadMonitor ------------------------------
(***************************************************************************)
(* prefix-sum/badMonitor.c: the phases of PrefixPhases synchronised by one *)
(* monitor with two condition variables and one shared round.  Thread 0    *)
(* runs phase_2 inside the monitor; worker0_must_be_last_thread_cond keeps *)
(* it out until every thread has arrived, barrier_cond keeps the others in *)
(* until phase_2 is over.  barrier() (220-239) is never called there.      *)
(*                                                                         *)
(* A thread is in the monitor while tpc is "sync1" or "phase2"; mpc says   *)
(* where.  Thread 0 waits on the first condition variable, the others on   *)
(* the second, so a waiter's condition is known from its number.           *)
(***************************************************************************)
EXTENDS PrefixPhases, FiniteSets

CONSTANT MaxSpurious   \* bound on spurious wakeups in a behaviour

ASSUME SpuriousAssumption == MaxSpurious \in Nat

Nobody == -1

VARIABLES
  barrier_mutex,   \* the thread that holds bstate.barrier_mutex, or Nobody
  nthread,         \* bstate.nthread
  round,           \* bstate.round
  current_round,   \* the local variable of thread(), per thread
  mpc,             \* where each thread is in the monitor
  spurious         \* history: spurious wakeups so far

mvars == <<barrier_mutex, nthread, round, current_round, mpc, spurious>>

vars == <<pvars, mvars>>

(* As in Barrier: lock and woken want the mutex, enter, check, inside and  *)
(* unlock hold it, wait is blocked on the thread's condition variable.     *)
Points == {"out", "lock", "enter", "wait", "woken", "check", "inside", "unlock"}

Holding == {"enter", "check", "inside", "unlock"}

TypeOK ==
  /\ PhasesTypeOK
  /\ barrier_mutex \in Threads \cup {Nobody}
  /\ nthread \in 0 .. NTHREADS
  /\ round \in 0 .. 2
  /\ current_round \in [Threads -> 0 .. 2]
  /\ mpc \in [Threads -> Points]
  /\ spurious \in 0 .. MaxSpurious

Init ==
  /\ PhasesInit
  /\ barrier_mutex = Nobody
  /\ nthread = 0
  /\ round = 0
  /\ current_round = [t \in Threads |-> 0]
  /\ mpc = [t \in Threads |-> "out"]
  /\ spurious = 0

Goto(t, from, to) == mpc[t] = from /\ mpc' = [mpc EXCEPT ![t] = to]

(* mpc after t moves on and broadcasts to the waiters in the set ws        *)
Broadcast(t, to, ws) ==
  mpc' = [u \in Threads |-> IF u = t THEN to
                            ELSE IF u \in ws /\ mpc[u] = "wait" THEN "woken"
                            ELSE mpc[u]]

-----------------------------------------------------------------------------
EnterMonitor(t) ==
  /\ Phase1End(t)
  /\ Goto(t, "out", "lock")
  /\ UNCHANGED <<barrier_mutex, nthread, round, current_round, spurious>>

Acquire(t, from, to) ==
  /\ Goto(t, from, to)
  /\ barrier_mutex = Nobody
  /\ barrier_mutex' = t
  /\ UNCHANGED <<nthread, round, current_round, spurious, pvars>>

Lock(t) == Acquire(t, "lock", "enter")

Reacquire(t) == Acquire(t, "woken", "check")

(* Thread 0 waits unless it is the last to arrive.                         *)
Arrive0Early(t) ==
  /\ t = 0
  /\ Goto(t, "enter", "wait")
  /\ nthread + 1 # NTHREADS
  /\ nthread' = nthread + 1
  /\ current_round' = [current_round EXCEPT ![t] = round]
  /\ barrier_mutex' = Nobody
  /\ UNCHANGED <<round, spurious, pvars>>

Arrive0Last(t) ==
  /\ t = 0
  /\ Goto(t, "enter", "inside")
  /\ nthread + 1 = NTHREADS
  /\ nthread' = nthread + 1
  /\ Phase2Begin(t)
  /\ UNCHANGED <<barrier_mutex, round, current_round, spurious>>

(* The arrival of another thread, which waits for phase 2: it may open a   *)
(* new round and wake the threads in the set ws.                           *)
ArriveAndWait(t, new_round, ws) ==
  /\ t # 0
  /\ mpc[t] = "enter"
  /\ nthread' = nthread + 1
  /\ round' = new_round
  /\ Broadcast(t, "wait", ws)
  /\ current_round' = [current_round EXCEPT ![t] = new_round]
  /\ barrier_mutex' = Nobody
  /\ UNCHANGED <<spurious, pvars>>

(* Mutant of ArriveOther: the last to arrive wakes all threads, as if      *)
(* there were a single condition variable.                                 *)
ArriveOtherWakesAll(t) ==
  IF nthread + 1 = NTHREADS THEN ArriveAndWait(t, round + 1, Threads)
                            ELSE ArriveAndWait(t, round, {})

(* The last to arrive moves to a new round first and wakes thread 0.       *)
ArriveOther(t) ==
  IF nthread + 1 = NTHREADS THEN ArriveAndWait(t, round + 1, {0})
                            ELSE ArriveAndWait(t, round, {})

SpuriousWakeup(t) ==
  /\ Goto(t, "wait", "woken")
  /\ spurious < MaxSpurious
  /\ spurious' = spurious + 1
  /\ UNCHANGED <<barrier_mutex, nthread, round, current_round, pvars>>

(* The condition of both do-while loops.                                   *)
WaitAgain(t) ==
  /\ Goto(t, "check", "wait")
  /\ round = current_round[t]
  /\ barrier_mutex' = Nobody
  /\ UNCHANGED <<nthread, round, current_round, spurious, pvars>>

(* Past its loop, thread 0 goes on to phase_2 and the others leave.        *)
EnterPhase2(t) ==
  /\ t = 0
  /\ Goto(t, "check", "inside")
  /\ Phase2Begin(t)
  /\ UNCHANGED <<barrier_mutex, nthread, round, current_round, spurious>>

LeaveMonitor(t) ==
  /\ t # 0
  /\ Goto(t, "check", "unlock")
  /\ UNCHANGED <<barrier_mutex, nthread, round, current_round, spurious, pvars>>

(* Mutants of LeaveLoop0 and LeaveLoop: the round is not tested.           *)
LeaveLoop0Untested(t) == EnterPhase2(t)

LeaveLoopUntested(t) == LeaveMonitor(t)

LeaveLoop0(t) == round # current_round[t] /\ EnterPhase2(t)

LeaveLoop(t) == round # current_round[t] /\ LeaveMonitor(t)

(* After phase_2, still holding the mutex, thread 0 lets the others go.    *)
ReleaseOthersIn(t, new_round) ==
  /\ mpc[t] = "inside"
  /\ Phase2End(t, "sync2")
  /\ round' = new_round
  /\ Broadcast(t, "unlock", Threads \ {0})
  /\ UNCHANGED <<barrier_mutex, nthread, current_round, spurious>>

(* Mutant of ReleaseOthers: the round stays as it is.                      *)
ReleaseOthersSameRound(t) == ReleaseOthersIn(t, round)

ReleaseOthers(t) == ReleaseOthersIn(t, round + 1)

(* pthread_mutex_unlock; thread 0 is done, the others run phase_3.         *)
Unlock(t) ==
  /\ Goto(t, "unlock", "out")
  /\ barrier_mutex' = Nobody
  /\ tpc' = [tpc EXCEPT ![t] = IF t = 0 THEN "exited" ELSE "enter3"]
  /\ UNCHANGED <<nthread, round, current_round, spurious, i, locals, data,
                 mainvars>>

Compute(t) ==
  /\ Phase1Step(t) \/ Phase2Step(t) \/ Phase3Begin(t) \/ Phase3Step(t) \/ Phase3End(t)
  /\ UNCHANGED mvars

ThreadStep(t) ==
  \/ Compute(t)
  \/ EnterMonitor(t)
  \/ Lock(t)
  \/ Reacquire(t)
  \/ Arrive0Early(t)
  \/ Arrive0Last(t)
  \/ ArriveOther(t)
  \/ WaitAgain(t)
  \/ LeaveLoop0(t)
  \/ LeaveLoop(t)
  \/ ReleaseOthers(t)
  \/ Unlock(t)

MainStep == Main /\ UNCHANGED mvars

Terminated == verdict # "none" /\ UNCHANGED vars

Next ==
  \/ MainStep
  \/ \E t \in Threads : ThreadStep(t) \/ SpuriousWakeup(t)
  \/ Terminated

Safety == Init /\ [][Next]_vars

Spec == Safety /\ WF_vars(MainStep) /\ \A t \in Threads : WF_vars(ThreadStep(t))

-----------------------------------------------------------------------------
(* Thread 0 runs phase_2 alone in the monitor and after every thread has   *)
(* finished phase_1, spurious wakeups or not: its own loop is sound        *)
(* (badMonitor.c:124-136).                                                 *)
Phase2AfterPhase1 ==
  mpc[0] = "inside" =>
    /\ barrier_mutex = 0
    /\ \A t \in Threads : tpc[t] \notin {"unborn", "phase1"} /\ mpc[t] # "enter"

MonitorInv == TypeOK /\ Phase2AfterPhase1

(* The shared round goes wrong in one way only: a thread that arrived in   *)
(* an earlier round and was woken by nobody.  As long as no wait has       *)
(* returned spuriously, no thread is in phase_3 before phase_2 is over and *)
(* every item holds the right partial sum (badMonitor.c:5 and 146-156).    *)
CorrectUnlessSpurious ==
  spurious = 0 => PhaseData /\ NoDataRace /\ ResultMatches

(* The thread that arrived last noted the new round, so its loop holds it  *)
(* until thread 0 has finished phase_2, spurious wakeups or not; the other *)
(* threads noted the old round (badMonitor.c:143-156).                     *)
LastArrivalStays ==
  \A t \in Threads \ {0} :
    current_round[t] = 1 /\ tpc[t] \in {"enter3", "phase3", "exited"} =>
      tpc[0] \in {"sync2", "exited"}

(* How far it can go wrong: every thread that is past its loop before      *)
(* phase_2 is over has used up a spurious wakeup of its own, and thread 0  *)
(* and the thread that arrived last are never among them                   *)
(* (badMonitor.c:143-156).                                                 *)
OneSpuriousWakeupEach ==
  LET early == {t \in Threads \ {0} :
                  mpc[t] = "unlock" \/ tpc[t] \in {"enter3", "phase3", "exited"}}
  IN early # {} /\ tpc[0] \notin {"sync2", "exited"} =>
       Cardinality(early) <= spurious /\ Cardinality(early) <= NTHREADS - 2

(* main always gets to its report: no wakeup is lost between the two       *)
(* condition variables (badMonitor.c:121-158).                             *)
Termination == <>Reported
=============================================================================
