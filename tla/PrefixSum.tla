------------------------------ MODULE PrefixSum ------------------------------
(***************************************************************************)
(* prefix-sum/s2768394.c: the three phases of PrefixPhases with a call of  *)
(* the barrier of module Barrier after phase 1 and after phase 2.          *)
(***************************************************************************)
EXTENDS PrefixPhases, Barrier

(* thread() calls barrier() twice (lines 135 and 141).                     *)
ASSUME CallsAssumption == Calls = 2

vars == <<pvars, bvars>>

Init == PhasesInit /\ BarrierInit

-----------------------------------------------------------------------------
(* thread(): phase_1, barrier                                              *)
EnterBarrier1(t) == Phase1End(t) /\ CallBarrier(t)

(* Mutant of StartPhase2: thread 0 does not wait for the others.           *)
StartPhase2Early(t) ==
  /\ t = 0
  /\ Phase2Begin(t)
  /\ UNCHANGED bvars

(* back from the first barrier: thread 0 runs phase_2                      *)
StartPhase2(t) ==
  /\ t = 0
  /\ bpc[t] = "out"
  /\ Phase2Begin(t)
  /\ UNCHANGED bvars

(* and the others go straight to the second barrier, as thread 0 does      *)
(* after phase_2                                                           *)
SkipPhase2(t) ==
  /\ t # 0
  /\ Move(t, "sync1", "sync2")
  /\ CallBarrier(t)
  /\ UNCHANGED <<i, locals, data, mainvars>>

EnterBarrier2(t) == Phase2End(t, "sync2") /\ CallBarrier(t)

(* Mutant of StartPhase3: thread 0 runs phase_3 as well.                   *)
StartPhase3All(t) ==
  /\ bpc[t] = "out"
  /\ Move(t, "sync2", "enter3")
  /\ UNCHANGED <<i, locals, data, mainvars, bvars>>

(* back from the second barrier: thread 0 is done, the others run phase_3  *)
StartPhase3(t) ==
  /\ bpc[t] = "out"
  /\ Move(t, "sync2", IF t = 0 THEN "exited" ELSE "enter3")
  /\ UNCHANGED <<i, locals, data, mainvars, bvars>>

Compute(t) ==
  /\ Phase1Step(t) \/ Phase2Step(t) \/ Phase3Begin(t) \/ Phase3Step(t) \/ Phase3End(t)
  /\ UNCHANGED bvars

ThreadStep(t) ==
  \/ Compute(t)
  \/ EnterBarrier1(t)
  \/ StartPhase2(t)
  \/ SkipPhase2(t)
  \/ EnterBarrier2(t)
  \/ StartPhase3(t)
  \/ BarrierStep(t) /\ UNCHANGED pvars

MainStep == Main /\ UNCHANGED bvars

WakeSpuriously(t) == SpuriousWakeup(t) /\ UNCHANGED pvars

Terminated == verdict # "none" /\ UNCHANGED vars

Next ==
  \/ MainStep
  \/ \E t \in Threads : ThreadStep(t)
  \/ \E t \in Threads : WakeSpuriously(t)
  \/ Terminated

(* Every thread that can run is eventually run; nothing more.              *)
Fairness == WF_vars(MainStep) /\ \A t \in Threads : WF_vars(ThreadStep(t))

Safety == Init /\ [][Next]_vars

Spec == Safety /\ Fairness

-----------------------------------------------------------------------------
(* The calls of barrier() a thread has made, by the phase it is in; only   *)
(* at sync1 and sync2 may it be inside.                                    *)
CallsMade ==
  \A t \in Threads :
    /\ tpc[t] \in {"unborn", "phase1"} => calls[t] = 0
    /\ tpc[t] \in {"sync1", "phase2"} => calls[t] = 1
    /\ tpc[t] \in {"sync2", "enter3", "phase3", "exited"} => calls[t] = 2
    /\ bpc[t] # "out" => tpc[t] \in {"sync1", "sync2"}

(* The inductive invariant of the program: of the data, of the barrier,    *)
(* and that the phases follow the calls of the barrier (s2768394.c:130-212)*)
PrefixInv == PhasesInv /\ BarrierInv /\ CallsMade

(* No input is added to an item twice, by whichever thread and in whichever*)
(* phase, and an item that has its final sum is never written again: others*)
(* may have read it (s2768394.c:149-180).                                  *)
NothingAddedTwice == [][ExtendsSums]_data

(* The program ends, whatever the schedule and the spurious wakeups, and   *)
(* reports that the parallel and the sequential sums match: no thread is   *)
(* left in the barrier, and phase 3 completes what phases 1 and 2 began    *)
(* (s2768394.c:125-127, 243-249).                                          *)
ReportsMatch == <>(verdict = "match")
=============================================================================
