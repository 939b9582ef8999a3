---------------------------- MODULE PrefixSumProofs ----------------------------
(***************************************************************************)
(* The parallel prefix sum of s2768394.c for every NITEMS and NTHREADS:    *)
(* its threads use the barrier as module Barrier says, so what is proved   *)
(* of the barrier holds in the program; the barrier orders the phases;     *)
(* ordered phases do not race and compute the prefix sums.                 *)
(***************************************************************************)
EXTENDS PrefixSum, PrefixPhasesProofs, BarrierProofs

(* A thread in or after phase 2 is past the first barrier, one in phase 3  *)
(* past the second; nobody is past a barrier that another has not called.  *)
LEMMA BarrierOrdersPhases ==
  ASSUME PrefixInv
  PROVE  PhasesOrdered
<1> USE DEF PrefixInv, PhasesInv
<1>1. ASSUME NEW t \in Threads, NEW u \in Threads
      PROVE  Passed(t) <= calls[u] /\ Passed(t) \in Int /\ calls[u] \in Int
  BY PassedBound DEF BarrierInv, BarrierTypeOK, Passed
<1>2. ASSUME NEW t \in Threads, NEW u \in Threads,
             tpc[t] \in {"phase2", "sync2", "enter3", "phase3", "exited"}
      PROVE  tpc[u] \notin {"unborn", "phase1"}
  <2>1. Passed(t) >= 1
    BY <1>2 DEF CallsMade, Passed
  <2>2. calls[u] >= 1
    BY <1>1, <2>1
  <2>3. QED
    BY <2>2 DEF CallsMade
<1>3. ASSUME NEW t \in Threads \ {0}, tpc[t] \in {"enter3", "phase3", "exited"}
      PROVE  tpc[0] \in {"sync2", "exited"}
  <2>1. 0 \in Threads
    BY SliceBounds DEF Threads
  <2>2. Passed(t) = 2
    BY <1>3 DEF CallsMade, Passed
  <2>3. calls[0] >= 2
    BY <1>1, <2>1, <2>2
  <2>4. tpc[0] \in PhaseNames /\ tpc[0] \notin {"enter3", "phase3"}
    BY <2>1 DEF PhasesTypeOK, PhaseRanges
  <2>5. QED
    BY <2>1, <2>3, <2>4 DEF CallsMade, PhaseNames
<1>4. QED
  BY <1>2, <1>3 DEF PhasesOrdered

LEMMA PrefixInitInv == Init => PrefixInv
<1> SUFFICES ASSUME Init PROVE PrefixInv
  OBVIOUS
<1>1. PhasesInv /\ BarrierInv
  BY PhasesInitInv, InitInv DEF Init
<1>2. CallsMade
  BY DEF CallsMade, Init, PhasesInit, BarrierInit
<1>3. QED
  BY <1>1, <1>2 DEF PrefixInv

(* The steps of a thread that call the barrier, with the call they make.   *)
LEMMA CallsAllowed ==
  ASSUME PrefixInv, NEW t \in Threads,
         EnterBarrier1(t) \/ SkipPhase2(t) \/ EnterBarrier2(t)
  PROVE  CallBarrier(t) /\ calls[t] < Calls
<1> USE CallsAssumption DEF PrefixInv, CallsMade
<1>1. CASE EnterBarrier1(t)
  BY <1>1 DEF EnterBarrier1, Phase1End, Move
<1>2. CASE SkipPhase2(t)
  BY <1>2 DEF SkipPhase2, Move
<1>3. CASE EnterBarrier2(t)
  BY <1>3 DEF EnterBarrier2, Phase2End, Move
<1>4. QED
  BY <1>1, <1>2, <1>3

(* Every step of the program is a step of the barrier or leaves it alone.  *)
LEMMA NextUsesBarrier ==
  ASSUME PrefixInv, [Next]_vars
  PROVE  [BarrierNext]_bvars
<1>1. CASE MainStep
  BY <1>1 DEF MainStep
<1>2. ASSUME NEW t \in Threads, ThreadStep(t) PROVE [BarrierNext]_bvars
  <2>1. CASE EnterBarrier1(t) \/ SkipPhase2(t) \/ EnterBarrier2(t)
    BY <2>1, CallsAllowed DEF BarrierNext
  <2>2. CASE Compute(t) \/ StartPhase2(t) \/ StartPhase3(t)
    BY <2>2 DEF Compute, StartPhase2, StartPhase3, bvars
  <2>3. CASE BarrierStep(t)
    BY <2>3 DEF BarrierNext
  <2>4. QED
    BY <1>2, <2>1, <2>2, <2>3 DEF ThreadStep
<1>3. ASSUME NEW t \in Threads, WakeSpuriously(t) PROVE [BarrierNext]_bvars
  BY <1>3 DEF WakeSpuriously, BarrierNext
<1>4. CASE UNCHANGED vars
  BY <1>4 DEF vars
<1>5. QED
  BY <1>1, <1>2, <1>3, <1>4 DEF Next, Terminated

(* Every step of the program keeps the data right.                         *)
LEMMA NextKeepsData ==
  ASSUME PrefixInv, [Next]_vars
  PROVE  PhasesInv'
<1> USE DEF PrefixInv
<1>1. CASE MainStep
  BY <1>1, BarrierOrdersPhases, CreateThreadInv, JoinThreadInv, CheckResultInv
     DEF MainStep, Main
<1>2. ASSUME NEW t \in Threads, ThreadStep(t) PROVE PhasesInv'
  <2>1. CASE Compute(t)
    BY <2>1, BarrierOrdersPhases, Phase1StepInv, Phase2StepInv, Phase3BeginInv,
       Phase3StepInv, Phase3EndInv DEF Compute
  <2>2. CASE EnterBarrier1(t)
    BY <2>2, Phase1EndInv DEF EnterBarrier1
  <2>3. CASE StartPhase2(t)
    BY <2>3, Phase2BeginInv DEF StartPhase2
  <2>4. CASE SkipPhase2(t)
    BY <2>4, MoveOnInv DEF SkipPhase2
  <2>5. CASE EnterBarrier2(t)
    BY <2>5, Phase2EndInv DEF EnterBarrier2
  <2>6. CASE StartPhase3(t)
    BY <2>6, MoveOnInv DEF StartPhase3
  <2>7. CASE UNCHANGED pvars
    BY <2>7, PhasesStutterInv
  <2>8. QED
    BY <1>2, <2>1, <2>2, <2>3, <2>4, <2>5, <2>6, <2>7 DEF ThreadStep
<1>3. ASSUME NEW t \in Threads, WakeSpuriously(t) PROVE PhasesInv'
  BY <1>3, PhasesStutterInv DEF WakeSpuriously
<1>4. CASE UNCHANGED vars
  BY <1>4, PhasesStutterInv DEF vars
<1>5. QED
  BY <1>1, <1>2, <1>3, <1>4 DEF Next, Terminated

(* A step inside barrier() calls nothing and takes nobody into it.         *)
LEMMA InsideKeepsCalls ==
  ASSUME PrefixInv, NEW t \in Threads, BarrierStep(t) \/ SpuriousWakeup(t)
  PROVE  /\ calls' = calls
         /\ \A u \in Threads : bpc'[u] # "out" => bpc[u] # "out"
<1> USE DEF PrefixInv, BarrierInv, BarrierTypeOK
<1>1. CASE ArriveLast(t)
  BY <1>1 DEF ArriveLast
<1>2. CASE \/ Lock(t)      \/ Reacquire(t) \/ ArriveEarly(t) \/ WaitAgain(t)
           \/ LeaveLoop(t) \/ Unlock(t)    \/ SpuriousWakeup(t)
  BY <1>2 DEF Lock, Reacquire, Acquire, ArriveEarly, WaitAgain, LeaveLoop, Unlock,
              SpuriousWakeup, Goto
<1>3. QED
  BY <1>1, <1>2 DEF BarrierStep

(* Every step of the program keeps phases and calls in step.               *)
LEMMA NextKeepsCalls ==
  ASSUME PrefixInv, [Next]_vars
  PROVE  CallsMade'
<1> USE DEF PrefixInv, PhasesInv, PhasesTypeOK, BarrierInv, BarrierTypeOK, CallsMade, Move
<1>1. CASE MainStep
  BY <1>1 DEF MainStep, Main, CreateThread, JoinThread, CheckResult, bvars
<1>2. ASSUME NEW t \in Threads, ThreadStep(t) PROVE CallsMade'
  <2>1. CASE Compute(t)
    BY <2>1 DEF Compute, bvars, Phase1Step, Phase2Step, Phase3Begin, Phase3Step, Phase3End
  <2>2. CASE EnterBarrier1(t) \/ SkipPhase2(t) \/ EnterBarrier2(t)
    BY <2>2 DEF EnterBarrier1, SkipPhase2, EnterBarrier2, Phase1End, Phase2End,
                CallBarrier, Goto
  <2>3. CASE StartPhase2(t) \/ StartPhase3(t)
    BY <2>3 DEF StartPhase2, StartPhase3, Phase2Begin, bvars
  <2>4. CASE BarrierStep(t) /\ UNCHANGED pvars
    BY <2>4, InsideKeepsCalls DEF pvars
  <2>5. QED
    BY <1>2, <2>1, <2>2, <2>3, <2>4 DEF ThreadStep
<1>3. ASSUME NEW t \in Threads, WakeSpuriously(t) PROVE CallsMade'
  BY <1>3, InsideKeepsCalls DEF WakeSpuriously, pvars
<1>4. CASE UNCHANGED vars
  BY <1>4 DEF vars, pvars, bvars
<1>5. QED
  BY <1>1, <1>2, <1>3, <1>4 DEF Next, Terminated

LEMMA PrefixNextInv == PrefixInv /\ [Next]_vars => PrefixInv'
<1> SUFFICES ASSUME PrefixInv, [Next]_vars PROVE PrefixInv'
  OBVIOUS
<1>1. BarrierInv'
  BY NextUsesBarrier, NextInv DEF PrefixInv
<1>2. QED
  BY <1>1, NextKeepsData, NextKeepsCalls DEF PrefixInv

(* The program keeps its invariant (s2768394.c:130-212), for all sizes.    *)
THEOREM PrefixInvariant == Safety => []PrefixInv
BY PrefixInitInv, PrefixNextInv, PTL DEF Safety

(* It is a user of the barrier: all that is proved of the barrier holds in *)
(* it (s2768394.c:130-145, 182-212).                                       *)
THEOREM PrefixUsesBarrier == Safety => BarrierSafety
<1>1. Init => BarrierInit
  BY DEF Init
<1>2. PrefixInv /\ [Next]_vars => [BarrierNext]_bvars
  BY NextUsesBarrier
<1>3. QED
  BY <1>1, <1>2, PrefixInvariant, PTL DEF Safety, BarrierSafety

(* In it, too, nobody comes back from a call before all have made it       *)
(* (s2768394.c:135, 141).                                                  *)
THEOREM PrefixImplementsBarrier == Safety => Phases!Safety
BY PrefixUsesBarrier, BarrierRefinement, PTL

(* The barriers are enough to do without a lock on data                    *)
(* (s2768394.c:130-180).                                                   *)
THEOREM PrefixNoDataRace == Safety => []NoDataRace
<1>1. PrefixInv => NoDataRace
  BY BarrierOrdersPhases, OrderedPhasesDoNotRace DEF PrefixInv, PhasesInv
<1>2. QED
  BY <1>1, PrefixInvariant, PTL

(* The steps that write data are those of the three phases, and each of    *)
(* them extends a sum.                                                     *)
LEMMA NextExtendsSums ==
  ASSUME PrefixInv, [Next]_vars
  PROVE  [ExtendsSums]_data
<1> USE DEF PrefixInv
<1>1. CASE MainStep
  BY <1>1 DEF MainStep, Main, CreateThread, JoinThread, CheckResult
<1>2. ASSUME NEW t \in Threads, ThreadStep(t) PROVE [ExtendsSums]_data
  <2>1. CASE Compute(t)
    BY <2>1, BarrierOrdersPhases, Phase1StepInv, Phase2StepInv, Phase3StepInv
       DEF Compute, Phase3Begin, Phase3End
  <2>2. CASE EnterBarrier1(t) \/ SkipPhase2(t) \/ EnterBarrier2(t)
    BY <2>2 DEF EnterBarrier1, SkipPhase2, EnterBarrier2, Phase1End, Phase2End
  <2>3. CASE StartPhase2(t) \/ StartPhase3(t)
    BY <2>3 DEF StartPhase2, StartPhase3, Phase2Begin
  <2>4. CASE UNCHANGED pvars
    BY <2>4 DEF pvars
  <2>5. QED
    BY <1>2, <2>1, <2>2, <2>3, <2>4 DEF ThreadStep
<1>3. CASE UNCHANGED pvars
  BY <1>3 DEF pvars
<1>4. QED
  BY <1>1, <1>2, <1>3 DEF Next, WakeSpuriously, Terminated, vars

(* No item is given an input twice or written when it is final             *)
(* (s2768394.c:149-180), for all sizes.                                    *)
THEOREM PrefixAddsOnce == Safety => NothingAddedTwice
<1>1. PrefixInv /\ [Next]_vars => [ExtendsSums]_data
  BY NextExtendsSums
<1>2. QED
  BY <1>1, PrefixInvariant, PTL DEF Safety, NothingAddedTwice

(* main never reports a difference from the sequential prefix sum          *)
(* (s2768394.c:243-249).                                                   *)
THEOREM PrefixResultMatches == Safety => []ResultMatches
<1>1. PrefixInv => ResultMatches
  BY DEF PrefixInv, PhasesInv
<1>2. QED
  BY <1>1, PrefixInvariant, PTL

(* With an item for every thread no thread leaves the array, whatever the  *)
(* number of threads (s2768394.c:149-180).                                 *)
THEOREM PrefixIndicesInBounds == Safety => []IndicesInBounds
<1>1. PrefixInv => IndicesInBounds
  BY OrderedIsSane, SensibleIndices DEF PrefixInv
<1>2. QED
  BY <1>1, PrefixInvariant, PTL
=============================================================================
