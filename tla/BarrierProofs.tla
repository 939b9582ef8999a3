---------------------------- MODULE BarrierProofs ----------------------------
(***************************************************************************)
(* The barrier is correct for every number of threads, of calls and of     *)
(* spurious wakeups: BarrierInv is inductive, NoOvertaking follows, and    *)
(* every step of the monitor is a step of PhaseBarrier or a stutter.       *)
(***************************************************************************)
EXTENDS Barrier, FiniteSetTheorems, TLAPS

(* The set of threads is finite and has NTHREADS members.                  *)
LEMMA ThreadsFinite ==
  /\ IsFiniteSet(Threads)
  /\ Cardinality(Threads) = NTHREADS
  /\ Nobody \notin Threads
BY ThreadsAssumption, BarrierAssumption, FS_Interval DEF Threads, Nobody

(* Initially nobody has been counted and no round is open for anyone.      *)
LEMMA InitInv == BarrierInit => BarrierInv
<1> SUFFICES ASSUME BarrierInit PROVE BarrierInv
  OBVIOUS
<1> USE ThreadsFinite, ThreadsAssumption, BarrierAssumption
<1>1. BarrierTypeOK
  BY DEF BarrierInit, BarrierTypeOK, Points
<1>2. MutexOwner /\ NoLostWakeup
  BY DEF BarrierInit, MutexOwner, NoLostWakeup, Holding
<1>3. \A t \in Threads : Counted(t) = 0 /\ ~Inside(t)
  BY DEF BarrierInit, Counted, Inside
<1>4. RoundCount
  <2>1. InRound(1) = {}
    BY <1>3 DEF InRound
  <2>2. QED
    BY <1>3, <2>1, FS_EmptySet DEF BarrierInit, RoundCount
<1>5. QED
  BY <1>1, <1>2, <1>4 DEF BarrierInv

(* A step that counts no arrival keeps RoundCount.                         *)
LEMMA SameCount ==
  ASSUME RoundCount,
         UNCHANGED <<nthread, round, current_round>>,
         \A t \in Threads : Counted(t)' = Counted(t),
         \A t \in Threads : Inside(t)' => Inside(t),
         \A t \in Threads : Inside(t) /\ current_round[t] = round => Inside(t)'
  PROVE  RoundCount'
<1>1. InRound(round + 1)' = InRound(round + 1)
  BY DEF InRound
<1>2. QED
  BY <1>1 DEF RoundCount

(* The last arrival finds every other thread counted in the open round.    *)
LEMMA EveryoneArrived ==
  ASSUME BarrierInv, NEW t \in Threads, bpc[t] = "enter", nthread + 1 = NTHREADS
  PROVE  \A u \in Threads \ {t} : Counted(u) = round + 1
<1> DEFINE S == InRound(round + 1)
<1>1. S \subseteq Threads /\ t \notin S
  BY DEF BarrierInv, RoundCount, Inside, InRound, BarrierTypeOK
<1>2. IsFiniteSet(S) /\ S \cup {t} \in SUBSET Threads
  BY <1>1, ThreadsFinite, FS_Subset
<1>3. Cardinality(S \cup {t}) = NTHREADS
  BY <1>1, <1>2, FS_AddElement DEF BarrierInv, RoundCount
<1>4. S \cup {t} = Threads
  BY <1>2, <1>3, ThreadsFinite, FS_Subset
<1>5. QED
  BY <1>4 DEF InRound

(* A step of one thread preserves the invariant: one lemma per action.     *)
LEMMA CallBarrierInv ==
  ASSUME BarrierInv, NEW t \in Threads, CallBarrier(t)
  PROVE  BarrierInv'
<1> USE DEF CallBarrier, Goto, BarrierInv
<1>1. BarrierTypeOK'
  BY DEF BarrierTypeOK, Points
<1>2. MutexOwner' /\ NoLostWakeup'
  BY DEF MutexOwner, NoLostWakeup, BarrierTypeOK, Holding
<1>3. RoundCount'
  BY SameCount DEF Counted, Inside, BarrierTypeOK
<1>4. QED
  BY <1>1, <1>2, <1>3

LEMMA AcquireInv ==
  ASSUME BarrierInv, NEW t \in Threads, Lock(t) \/ Reacquire(t)
  PROVE  BarrierInv'
<1> USE DEF Lock, Reacquire, Acquire, Goto, BarrierInv
<1>1. BarrierTypeOK'
  BY DEF BarrierTypeOK, Points
<1>2. MutexOwner' /\ NoLostWakeup'
  BY ThreadsFinite DEF MutexOwner, NoLostWakeup, BarrierTypeOK, Holding
<1>3. RoundCount'
  BY SameCount DEF Counted, Inside, BarrierTypeOK
<1>4. QED
  BY <1>1, <1>2, <1>3

LEMMA ArriveLastInv ==
  ASSUME BarrierInv, NEW t \in Threads, ArriveLast(t)
  PROVE  BarrierInv'
<1> USE DEF ArriveLast, BarrierInv
<1>1. BarrierTypeOK'
  BY ThreadsAssumption, BarrierAssumption DEF BarrierTypeOK, Points
<1>2. MutexOwner'
  BY DEF MutexOwner, BarrierTypeOK, Holding
<1>3. NoLostWakeup'
  BY DEF NoLostWakeup, BarrierTypeOK
<1>4. \A u \in Threads : Counted(u)' = round + 1
  <2>1. Counted(t)' = round + 1
    BY DEF Counted, Inside, RoundCount, BarrierTypeOK
  <2>2. \A u \in Threads \ {t} : Counted(u)' = Counted(u)
    BY DEF Counted, BarrierTypeOK
  <2>3. QED
    BY <2>1, <2>2, EveryoneArrived
<1>5. \A u \in Threads : Inside(u)' => Inside(u) /\ u # t
  BY DEF Inside, BarrierTypeOK
<1>6. \A u \in Threads \ {t} : Counted(u) = round + 1
  BY EveryoneArrived
<1>7. RoundCount'
  <2>1. InRound(round + 1)' = {}
    BY <1>4 DEF InRound, BarrierTypeOK
  <2>2. nthread' = Cardinality(InRound(round + 1)') /\ nthread' < NTHREADS
    BY <2>1, FS_EmptySet, ThreadsAssumption, BarrierAssumption
  <2>3. \A u \in Threads : Inside(u)' => current_round[u] = round
    BY <1>5, <1>6 DEF RoundCount, BarrierTypeOK
  <2>4. QED
    BY <1>4, <2>2, <2>3 DEF RoundCount, BarrierTypeOK
<1>8. QED
  BY <1>1, <1>2, <1>3, <1>7

LEMMA ArriveEarlyInv ==
  ASSUME BarrierInv, NEW t \in Threads, ArriveEarly(t)
  PROVE  BarrierInv'
<1> USE DEF ArriveEarly, Goto, BarrierInv
<1>1. BarrierTypeOK'
  BY ThreadsAssumption, BarrierAssumption DEF BarrierTypeOK, RoundCount, Points
<1>2. MutexOwner' /\ NoLostWakeup'
  BY ThreadsFinite DEF MutexOwner, NoLostWakeup, BarrierTypeOK, Holding
<1>3. RoundCount'
  <2>1. Counted(t) = round /\ Counted(t)' = round + 1 /\ Inside(t)'
    BY DEF Counted, Inside, RoundCount, BarrierTypeOK
  <2>2. \A u \in Threads \ {t} : /\ Counted(u)' = Counted(u)
                                 /\ Inside(u)' <=> Inside(u)
                                 /\ current_round'[u] = current_round[u]
    BY DEF Counted, Inside, BarrierTypeOK
  <2>3. InRound(round + 1)' = InRound(round + 1) \cup {t} /\ t \notin InRound(round + 1)
    BY <2>1, <2>2 DEF InRound, BarrierTypeOK
  <2>4. IsFiniteSet(InRound(round + 1))
    BY ThreadsFinite, FS_Subset DEF InRound
  <2>5. nthread' = Cardinality(InRound(round + 1)')
    BY <2>3, <2>4, FS_AddElement DEF RoundCount
  <2>6. nthread' < NTHREADS
    BY ThreadsAssumption, BarrierAssumption DEF RoundCount, BarrierTypeOK
  <2>7. QED
    BY <2>1, <2>2, <2>5, <2>6 DEF RoundCount, BarrierTypeOK
<1>4. QED
  BY <1>1, <1>2, <1>3

LEMMA SpuriousWakeupInv ==
  ASSUME BarrierInv, NEW t \in Threads, SpuriousWakeup(t)
  PROVE  BarrierInv'
<1> USE DEF SpuriousWakeup, Goto, BarrierInv
<1>1. BarrierTypeOK'
  BY ThreadsAssumption, BarrierAssumption DEF BarrierTypeOK, Points
<1>2. MutexOwner' /\ NoLostWakeup'
  BY DEF MutexOwner, NoLostWakeup, BarrierTypeOK, Holding
<1>3. RoundCount'
  BY SameCount DEF Counted, Inside, BarrierTypeOK
<1>4. QED
  BY <1>1, <1>2, <1>3

LEMMA RecheckInv ==
  ASSUME BarrierInv, NEW t \in Threads, WaitAgain(t) \/ LeaveLoop(t)
  PROVE  BarrierInv'
<1> USE DEF WaitAgain, LeaveLoop, Goto, BarrierInv
<1>1. BarrierTypeOK'
  BY DEF BarrierTypeOK, Points
<1>2. MutexOwner' /\ NoLostWakeup'
  BY ThreadsFinite DEF MutexOwner, NoLostWakeup, BarrierTypeOK, Holding
<1>3. RoundCount'
  BY SameCount DEF Counted, Inside, BarrierTypeOK
<1>4. QED
  BY <1>1, <1>2, <1>3

LEMMA UnlockInv ==
  ASSUME BarrierInv, NEW t \in Threads, Unlock(t)
  PROVE  BarrierInv'
<1> USE DEF Unlock, Goto, BarrierInv
<1>1. BarrierTypeOK'
  BY DEF BarrierTypeOK, Points
<1>2. MutexOwner' /\ NoLostWakeup'
  BY ThreadsFinite DEF MutexOwner, NoLostWakeup, BarrierTypeOK, Holding
<1>3. RoundCount'
  BY SameCount DEF Counted, Inside, BarrierTypeOK
<1>4. QED
  BY <1>1, <1>2, <1>3

LEMMA NextInv == BarrierInv /\ [BarrierNext]_bvars => BarrierInv'
<1> SUFFICES ASSUME BarrierInv, [BarrierNext]_bvars PROVE BarrierInv'
  OBVIOUS
<1>1. CASE BarrierNext
  <2> PICK t \in Threads : CallBarrier(t) \/ BarrierStep(t) \/ SpuriousWakeup(t)
    BY <1>1 DEF BarrierNext
  <2>1. CASE CallBarrier(t)             BY <2>1, CallBarrierInv
  <2>2. CASE Lock(t) \/ Reacquire(t)    BY <2>2, AcquireInv
  <2>3. CASE ArriveLast(t)              BY <2>3, ArriveLastInv
  <2>4. CASE ArriveEarly(t)             BY <2>4, ArriveEarlyInv
  <2>5. CASE SpuriousWakeup(t)          BY <2>5, SpuriousWakeupInv
  <2>6. CASE WaitAgain(t) \/ LeaveLoop(t)  BY <2>6, RecheckInv
  <2>7. CASE Unlock(t)                  BY <2>7, UnlockInv
  <2>8. QED
    BY <2>1, <2>2, <2>3, <2>4, <2>5, <2>6, <2>7 DEF BarrierStep
<1>2. CASE UNCHANGED bvars
  BY <1>2 DEF bvars, BarrierInv, BarrierTypeOK, MutexOwner, NoLostWakeup,
              RoundCount, InRound, Counted, Inside
<1>3. QED
  BY <1>1, <1>2

(* BarrierInv holds in every reachable state: the mutex excludes, nthread  *)
(* counts the open round, and no waiter misses its broadcast               *)
(* (s2768394.c:188-212).                                                   *)
THEOREM BarrierInvariant == BarrierSafety => []BarrierInv
BY InitInv, NextInv, PTL DEF BarrierSafety

(* What the count says of the calls: a thread that is past k barriers has  *)
(* seen round reach k, and then everyone has called the barrier k times.   *)
LEMMA PassedBound ==
  ASSUME BarrierInv, NEW t \in Threads
  PROVE  Passed(t) <= round /\ round <= calls[t]
BY DEF BarrierInv, BarrierTypeOK, RoundCount, Passed, Counted, Inside, Points

(* No thread overtakes another by a barrier (s2768394.c:135, 141, 188-212).*)
THEOREM BarrierNoOvertaking == BarrierSafety => []NoOvertaking
<1>1. BarrierInv => NoOvertaking
  <2> SUFFICES ASSUME BarrierInv, NEW t \in Threads, NEW u \in Threads
               PROVE  Passed(t) <= calls[u]
    BY DEF NoOvertaking
  <2>1. Passed(t) \in Int /\ calls[u] \in Int /\ round \in Int
    BY DEF BarrierInv, BarrierTypeOK, Passed
  <2>2. QED
    BY <2>1, PassedBound
<1>2. QED
  BY <1>1, BarrierInvariant, PTL

-----------------------------------------------------------------------------
(* The monitor implements PhaseBarrier: a call of barrier() arrives, the   *)
(* unlock departs, and every step in between is a stutter.                 *)
LEMMA InitRefines == BarrierInit => Phases!Init
<1> SUFFICES ASSUME BarrierInit PROVE Phases!Init
  OBVIOUS
<1>1. \A t \in Threads : Passed(t) = 0
  BY DEF BarrierInit, Passed
<1>2. QED
  BY <1>1 DEF BarrierInit, Phases!Init

LEMMA CallRefines ==
  ASSUME BarrierInv, NEW t \in Threads, CallBarrier(t)
  PROVE  Phases!Arrive(t)
<1> USE DEF CallBarrier, Goto, BarrierInv, BarrierTypeOK, Passed
<1>1. Passed(t) = calls[t] /\ calls' = [calls EXCEPT ![t] = @ + 1]
  OBVIOUS
<1>2. \A u \in Threads : Passed(u)' = Passed(u)
  OBVIOUS
<1>3. [u \in Threads |-> Passed(u)]' = [u \in Threads |-> Passed(u)]
  BY <1>2
<1>4. QED
  BY <1>1, <1>3 DEF Phases!Arrive

LEMMA UnlockRefines ==
  ASSUME BarrierInv, NEW t \in Threads, Unlock(t)
  PROVE  Phases!Depart(t)
<1> USE DEF Unlock, Goto
<1>1. calls' = calls /\ Passed(t) # calls[t]
  BY DEF BarrierInv, BarrierTypeOK, Passed
<1>2. \A u \in Threads : calls[t] <= calls[u]
  <2>1. calls[t] = round
    BY DEF BarrierInv, BarrierTypeOK, RoundCount, Counted, Inside
  <2>2. QED
    BY <2>1, PassedBound
<1>3. \A u \in Threads : Passed(u)' = IF u = t THEN Passed(u) + 1 ELSE Passed(u)
  BY DEF BarrierInv, BarrierTypeOK, Passed
<1>4. [u \in Threads |-> Passed(u)]' =
        [[u \in Threads |-> Passed(u)] EXCEPT ![t] = @ + 1]
  BY <1>3
<1>5. QED
  BY <1>1, <1>2, <1>4 DEF Phases!Depart

LEMMA InternalRefines ==
  ASSUME BarrierInv, NEW t \in Threads,
         \/ Lock(t)        \/ Reacquire(t)  \/ ArriveLast(t) \/ ArriveEarly(t)
         \/ WaitAgain(t)   \/ LeaveLoop(t)  \/ SpuriousWakeup(t)
  PROVE  UNCHANGED Phases!vars
<1> USE DEF Lock, Reacquire, Acquire, ArriveLast, ArriveEarly, WaitAgain,
            LeaveLoop, SpuriousWakeup, Goto, BarrierInv, BarrierTypeOK
<1>1. calls' = calls
  OBVIOUS
<1>2. \A u \in Threads : bpc[u] = "out" <=> bpc'[u] = "out"
  OBVIOUS
<1>3. \A u \in Threads : Passed(u)' = Passed(u)
  BY <1>1, <1>2 DEF Passed
<1>4. QED
  BY <1>1, <1>3 DEF Phases!vars

LEMMA NextRefines == BarrierInv /\ [BarrierNext]_bvars => [Phases!Next]_Phases!vars
<1> SUFFICES ASSUME BarrierInv, [BarrierNext]_bvars
             PROVE  [Phases!Next]_Phases!vars
  OBVIOUS
<1>1. CASE BarrierNext
  <2> PICK t \in Threads : CallBarrier(t) \/ BarrierStep(t) \/ SpuriousWakeup(t)
    BY <1>1 DEF BarrierNext
  <2>1. CASE CallBarrier(t)  BY <2>1, CallRefines DEF Phases!Next
  <2>2. CASE Unlock(t)       BY <2>2, UnlockRefines DEF Phases!Next
  <2>3. CASE (BarrierStep(t) /\ ~Unlock(t)) \/ SpuriousWakeup(t)
    BY <2>3, InternalRefines DEF BarrierStep
  <2>4. QED
    BY <2>1, <2>2, <2>3
<1>2. CASE UNCHANGED bvars
  BY <1>2 DEF bvars, Phases!vars, Passed
<1>3. QED
  BY <1>1, <1>2

(* The monitor of s2768394.c:182-212 is a barrier: whatever its threads    *)
(* do, PhaseBarrier allows it.                                             *)
THEOREM BarrierRefinement == BarrierSafety => Phases!Safety
BY InitRefines, NextRefines, BarrierInvariant, PTL DEF BarrierSafety, Phases!Safety
=============================================================================
