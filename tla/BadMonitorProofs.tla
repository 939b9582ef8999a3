--------------------------- MODULE BadMonitorProofs ---------------------------
(***************************************************************************)
(* badMonitor.c for every NITEMS, NTHREADS and number of spurious wakeups: *)
(* what its monitor guarantees although two condition variables share one  *)
(* round.  It orders the phases as long as nothing wakes spuriously, so    *)
(* the lemmas about ordered phases apply; each spurious wakeup lets one    *)
(* thread go early, and never thread 0 or the one that arrived last.       *)
(***************************************************************************)
EXTENDS BadMonitor, PrefixPhasesProofs, FiniteSetTheorems

-----------------------------------------------------------------------------
(* The inductive invariant of the monitor                                  *)
MonitorTypeOK ==
  /\ tpc \in [Threads -> PhaseNames]
  /\ created \in 0 .. NTHREADS
  /\ barrier_mutex \in Threads \cup {Nobody}
  /\ nthread \in Nat
  /\ round \in 0 .. 2
  /\ current_round \in [Threads -> 0 .. 1]
  /\ mpc \in [Threads -> Points]
  /\ spurious \in Nat

(* What a thread does in its program when it is at a point of the monitor  *)
Places ==
  \A t \in Threads :
    /\ mpc[t] = "out" => tpc[t] \in {"unborn", "phase1", "enter3", "phase3", "exited"}
    /\ mpc[t] \in {"lock", "enter", "wait", "woken", "check"} => tpc[t] = "sync1"
    /\ mpc[t] = "inside" => t = 0 /\ tpc[t] = "phase2"
    /\ mpc[t] = "unlock" => tpc[t] = IF t = 0 THEN "sync2" ELSE "sync1"
    /\ tpc[t] \in {"enter3", "phase3"} => t # 0

MutexOwner == \A t \in Threads : mpc[t] \in Holding <=> barrier_mutex = t

(* nthread counts the threads that have arrived.                           *)
Arrived ==
  {t \in Threads : tpc[t] \notin {"unborn", "phase1"} /\ mpc[t] \notin {"lock", "enter"}}

(* Phase 2 is over.                                                        *)
Released == tpc[0] \in {"sync2", "exited"}

(* A new round begins when all have arrived, and when phase 2 is over.     *)
Rounds ==
  /\ nthread = Cardinality(Arrived)
  /\ round > 0 \/ Released \/ tpc[0] = "phase2" => nthread = NTHREADS
  /\ round = 2 => Released
  /\ Released => round > 0
  /\ current_round[0] = 0
  /\ \A t \in Threads \ {0} :
       /\ current_round[t] <= round
       /\ Released => current_round[t] < round /\ mpc[t] # "wait"
  /\ round = 1 /\ ~Released => \E t \in Threads \ {0} : current_round[t] = 1

(* Threads that are past their loop, and those that may be at any time     *)
Past(t) == mpc[t] = "unlock" \/ tpc[t] \in {"enter3", "phase3", "exited"}

Awake == {t \in Threads \ {0} : mpc[t] \in {"woken", "check"} \/ Past(t)}

(* Before phase 2 is over each thread that is awake has been woken by no   *)
(* other, and one that is past its loop noted the old round.               *)
Wakeups ==
  ~Released =>
    /\ Cardinality(Awake) <= spurious
    /\ \A t \in Threads \ {0} : Past(t) => current_round[t] = 0 /\ round = 1

MInv == MonitorTypeOK /\ Places /\ MutexOwner /\ Rounds /\ Wakeups

(* As long as no wait has returned spuriously the data are right as well.  *)
IInv == MInv /\ (spurious = 0 => PhasesInv)

-----------------------------------------------------------------------------
LEMMA ThreadsFinite ==
  /\ NTHREADS \in Nat /\ NTHREADS >= 1 /\ 0 \in Threads
  /\ IsFiniteSet(Threads) /\ Cardinality(Threads) = NTHREADS
<1>1. NTHREADS \in Nat /\ NTHREADS >= 1
  BY ThreadsAssumption
<1>2. 0 \in Threads
  BY <1>1 DEF Threads
<1>3. IsFiniteSet(Threads) /\ Cardinality(Threads) = NTHREADS
  BY <1>1, FS_Interval DEF Threads
<1>4. QED
  BY <1>1, <1>2, <1>3

LEMMA ArrivedFinite == IsFiniteSet(Arrived) /\ Cardinality(Arrived) \in Nat
<1>1. Arrived \subseteq Threads
  BY DEF Arrived
<1>2. QED
  BY <1>1, ThreadsFinite, FS_Subset, FS_CardinalityType

LEMMA AwakeFinite == IsFiniteSet(Awake) /\ Cardinality(Awake) \in Nat
<1>1. Awake \subseteq Threads
  BY DEF Awake
<1>2. QED
  BY <1>1, ThreadsFinite, FS_Subset, FS_CardinalityType

(* When nthread has reached NTHREADS, every thread has arrived.            *)
LEMMA EveryoneArrived ==
  ASSUME MInv, nthread = NTHREADS
  PROVE  Arrived = Threads
<1>1. Arrived \subseteq Threads
  BY DEF Arrived
<1>2. Cardinality(Arrived) = Cardinality(Threads)
  BY ThreadsFinite DEF MInv, Rounds
<1>3. QED
  BY <1>1, <1>2, ThreadsFinite, FS_Subset

(* One that has not arrived holds everything in the first round.           *)
LEMMA StillArriving ==
  ASSUME MInv, NEW t \in Threads, mpc[t] = "enter"
  PROVE  /\ nthread # NTHREADS /\ round = 0 /\ ~Released /\ tpc[0] # "phase2"
         /\ tpc[t] = "sync1" /\ barrier_mutex = t
         /\ \A u \in Threads : current_round[u] = 0
         /\ \A u \in Threads \ {0} : ~Past(u)
<1>1. t \notin Arrived
  BY DEF Arrived
<1>2. nthread # NTHREADS
  BY <1>1, EveryoneArrived
<1>3. round = 0 /\ ~Released /\ tpc[0] # "phase2"
  BY <1>2 DEF MInv, Rounds, MonitorTypeOK
<1>4. tpc[t] = "sync1" /\ barrier_mutex = t
  BY DEF MInv, Places, MutexOwner, Holding
<1>5. \A u \in Threads : current_round[u] = 0
  BY <1>3 DEF MInv, Rounds, MonitorTypeOK
<1>6. \A u \in Threads \ {0} : ~Past(u)
  BY <1>3 DEF MInv, Wakeups
<1>7. QED
  BY <1>2, <1>3, <1>4, <1>5, <1>6

(* The arrival of t is counted.                                            *)
LEMMA ArrivalCounted ==
  ASSUME MInv, NEW t \in Threads, mpc[t] = "enter",
         nthread' = nthread + 1, Arrived' = Arrived \cup {t}
  PROVE  nthread' = Cardinality(Arrived)' /\ nthread' \in Nat
<1>1. t \notin Arrived
  BY DEF Arrived
<1>2. Cardinality(Arrived \cup {t}) = Cardinality(Arrived) + 1
  BY <1>1, ArrivedFinite, FS_AddElement
<1>3. nthread = Cardinality(Arrived)
  BY DEF MInv, Rounds
<1>4. QED
  BY <1>2, <1>3, ArrivedFinite

(* No more threads are awake, and as many wakeups have been spurious.      *)
LEMMA FewerAwake ==
  ASSUME MInv, ~Released, Awake' \subseteq Awake, spurious' = spurious
  PROVE  Cardinality(Awake)' <= spurious'
<1>1. Cardinality(Awake)' <= Cardinality(Awake)
  BY AwakeFinite, FS_Subset
<1>2. Cardinality(Awake) <= spurious /\ spurious \in Nat
  BY DEF MInv, Wakeups, MonitorTypeOK
<1>3. IsFiniteSet(Awake') /\ Cardinality(Awake)' \in Nat
  BY AwakeFinite, FS_Subset, FS_CardinalityType
<1>4. QED
  BY <1>1, <1>2, <1>3, AwakeFinite

-----------------------------------------------------------------------------
LEMMA MonitorInitInv == Init => MInv
<1> SUFFICES ASSUME Init PROVE MInv
  OBVIOUS
<1> USE DEF Init, PhasesInit
<1>1. MonitorTypeOK
  BY ThreadsFinite DEF MonitorTypeOK, PhaseNames, Points
<1>2. Places /\ MutexOwner
  BY DEF Places, MutexOwner, Holding, Nobody, Threads
<1>3. Arrived = {} /\ Awake = {}
  BY DEF Arrived, Awake, Past
<1>4. Rounds
  BY <1>3, FS_EmptySet, ThreadsFinite DEF Rounds, Released
<1>5. Wakeups
  BY <1>3, FS_EmptySet DEF Wakeups, Past
<1>6. QED
  BY <1>1, <1>2, <1>4, <1>5 DEF MInv

(* What most steps have in common: they count nothing and open no round.   *)
LEMMA QuietStepInv ==
  ASSUME MInv, MonitorTypeOK', Places', MutexOwner',
         UNCHANGED <<nthread, round, current_round, spurious>>,
         Arrived' = Arrived, Awake' \subseteq Awake,
         Released' <=> Released,
         tpc'[0] = "phase2" => tpc[0] = "phase2" \/ round > 0,
         \A u \in Threads \ {0} :
           /\ mpc'[u] = "wait" => mpc[u] = "wait" \/ current_round[u] = round
           /\ Past(u)' => Past(u) \/ current_round[u] # round
  PROVE  MInv'
<1> USE DEF MInv
<1>1. Rounds'
  <2>1. round > 0 \/ Released \/ tpc[0] = "phase2" => nthread = NTHREADS
    BY DEF Rounds
  <2>2. ASSUME NEW u \in Threads \ {0}
        PROVE  /\ current_round[u] <= round
               /\ Released => current_round[u] < round /\ mpc'[u] # "wait"
    BY DEF Rounds, MonitorTypeOK
  <2>3. QED
    BY <2>1, <2>2 DEF Rounds
<1>2. Wakeups'
  <2> SUFFICES ASSUME ~Released PROVE Wakeups'
    BY DEF Wakeups
  <2>1. Cardinality(Awake)' <= spurious'
    BY FewerAwake
  <2>2. round \in 0 .. 1
    BY DEF Rounds, MonitorTypeOK
  <2>3. ASSUME NEW u \in Threads \ {0}, Past(u)'
        PROVE  current_round[u] = 0 /\ round = 1
    <3>1. current_round[u] \in 0 .. 1 /\ current_round[u] <= round
      BY DEF Rounds, MonitorTypeOK
    <3>2. CASE Past(u)
      BY <3>2 DEF Wakeups
    <3>3. CASE current_round[u] # round
      BY <2>2, <3>1, <3>3
    <3>4. QED
      BY <2>3, <3>2, <3>3
  <2>4. QED
    BY <2>1, <2>3 DEF Wakeups
<1>3. QED
  BY <1>1, <1>2

LEMMA MainMonitorInv == ASSUME MInv, MainStep PROVE MInv'
<1> USE DEF MInv, MainStep, Main, mvars
<1>1. \/ UNCHANGED <<tpc, created>>
      \/ /\ created \in Threads
         /\ tpc[created] = "unborn" /\ tpc' = [tpc EXCEPT ![created] = "phase1"]
         /\ created' = created + 1
  BY ThreadsFinite
     DEF CreateThread, JoinThread, CheckResult, Move, MonitorTypeOK, Threads
<1>2. MonitorTypeOK'
  BY <1>1, ThreadsFinite DEF MonitorTypeOK, PhaseNames, Threads
<1>3. \A u \in Threads :
        tpc'[u] = tpc[u] \/ (tpc[u] = "unborn" /\ tpc'[u] = "phase1")
  BY <1>1 DEF MonitorTypeOK
<1>4. Places' /\ MutexOwner'
  BY <1>3 DEF Places, MutexOwner
<1>5. Arrived' = Arrived
  BY <1>3 DEF Arrived
<1>6. \A u \in Threads : Past(u)' <=> Past(u)
  BY <1>3 DEF Past
<1>7. Awake' \subseteq Awake
  BY <1>6 DEF Awake
<1>8. (Released' <=> Released) /\ (tpc'[0] = "phase2" => tpc[0] = "phase2")
  BY <1>3, ThreadsFinite DEF Released
<1>9. QED
  BY <1>2, <1>4, <1>5, <1>6, <1>7, <1>8, QuietStepInv

LEMMA ComputeMonitorInv ==
  ASSUME MInv, NEW t \in Threads, Compute(t)
  PROVE  MInv'
<1> USE DEF MInv, Compute, mvars
<1>1. /\ created' = created
      /\ \/ tpc' = tpc
         \/ /\ tpc[t] = "enter3" /\ tpc' = [tpc EXCEPT ![t] = "phase3"]
         \/ /\ tpc[t] = "phase3" /\ tpc' = [tpc EXCEPT ![t] = "exited"]
  BY DEF Phase1Step, Phase2Step, Phase3Begin, Phase3Step, Phase3End, Move, mainvars
<1>2. MonitorTypeOK'
  BY <1>1 DEF MonitorTypeOK, PhaseNames
<1>3. \A u \in Threads :
        \/ tpc'[u] = tpc[u]
        \/ /\ u # 0 /\ mpc[u] = "out"
           /\ tpc[u] \in {"enter3", "phase3"} /\ tpc'[u] \in {"phase3", "exited"}
  BY <1>1 DEF MonitorTypeOK, Places, Points
<1>4. Places' /\ MutexOwner'
  BY <1>3 DEF Places, MutexOwner
<1>5. Arrived' = Arrived
  BY <1>3 DEF Arrived
<1>6. \A u \in Threads : Past(u)' <=> Past(u)
  BY <1>3 DEF Past
<1>7. Awake' \subseteq Awake
  BY <1>6 DEF Awake
<1>8. (Released' <=> Released) /\ (tpc'[0] = "phase2" => tpc[0] = "phase2")
  BY <1>3, ThreadsFinite DEF Released
<1>9. QED
  BY <1>2, <1>4, <1>5, <1>6, <1>7, <1>8, QuietStepInv

LEMMA EnterMonitorInv ==
  ASSUME MInv, NEW t \in Threads, EnterMonitor(t)
  PROVE  MInv'
<1> USE DEF MInv, EnterMonitor, Phase1End, Move, Goto, mainvars, MonitorTypeOK
<1>1. MonitorTypeOK'
  BY DEF PhaseNames, Points
<1>2. Places' /\ MutexOwner'
  BY DEF Places, MutexOwner, Holding
<1>3. Arrived' = Arrived
  BY DEF Arrived
<1>4. \A u \in Threads : Past(u)' <=> Past(u)
  BY DEF Past
<1>5. Awake' \subseteq Awake
  BY <1>4 DEF Awake
<1>6. (Released' <=> Released) /\ (tpc'[0] = "phase2" => tpc[0] = "phase2")
  BY ThreadsFinite DEF Released
<1>7. \A u \in Threads : mpc'[u] = "wait" => mpc[u] = "wait"
  OBVIOUS
<1>8. QED
  BY <1>1, <1>2, <1>3, <1>4, <1>5, <1>6, <1>7, QuietStepInv

(* The steps of a thread between its call and its leaving the loop that    *)
(* change nothing but its place and the mutex                              *)
LEMMA MutexStepInv ==
  ASSUME MInv, NEW t \in Threads, Lock(t) \/ Reacquire(t) \/ WaitAgain(t)
  PROVE  MInv'
<1> USE DEF MInv, MonitorTypeOK
<1>1. /\ UNCHANGED <<tpc, created, nthread, round, current_round, spurious>>
      /\ \/ /\ barrier_mutex = Nobody /\ barrier_mutex' = t
            /\ \/ mpc[t] = "lock"  /\ mpc' = [mpc EXCEPT ![t] = "enter"]
               \/ mpc[t] = "woken" /\ mpc' = [mpc EXCEPT ![t] = "check"]
         \/ /\ barrier_mutex' = Nobody
            /\ mpc[t] = "check" /\ mpc' = [mpc EXCEPT ![t] = "wait"]
            /\ round = current_round[t]
  BY DEF Lock, Reacquire, Acquire, WaitAgain, Goto, pvars, mainvars
<1>2. MonitorTypeOK'
  BY <1>1 DEF Points
<1>3. Places'
  BY <1>1 DEF Places
<1>4. MutexOwner'
  <2>1. Nobody \notin Threads
    BY DEF Nobody, Threads
  <2>2. QED
    BY <1>1, <2>1 DEF MutexOwner, Holding
<1>5. Arrived' = Arrived
  BY <1>1 DEF Arrived
<1>6. \A u \in Threads : Past(u)' <=> Past(u)
  BY <1>1 DEF Past
<1>7. Awake' \subseteq Awake
  BY <1>1, <1>6 DEF Awake
<1>8. (Released' <=> Released) /\ tpc'[0] = tpc[0]
  BY <1>1 DEF Released
<1>9. \A u \in Threads : mpc'[u] = "wait" => mpc[u] = "wait" \/ current_round[u] = round
  BY <1>1
<1>10. QED
  BY <1>1, <1>2, <1>3, <1>4, <1>5, <1>6, <1>7, <1>8, <1>9, QuietStepInv

LEMMA LeaveLoop0Inv ==
  ASSUME MInv, NEW t \in Threads, LeaveLoop0(t)
  PROVE  MInv'
<1> USE DEF MInv, MonitorTypeOK
<1>1. /\ UNCHANGED <<created, barrier_mutex, nthread, round, current_round, spurious>>
      /\ t = 0 /\ round # current_round[t]
      /\ mpc[t] = "check" /\ mpc' = [mpc EXCEPT ![t] = "inside"]
      /\ tpc[t] = "sync1" /\ tpc' = [tpc EXCEPT ![t] = "phase2"]
  BY DEF LeaveLoop0, EnterPhase2, Phase2Begin, Move, Goto, mainvars
<1>2. MonitorTypeOK'
  BY <1>1 DEF Points, PhaseNames
<1>3. Places' /\ MutexOwner'
  BY <1>1 DEF Places, MutexOwner, Holding
<1>4. Arrived' = Arrived
  BY <1>1 DEF Arrived
<1>5. \A u \in Threads : Past(u)' <=> Past(u)
  BY <1>1 DEF Past
<1>6. Awake' \subseteq Awake
  BY <1>1, <1>5 DEF Awake
<1>7. (Released' <=> Released) /\ round > 0
  BY <1>1 DEF Released, Rounds
<1>8. \A u \in Threads : mpc'[u] = "wait" => mpc[u] = "wait"
  BY <1>1
<1>9. QED
  BY <1>1, <1>2, <1>3, <1>4, <1>5, <1>6, <1>7, <1>8, QuietStepInv

LEMMA LeaveLoopInv ==
  ASSUME MInv, NEW t \in Threads, LeaveLoop(t)
  PROVE  MInv'
<1> USE DEF MInv, MonitorTypeOK
<1>1. /\ UNCHANGED <<tpc, created, barrier_mutex, nthread, round, current_round, spurious>>
      /\ t # 0 /\ round # current_round[t]
      /\ mpc[t] = "check" /\ mpc' = [mpc EXCEPT ![t] = "unlock"]
  BY DEF LeaveLoop, LeaveMonitor, Goto, pvars, mainvars
<1>2. MonitorTypeOK'
  BY <1>1 DEF Points
<1>3. Places' /\ MutexOwner'
  BY <1>1 DEF Places, MutexOwner, Holding
<1>4. Arrived' = Arrived
  BY <1>1 DEF Arrived
<1>5. \A u \in Threads : Past(u)' => Past(u) \/ u = t
  BY <1>1 DEF Past
<1>6. Awake' \subseteq Awake
  BY <1>1, <1>5 DEF Awake
<1>7. (Released' <=> Released) /\ tpc'[0] = tpc[0]
  BY <1>1 DEF Released
<1>8. \A u \in Threads : mpc'[u] = "wait" => mpc[u] = "wait"
  BY <1>1
<1>9. QED
  BY <1>1, <1>2, <1>3, <1>4, <1>5, <1>6, <1>7, <1>8, QuietStepInv

LEMMA UnlockInv ==
  ASSUME MInv, NEW t \in Threads, Unlock(t)
  PROVE  MInv'
<1> USE DEF MInv, MonitorTypeOK
<1>1. /\ UNCHANGED <<created, nthread, round, current_round, spurious>>
      /\ barrier_mutex' = Nobody
      /\ mpc[t] = "unlock" /\ mpc' = [mpc EXCEPT ![t] = "out"]
      /\ tpc' = [tpc EXCEPT ![t] = IF t = 0 THEN "exited" ELSE "enter3"]
  BY DEF Unlock, Goto, mainvars
<1>2. MonitorTypeOK'
  BY <1>1 DEF Points, PhaseNames
<1>3. Places'
  BY <1>1 DEF Places
<1>4. MutexOwner'
  <2>1. Nobody \notin Threads
    BY DEF Nobody, Threads
  <2>2. QED
    BY <1>1, <2>1 DEF MutexOwner, Holding
<1>5. tpc[t] = IF t = 0 THEN "sync2" ELSE "sync1"
  BY <1>1 DEF Places
<1>6. Arrived' = Arrived
  BY <1>1, <1>5 DEF Arrived
<1>7. \A u \in Threads : Past(u)' <=> Past(u)
  BY <1>1 DEF Past
<1>8. Awake' \subseteq Awake
  BY <1>1, <1>7 DEF Awake
<1>9. (Released' <=> Released) /\ (tpc'[0] = "phase2" => tpc[0] = "phase2")
  BY <1>1, <1>5, ThreadsFinite DEF Released
<1>10. \A u \in Threads : mpc'[u] = "wait" => mpc[u] = "wait"
  BY <1>1
<1>11. QED
  BY <1>1, <1>2, <1>3, <1>4, <1>6, <1>7, <1>8, <1>9, <1>10, QuietStepInv

LEMMA Arrive0EarlyInv ==
  ASSUME MInv, NEW t \in Threads, Arrive0Early(t)
  PROVE  MInv'
<1>1. /\ UNCHANGED <<tpc, created, round, spurious>>
      /\ t = 0 /\ nthread' = nthread + 1
      /\ current_round' = [current_round EXCEPT ![t] = round]
      /\ mpc[t] = "enter" /\ mpc' = [mpc EXCEPT ![t] = "wait"]
      /\ barrier_mutex' = Nobody
  BY DEF Arrive0Early, Goto, pvars, mainvars
<1>2. /\ round = 0 /\ ~Released /\ tpc[0] # "phase2" /\ barrier_mutex = t
      /\ \A u \in Threads : current_round[u] = 0
      /\ \A u \in Threads \ {0} : ~Past(u)
  BY <1>1, StillArriving
<1> USE DEF MInv, MonitorTypeOK
<1>3. Arrived' = Arrived \cup {t}
  BY <1>1, <1>2, StillArriving DEF Arrived
<1>4. nthread' = Cardinality(Arrived)' /\ nthread' \in Nat
  BY <1>1, <1>3, ArrivalCounted
<1>5. MonitorTypeOK'
  BY <1>1, <1>2, <1>4 DEF Points
<1>6. Places'
  BY <1>1 DEF Places
<1>7. MutexOwner'
  BY <1>1, <1>2 DEF MutexOwner, Holding, Nobody, Threads
<1>8. /\ ~Released' /\ current_round' = current_round
      /\ \A u \in Threads \ {0} : ~Past(u)'
  BY <1>1, <1>2 DEF Released, Past
<1>9. Awake' \subseteq Awake
  BY <1>1, <1>2, <1>8 DEF Awake
<1>10. Rounds'
  BY <1>1, <1>2, <1>4, <1>8, ThreadsFinite DEF Rounds
<1>11. Wakeups'
  BY <1>1, <1>2, <1>8, <1>9, FewerAwake DEF Wakeups
<1>12. QED
  BY <1>5, <1>6, <1>7, <1>10, <1>11

LEMMA Arrive0LastInv ==
  ASSUME MInv, NEW t \in Threads, Arrive0Last(t)
  PROVE  MInv'
<1>1. /\ UNCHANGED <<created, barrier_mutex, round, current_round, spurious>>
      /\ t = 0 /\ nthread' = nthread + 1 /\ nthread + 1 = NTHREADS
      /\ mpc[t] = "enter" /\ mpc' = [mpc EXCEPT ![t] = "inside"]
      /\ tpc' = [tpc EXCEPT ![t] = "phase2"]
  BY DEF Arrive0Last, Phase2Begin, Move, Goto, mainvars
<1>2. /\ round = 0 /\ ~Released /\ tpc[t] = "sync1"
      /\ \A u \in Threads : current_round[u] = 0
      /\ \A u \in Threads \ {0} : ~Past(u)
  BY <1>1, StillArriving
<1> USE DEF MInv, MonitorTypeOK
<1>3. Arrived' = Arrived \cup {t}
  BY <1>1, <1>2 DEF Arrived
<1>4. nthread' = Cardinality(Arrived)' /\ nthread' \in Nat
  BY <1>1, <1>3, ArrivalCounted
<1>5. MonitorTypeOK'
  BY <1>1, <1>4 DEF Points, PhaseNames
<1>6. Places' /\ MutexOwner'
  BY <1>1 DEF Places, MutexOwner, Holding
<1>7. ~Released' /\ \A u \in Threads \ {0} : ~Past(u)'
  BY <1>1, <1>2 DEF Released, Past
<1>8. Awake' \subseteq Awake
  BY <1>1, <1>2, <1>7 DEF Awake
<1>9. Rounds'
  BY <1>1, <1>2, <1>4, <1>7, ThreadsFinite DEF Rounds
<1>10. Wakeups'
  BY <1>1, <1>2, <1>7, <1>8, FewerAwake DEF Wakeups
<1>11. QED
  BY <1>5, <1>6, <1>9, <1>10

LEMMA ArriveOtherInv ==
  ASSUME MInv, NEW t \in Threads, ArriveOther(t)
  PROVE  MInv'
<1> DEFINE last == nthread + 1 = NTHREADS
           r == IF last THEN round + 1 ELSE round
           ws == IF last THEN {0} ELSE {}
<1>1. /\ UNCHANGED <<tpc, created, spurious>>
      /\ t # 0 /\ mpc[t] = "enter"
      /\ nthread' = nthread + 1 /\ round' = r
      /\ Broadcast(t, "wait", ws)
      /\ current_round' = [current_round EXCEPT ![t] = r]
      /\ barrier_mutex' = Nobody
  BY DEF ArriveOther, ArriveAndWait, pvars, mainvars
<1>2. /\ round = 0 /\ ~Released /\ tpc[0] # "phase2"
      /\ tpc[t] = "sync1" /\ barrier_mutex = t
      /\ \A u \in Threads : current_round[u] = 0
      /\ \A u \in Threads \ {0} : ~Past(u)
  BY <1>1, StillArriving
<1>3. r \in 0 .. 1 /\ (r > 0 <=> nthread' = NTHREADS) /\ ws \subseteq {0}
  BY <1>1, <1>2
<1> HIDE DEF r, ws
<1> USE DEF MInv, MonitorTypeOK
<1>4. /\ mpc' \in [Threads -> Points] /\ mpc'[t] = "wait"
      /\ \A u \in Threads \ {t} :
           mpc'[u] = mpc[u] \/ (u = 0 /\ mpc[u] = "wait" /\ mpc'[u] = "woken")
  BY <1>1, <1>3 DEF Broadcast, Points
<1>5. Arrived' = Arrived \cup {t}
  BY <1>1, <1>2, <1>4 DEF Arrived
<1>6. nthread' = Cardinality(Arrived)' /\ nthread' \in Nat
  BY <1>1, <1>5, ArrivalCounted
<1>7. MonitorTypeOK'
  <2>1. round' \in 0 .. 2 /\ current_round' \in [Threads -> 0 .. 1]
    BY <1>1, <1>3
  <2>2. QED
    BY <1>1, <1>4, <1>6, <2>1
<1>8. Places'
  BY <1>1, <1>2, <1>4 DEF Places
<1>9. MutexOwner'
  BY <1>1, <1>2, <1>4 DEF MutexOwner, Holding, Nobody, Threads
<1>10. ~Released' /\ \A u \in Threads \ {0} : ~Past(u)'
  BY <1>1, <1>2, <1>4 DEF Released, Past
<1>11. Awake' \subseteq Awake
  BY <1>1, <1>4, <1>10 DEF Awake
<1>12. current_round'[t] = r /\ \A u \in Threads \ {t} : current_round'[u] = 0
  BY <1>1, <1>2
<1>13. Rounds'
  BY <1>1, <1>2, <1>3, <1>6, <1>10, <1>12, ThreadsFinite DEF Rounds
<1>14. Wakeups'
  BY <1>1, <1>2, <1>10, <1>11, FewerAwake DEF Wakeups
<1>15. QED
  BY <1>7, <1>8, <1>9, <1>13, <1>14

LEMMA SpuriousWakeupInv ==
  ASSUME MInv, NEW t \in Threads, SpuriousWakeup(t)
  PROVE  MInv'
<1>1. /\ UNCHANGED <<tpc, created, barrier_mutex, nthread, round, current_round>>
      /\ spurious' = spurious + 1
      /\ mpc[t] = "wait" /\ mpc' = [mpc EXCEPT ![t] = "woken"]
  BY DEF SpuriousWakeup, Goto, pvars, mainvars
<1> USE DEF MInv, MonitorTypeOK
<1>2. MonitorTypeOK'
  BY <1>1 DEF Points
<1>3. Places' /\ MutexOwner'
  BY <1>1 DEF Places, MutexOwner, Holding
<1>4. Arrived' = Arrived /\ (Released' <=> Released)
  BY <1>1 DEF Arrived, Released
<1>5. \A u \in Threads : Past(u)' <=> Past(u)
  BY <1>1 DEF Past
<1>6. Rounds'
  BY <1>1, <1>4 DEF Rounds
<1>7. ASSUME ~Released PROVE Cardinality(Awake)' <= spurious'
  <2>1. Awake' \subseteq Awake \cup {t}
    BY <1>1, <1>5 DEF Awake
  <2>2. IsFiniteSet(Awake \cup {t}) /\ Cardinality(Awake \cup {t}) <= Cardinality(Awake) + 1
    <3>1. PICK A : A = Awake
      OBVIOUS
    <3>2. IsFiniteSet(A) /\ Cardinality(A) \in Nat
      BY <3>1, AwakeFinite
    <3>3. /\ IsFiniteSet(A \cup {t})
          /\ Cardinality(A \cup {t}) = Cardinality(A) \/ Cardinality(A \cup {t}) = Cardinality(A) + 1
      BY <3>2, FS_AddElement
    <3>4. QED
      BY <3>1, <3>2, <3>3
  <2>3. IsFiniteSet(Awake') /\ Cardinality(Awake)' <= Cardinality(Awake \cup {t})
    <3>1. \A A \in SUBSET (Awake \cup {t}) :
            IsFiniteSet(A) /\ Cardinality(A) <= Cardinality(Awake \cup {t})
      BY <2>2, FS_Subset
    <3>2. QED
      BY <2>1, <3>1
  <2>4. Cardinality(Awake)' \in Nat /\ Cardinality(Awake \cup {t}) \in Nat
    BY <2>2, <2>3, FS_CardinalityType
  <2>5. Cardinality(Awake) <= spurious /\ spurious \in Nat
    BY <1>7 DEF Wakeups
  <2>6. QED
    BY <1>1, <2>2, <2>3, <2>4, <2>5, AwakeFinite
<1>8. Wakeups'
  BY <1>1, <1>4, <1>5, <1>7 DEF Wakeups
<1>9. QED
  BY <1>2, <1>3, <1>6, <1>8

LEMMA ReleaseOthersInv ==
  ASSUME MInv, NEW t \in Threads, ReleaseOthers(t)
  PROVE  MInv'
<1> USE DEF MInv, MonitorTypeOK
<1>1. /\ UNCHANGED <<created, barrier_mutex, nthread, current_round, spurious>>
      /\ round' = round + 1
      /\ mpc[t] = "inside" /\ Broadcast(t, "unlock", Threads \ {0})
      /\ tpc[t] = "phase2" /\ tpc' = [tpc EXCEPT ![t] = "sync2"]
  BY DEF ReleaseOthers, ReleaseOthersIn, Phase2End, Move, mainvars
<1>2. t = 0
  BY <1>1 DEF Places
<1>3. /\ mpc' \in [Threads -> Points] /\ mpc'[t] = "unlock"
      /\ \A u \in Threads \ {t} :
           /\ mpc'[u] # "wait"
           /\ mpc'[u] = mpc[u] \/ (mpc[u] = "wait" /\ mpc'[u] = "woken")
  BY <1>1, <1>2 DEF Broadcast, Points
<1>4. nthread = NTHREADS /\ ~Released /\ round \in 0 .. 1 /\ Released'
  BY <1>1, <1>2 DEF Rounds, Released
<1>5. MonitorTypeOK'
  <2>1. tpc' \in [Threads -> PhaseNames]
    BY <1>1 DEF PhaseNames
  <2>2. round' \in 0 .. 2
    BY <1>1, <1>4
  <2>3. QED
    BY <1>1, <1>3, <2>1, <2>2
<1>6. Places'
  BY <1>1, <1>2, <1>3 DEF Places
<1>7. MutexOwner'
  BY <1>1, <1>3 DEF MutexOwner, Holding
<1>8. Arrived' = Arrived
  BY <1>1, <1>2, <1>3 DEF Arrived
<1>9. ASSUME NEW u \in Threads \ {0}
      PROVE  current_round'[u] < round' /\ current_round'[u] <= round' /\ mpc'[u] # "wait"
  <2>1. current_round[u] <= round /\ current_round[u] \in 0 .. 1
    BY DEF Rounds
  <2>2. QED
    BY <1>1, <1>2, <1>3, <1>4, <2>1
<1>10. Rounds'
  <2>1. nthread' = Cardinality(Arrived)' /\ nthread' = NTHREADS
    BY <1>1, <1>4, <1>8 DEF Rounds
  <2>2. current_round'[0] = 0 /\ round' > 0
    BY <1>1, <1>4 DEF Rounds
  <2>3. QED
    BY <1>4, <1>9, <2>1, <2>2 DEF Rounds
<1>11. Wakeups'
  BY <1>4 DEF Wakeups
<1>12. QED
  BY <1>5, <1>6, <1>7, <1>10, <1>11

LEMMA MonitorStutterInv == ASSUME MInv, UNCHANGED vars PROVE MInv'
BY DEF MInv, vars, pvars, mvars, mainvars, MonitorTypeOK, Places, MutexOwner, Rounds,
       Released, Arrived, Wakeups, Awake, Past

LEMMA MonitorNextInv == MInv /\ [Next]_vars => MInv'
<1> SUFFICES ASSUME MInv, [Next]_vars PROVE MInv'
  OBVIOUS
<1>1. ASSUME NEW t \in Threads, ThreadStep(t) PROVE MInv'
  BY <1>1, ComputeMonitorInv, EnterMonitorInv, MutexStepInv, Arrive0EarlyInv,
     Arrive0LastInv, ArriveOtherInv, LeaveLoop0Inv, LeaveLoopInv, ReleaseOthersInv,
     UnlockInv DEF ThreadStep
<1>2. QED
  BY <1>1, MainMonitorInv, SpuriousWakeupInv, MonitorStutterInv DEF Next, Terminated

(* Phase 2 and all after it come after every phase 1.                      *)
LEMMA Phase1First ==
  ASSUME MInv, NEW t \in Threads,
         tpc[t] \in {"phase2", "sync2", "exited"} \/ Past(t)
  PROVE  Arrived = Threads
<1>1. CASE Released \/ tpc[0] = "phase2"
  BY <1>1, EveryoneArrived DEF MInv, Rounds
<1>2. CASE ~Released /\ tpc[0] # "phase2"
  <2>1. t # 0
    <3>1. ASSUME t = 0 PROVE tpc[t] \in {"enter3", "phase3"} \/ mpc[t] = "unlock"
      BY <1>2, <3>1 DEF Released, Past
    <3>2. QED
      BY <1>2, <3>1 DEF MInv, Places, Released
  <2>2. Past(t)
    BY <2>1 DEF MInv, MonitorTypeOK, Places, Points, Past
  <2>3. round = 1
    BY <1>2, <2>1, <2>2 DEF MInv, Wakeups
  <2>4. QED
    BY <2>3, EveryoneArrived DEF MInv, Rounds
<1>3. QED
  BY <1>1, <1>2

(* As long as no wait has returned spuriously nobody is awake too early,   *)
(* so the monitor orders the phases.                                       *)
LEMMA MonitorOrdersPhases ==
  ASSUME MInv, spurious = 0
  PROVE  PhasesOrdered
<1>1. ASSUME NEW t \in Threads, NEW u \in Threads,
             tpc[t] \in {"phase2", "sync2", "enter3", "phase3", "exited"}
      PROVE  tpc[u] \notin {"unborn", "phase1"}
  BY <1>1, Phase1First DEF Past, Arrived
<1>2. ASSUME NEW t \in Threads \ {0}, tpc[t] \in {"enter3", "phase3", "exited"}
      PROVE  Released
  <2> SUFFICES ASSUME ~Released PROVE FALSE
    OBVIOUS
  <2>1. Cardinality(Awake) = 0
    BY AwakeFinite DEF MInv, Wakeups
  <2>2. Awake = {}
    BY <2>1, AwakeFinite, FS_EmptySet
  <2>3. QED
    BY <1>2, <2>2 DEF Awake, Past
<1>3. QED
  BY <1>1, <1>2 DEF PhasesOrdered, Released

(* spurious counts the spurious wakeups and nothing else.                  *)
LEMMA SpuriousCounts ==
  ASSUME [Next]_vars
  PROVE  spurious' = spurious \/ (spurious < MaxSpurious /\ spurious' = spurious + 1)
<1>1. ASSUME NEW t \in Threads, ThreadStep(t) PROVE spurious' = spurious
  BY <1>1 DEF ThreadStep, Compute, mvars, EnterMonitor, Lock, Reacquire, Acquire,
     Arrive0Early, Arrive0Last, ArriveOther, ArriveAndWait, WaitAgain, LeaveLoop0,
     EnterPhase2, LeaveLoop, LeaveMonitor, ReleaseOthers, ReleaseOthersIn, Unlock
<1>2. ASSUME NEW t \in Threads, SpuriousWakeup(t)
      PROVE  spurious < MaxSpurious /\ spurious' = spurious + 1
  BY <1>2 DEF SpuriousWakeup
<1>3. QED
  BY <1>1, <1>2 DEF Next, MainStep, Terminated, vars, mvars

(* Every step of the program then keeps the data right.                    *)
LEMMA OrderedStepKeepsData ==
  ASSUME MInv, PhasesInv, PhasesOrdered, [Next]_vars
  PROVE  PhasesInv'
<1>1. CASE MainStep
  BY <1>1, CreateThreadInv, JoinThreadInv, CheckResultInv DEF MainStep, Main
<1>2. ASSUME NEW t \in Threads, ThreadStep(t) PROVE PhasesInv'
  <2>1. CASE Compute(t)
    BY <2>1, Phase1StepInv, Phase2StepInv, Phase3BeginInv, Phase3StepInv,
       Phase3EndInv DEF Compute
  <2>2. CASE EnterMonitor(t)
    BY <2>2, Phase1EndInv DEF EnterMonitor
  <2>3. CASE Arrive0Last(t) \/ LeaveLoop0(t)
    BY <2>3, Phase2BeginInv DEF Arrive0Last, LeaveLoop0, EnterPhase2
  <2>4. CASE ReleaseOthers(t)
    BY <2>4, Phase2EndInv DEF ReleaseOthers, ReleaseOthersIn
  <2>5. CASE Unlock(t)
    <3> DEFINE from == IF t = 0 THEN "sync2" ELSE "sync1"
               to == IF t = 0 THEN "exited" ELSE "enter3"
    <3>1. Move(t, from, to) /\ UNCHANGED <<i, locals, data, mainvars>>
      BY <2>5 DEF Unlock, Goto, Move, MInv, Places
    <3>2. CASE t = 0
      BY <3>1, <3>2, MoveOnInv
    <3>3. CASE t # 0
      BY <3>1, <3>3, MoveOnInv
    <3>4. QED
      BY <3>2, <3>3
  <2>6. CASE UNCHANGED pvars
    BY <2>6, PhasesStutterInv
  <2>7. CASE \/ Lock(t) \/ Reacquire(t) \/ Arrive0Early(t) \/ ArriveOther(t)
             \/ WaitAgain(t) \/ LeaveLoop(t)
    BY <2>6, <2>7 DEF Lock, Reacquire, Acquire, Arrive0Early, ArriveOther,
       ArriveAndWait, WaitAgain, LeaveLoop, LeaveMonitor
  <2>8. QED
    BY <1>2, <2>1, <2>2, <2>3, <2>4, <2>5, <2>7 DEF ThreadStep
<1>3. ASSUME NEW t \in Threads, SpuriousWakeup(t) PROVE PhasesInv'
  BY <1>3, PhasesStutterInv DEF SpuriousWakeup
<1>4. CASE UNCHANGED vars
  BY <1>4, PhasesStutterInv DEF vars
<1>5. QED
  BY <1>1, <1>2, <1>3, <1>4 DEF Next, Terminated

(* The monitor keeps its invariant with any number of spurious wakeups,   *)
(* and the data are right as long as there is none.                        *)
LEMMA MInvariant == Safety => []MInv
BY MonitorInitInv, MonitorNextInv, PTL DEF Safety

LEMMA OrderedInvariant == Safety => []IInv
<1>1. Init => IInv
  BY MonitorInitInv, PhasesInitInv DEF Init, IInv
<1>2. IInv /\ [Next]_vars => IInv'
  <2> SUFFICES ASSUME IInv, [Next]_vars PROVE IInv'
    OBVIOUS
  <2>1. MInv'
    BY MonitorNextInv DEF IInv
  <2>2. ASSUME spurious' = 0 PROVE PhasesInv'
    <3>1. spurious = 0
      BY <2>2, SpuriousCounts DEF IInv, MInv, MonitorTypeOK
    <3>2. QED
      BY <3>1, MonitorOrdersPhases, OrderedStepKeepsData DEF IInv
  <2>3. QED
    BY <2>1, <2>2 DEF IInv
<1>3. QED
  BY <1>1, <1>2, PTL DEF Safety

-----------------------------------------------------------------------------
(* Without a spurious wakeup the shared round does no harm: no two threads *)
(* race, every item is the partial sum that the phases account for, and    *)
(* main reports a match (badMonitor.c:5, 114-158).                         *)
THEOREM MonitorCorrectUnlessSpurious == Safety => []CorrectUnlessSpurious
<1>1. IInv => CorrectUnlessSpurious
  BY MonitorOrdersPhases, OrderedPhasesDoNotRace
     DEF IInv, PhasesInv, CorrectUnlessSpurious
<1>2. QED
  BY <1>1, OrderedInvariant, PTL

(* With any number of spurious wakeups, phase_2 runs alone in the monitor  *)
(* and after every phase_1 (badMonitor.c:124-136).                         *)
THEOREM MonitorPhase2AfterPhase1 == Safety => []Phase2AfterPhase1
<1>1. ASSUME MInv, mpc[0] = "inside"
      PROVE  /\ barrier_mutex = 0
             /\ \A t \in Threads : tpc[t] \notin {"unborn", "phase1"} /\ mpc[t] # "enter"
  <2>1. barrier_mutex = 0 /\ tpc[0] = "phase2"
    BY <1>1, ThreadsFinite DEF MInv, MutexOwner, Places, Holding
  <2>2. Arrived = Threads
    BY <1>1, <2>1, ThreadsFinite, Phase1First
  <2>3. QED
    BY <2>1, <2>2 DEF Arrived
<1>2. MInv => Phase2AfterPhase1
  BY <1>1 DEF Phase2AfterPhase1
<1>3. QED
  BY <1>2, MInvariant, PTL

(* The thread that arrived last is held until phase_2 is over, however     *)
(* often it wakes (badMonitor.c:143-156).                                  *)
THEOREM MonitorHoldsLastArrival == Safety => []LastArrivalStays
<1>1. MInv => LastArrivalStays
  BY DEF MInv, Wakeups, Released, Past, LastArrivalStays
<1>2. QED
  BY <1>1, MInvariant, PTL

(* Each thread that goes early costs a spurious wakeup of its own, and at  *)
(* most NTHREADS - 2 threads ever do (badMonitor.c:143-156).               *)
THEOREM MonitorOneSpuriousWakeupEach == Safety => []OneSpuriousWakeupEach
<1> DEFINE early == {t \in Threads \ {0} :
                       mpc[t] = "unlock" \/ tpc[t] \in {"enter3", "phase3", "exited"}}
<1>1. ASSUME MInv, early # {}, ~Released
      PROVE  Cardinality(early) <= spurious /\ Cardinality(early) <= NTHREADS - 2
  <2>1. early \subseteq Awake
    BY DEF Awake, Past
  <2>2. IsFiniteSet(early) /\ Cardinality(early) <= Cardinality(Awake)
    BY <2>1, AwakeFinite, FS_Subset
  <2>3. Cardinality(early) \in Nat
    BY <2>2, FS_CardinalityType
  <2>4. Cardinality(early) <= spurious
    <3>1. Cardinality(Awake) <= spurious /\ spurious \in Nat
      BY <1>1 DEF MInv, Wakeups, MonitorTypeOK
    <3> HIDE DEF early
    <3>2. QED
      BY <2>2, <2>3, <3>1, AwakeFinite
  <2>5. \A t \in early : current_round[t] = 0 /\ round = 1
    BY <1>1 DEF MInv, Wakeups, Past
  <2>6. PICK u \in Threads \ {0} : current_round[u] = 1
    BY <1>1, <2>5 DEF MInv, Rounds
  <2>7. early \subseteq (Threads \ {0}) \ {u}
    BY <2>5, <2>6
  <2>8. /\ IsFiniteSet((Threads \ {0}) \ {u})
        /\ Cardinality((Threads \ {0}) \ {u}) = NTHREADS - 2
    <3>1. /\ IsFiniteSet(Threads \ {0})
          /\ Cardinality(Threads \ {0}) = NTHREADS - 1
      BY ThreadsFinite, FS_RemoveElement
    <3>2. /\ IsFiniteSet((Threads \ {0}) \ {u})
          /\ Cardinality((Threads \ {0}) \ {u}) = (NTHREADS - 1) - 1
      BY <2>6, <3>1, FS_RemoveElement
    <3>3. QED
      BY <3>2, ThreadsFinite
  <2>9. Cardinality(early) <= Cardinality((Threads \ {0}) \ {u})
    BY <2>7, <2>8, FS_Subset
  <2> HIDE DEF early
  <2>10. QED
    BY <2>4, <2>8, <2>9
<1>2. MInv => OneSpuriousWakeupEach
  BY <1>1 DEF OneSpuriousWakeupEach, Released
<1>3. QED
  BY <1>2, MInvariant, PTL

-----------------------------------------------------------------------------
(* The steps that only move a thread on                                    *)
LEMMA MoveSane ==
  ASSUME Sane, MInv, NEW t \in Threads, EnterMonitor(t) \/ Unlock(t)
  PROVE  Sane'
<1> USE DEF Sane
<1>1. CASE EnterMonitor(t)
  BY <1>1 DEF EnterMonitor, Phase1End, Move, locals, mainvars, PhasesTypeOK,
              PhaseNames, PhaseRanges
<1>2. CASE Unlock(t)
  <2>1. tpc[t] \in {"sync1", "sync2"}
    BY <1>2 DEF Unlock, Goto, MInv, Places
  <2>2. QED
    BY <1>2, <2>1 DEF Unlock, Goto, locals, mainvars, PhasesTypeOK, PhaseNames,
                      PhaseRanges
<1>3. QED
  BY <1>1, <1>2

LEMMA NextSane == ASSUME Sane, MInv, [Next]_vars PROVE Sane'
<1>1. CASE MainStep
  BY <1>1, MainSane DEF MainStep
<1>2. ASSUME NEW t \in Threads, ThreadStep(t) PROVE Sane'
  <2>1. CASE Compute(t)
    BY <2>1, Phase1Sane, Phase2Sane, Phase3Sane DEF Compute
  <2>2. CASE EnterMonitor(t) \/ Unlock(t)
    BY <2>2, MoveSane
  <2>3. CASE Arrive0Last(t) \/ LeaveLoop0(t) \/ ReleaseOthers(t)
    BY <2>3, Phase2Sane DEF Arrive0Last, LeaveLoop0, EnterPhase2, ReleaseOthers,
       ReleaseOthersIn
  <2>4. CASE \/ Lock(t) \/ Reacquire(t) \/ Arrive0Early(t) \/ ArriveOther(t)
             \/ WaitAgain(t) \/ LeaveLoop(t)
    BY <2>4, StutterSane DEF Lock, Reacquire, Acquire, Arrive0Early, ArriveOther,
       ArriveAndWait, WaitAgain, LeaveLoop, LeaveMonitor
  <2>5. QED
    BY <1>2, <2>1, <2>2, <2>3, <2>4 DEF ThreadStep
<1>3. ASSUME NEW t \in Threads, SpuriousWakeup(t) PROVE Sane'
  BY <1>3, StutterSane DEF SpuriousWakeup
<1>4. CASE UNCHANGED vars
  BY <1>4, StutterSane DEF vars
<1>5. QED
  BY <1>1, <1>2, <1>3, <1>4 DEF Next, Terminated

(* Types and ranges are kept with any number of spurious wakeups.          *)
LEMMA SaneInvariant == Safety => [](MInv /\ Sane /\ spurious <= MaxSpurious)
<1>1. Init => MInv /\ Sane /\ spurious <= MaxSpurious
  <2> SUFFICES ASSUME Init PROVE MInv /\ Sane /\ spurious <= MaxSpurious
    OBVIOUS
  <2>1. MInv
    BY MonitorInitInv
  <2>2. Sane
    BY PhasesInitInv, OrderedIsSane DEF Init
  <2>3. spurious <= MaxSpurious
    BY SpuriousAssumption DEF Init
  <2>4. QED
    BY <2>1, <2>2, <2>3
<1>2. MInv /\ Sane /\ spurious <= MaxSpurious /\ [Next]_vars
        => (MInv /\ Sane /\ spurious <= MaxSpurious)'
  <2> SUFFICES ASSUME MInv, Sane, spurious <= MaxSpurious, [Next]_vars
               PROVE  (MInv /\ Sane /\ spurious <= MaxSpurious)'
    OBVIOUS
  <2>1. MInv' /\ Sane'
    BY MonitorNextInv, NextSane
  <2>2. spurious \in Nat /\ MaxSpurious \in Nat
    BY SpuriousAssumption DEF MInv, MonitorTypeOK
  <2>3. spurious' <= MaxSpurious
    BY <2>2, SpuriousCounts
  <2>4. QED
    BY <2>1, <2>3
<1>3. QED
  BY <1>1, <1>2, PTL DEF Safety

(* The types of the program are sound, and phase_2 runs alone in the       *)
(* monitor and after every phase_1, with any number of spurious wakeups    *)
(* (badMonitor.c:124-136).                                                 *)
THEOREM MonitorInvariant == Safety => []MonitorInv
<1>1. MInv /\ Sane /\ spurious <= MaxSpurious => TypeOK
  <2> SUFFICES ASSUME MInv, Sane, spurious <= MaxSpurious PROVE TypeOK
    OBVIOUS
  <2>1. nthread \in 0 .. NTHREADS
    <3>1. Arrived \subseteq Threads
      BY DEF Arrived
    <3>2. Cardinality(Arrived) <= NTHREADS
      BY <3>1, ThreadsFinite, FS_Subset
    <3>3. QED
      BY <3>2, ThreadsFinite, ArrivedFinite DEF MInv, Rounds
  <2>2. spurious \in 0 .. MaxSpurious
    BY SpuriousAssumption DEF MInv, MonitorTypeOK
  <2>3. QED
    BY <2>1, <2>2 DEF MInv, MonitorTypeOK, Sane, TypeOK
<1>2. QED
  BY <1>1, SaneInvariant, MonitorPhase2AfterPhase1, PTL DEF MonitorInv

(* No thread leaves the array, even one that goes early                    *)
(* (badMonitor.c:164-214).                                                 *)
THEOREM MonitorIndicesInBounds == Safety => []IndicesInBounds
<1>1. Sane => IndicesInBounds
  BY SensibleIndices
<1>2. QED
  BY <1>1, SaneInvariant, PTL
=============================================================================
