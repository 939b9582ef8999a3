-------------------------- MODULE ThreadJacobiProofs --------------------------
(***************************************************************************)
(* The Jacobi iteration of jacobi.c for every grid, number of workers and  *)
(* of iterations: its workers use the barrier as module Barrier says, so   *)
(* neighbours are never more than one sweep apart, and no row is read by   *)
(* one worker while another writes it.  If the strips cover the grid, each *)
(* row is always the iterate that its worker has reached.                  *)
(***************************************************************************)
EXTENDS ThreadJacobi, BarrierProofs

(* What holds of the workers whether or not their strips cover the grid    *)
SyncInv == BarrierInv /\ WorkersInv

-----------------------------------------------------------------------------
(* The strips are inside of the boundary and do not overlap.               *)
LEMMA StripBounds ==
  /\ numWorkers \in Nat \ {0} /\ gridSize \in Nat \ {0} /\ numIters \in Nat
  /\ stripSize \in Nat /\ numWorkers * stripSize <= gridSize
  /\ \A t \in Threads :
       /\ t \in Nat /\ first(t) \in Nat /\ 1 <= first(t)
       /\ last(t) = first(t) + stripSize - 1 /\ last(t) <= gridSize
<1>1. numWorkers \in Nat \ {0} /\ gridSize \in Nat \ {0} /\ numIters \in Nat
  BY ThreadsAssumption, JacobiAssumption DEF numWorkers, MAXGRID
<1>2. stripSize \in Nat /\ numWorkers * stripSize <= gridSize
  BY <1>1 DEF stripSize
<1>3. ASSUME NEW t \in Threads
      PROVE  /\ t \in Nat /\ first(t) \in Nat /\ 1 <= first(t)
             /\ last(t) = first(t) + stripSize - 1 /\ last(t) <= gridSize
  <2>1. t \in Nat /\ t + 1 <= numWorkers
    BY <1>1 DEF Threads, numWorkers
  <2>2. (t + 1) * stripSize <= numWorkers * stripSize
    BY <1>1, <1>2, <2>1
  <2>3. t * stripSize \in Nat /\ (t + 1) * stripSize = t * stripSize + stripSize
    BY <1>2, <2>1
  <2>4. QED
    BY <1>1, <1>2, <2>1, <2>2, <2>3 DEF first, last
<1>4. QED
  BY <1>1, <1>2, <1>3

LEMMA StripsDisjoint ==
  ASSUME NEW t \in Threads, NEW u \in Threads, t # u
  PROVE  last(t) < first(u) \/ last(u) < first(t)
<1>1. ASSUME NEW v \in Threads, NEW w \in Threads, v < w
      PROVE  last(v) < first(w)
  <2>1. v \in Nat /\ w \in Nat /\ stripSize \in Nat /\ v + 1 <= w
    BY <1>1, StripBounds
  <2>2. (v + 1) * stripSize <= w * stripSize
    BY <2>1
  <2>3. v * stripSize \in Nat /\ (v + 1) * stripSize = v * stripSize + stripSize
    BY <2>1
  <2>4. QED
    BY <2>1, <2>2, <2>3 DEF first, last
<1>2. QED
  BY <1>1, StripBounds

-----------------------------------------------------------------------------
(* The calls of the barrier that a worker has made and those it is past,   *)
(* by where it is                                                          *)
LEMMA WorkerCalls ==
  ASSUME SyncInv, NEW t \in Threads
  PROVE  /\ iters[t] \in Nat \ {0} /\ calls[t] \in Int /\ Passed(t) \in Int
         /\ tpc[t] \in {"unborn", "sweep2", "sync2", "sweep1", "sync1", "diff", "exited"}
         /\ tpc[t] = "unborn" => iters[t] = 1 /\ calls[t] = 0 /\ Passed(t) = 0
         /\ tpc[t] \in {"sweep2", "sync2"} => Passed(t) >= 2 * iters[t] - 2
         /\ tpc[t] \in {"sweep1", "sync1"} => Passed(t) >= 2 * iters[t] - 1
         /\ tpc[t] = "sweep2" => calls[t] = 2 * iters[t] - 2 /\ iters[t] <= numIters
         /\ tpc[t] \in {"sync2", "sweep1"} => calls[t] = 2 * iters[t] - 1 /\ iters[t] <= numIters
         /\ tpc[t] = "sync1" => calls[t] = 2 * iters[t] /\ iters[t] <= numIters
         /\ tpc[t] \in {"diff", "exited"} => calls[t] = 2 * numIters /\ Passed(t) = 2 * numIters
<1>1. /\ iters[t] \in Nat \ {0} /\ calls[t] \in Int
      /\ tpc[t] \in {"unborn", "sweep2", "sync2", "sweep1", "sync1", "diff", "exited"}
  BY StripBounds DEF SyncInv, WorkersInv, WorkersTypeOK, BarrierInv, BarrierTypeOK
<1>2. /\ Passed(t) \in {calls[t], calls[t] - 1}
      /\ tpc[t] \notin {"sync1", "sync2"} => Passed(t) = calls[t]
  BY DEF SyncInv, WorkersInv, CallsMade, Passed
<1>3. CallsMade
  BY DEF SyncInv, WorkersInv
<1>4. QED
  BY <1>1, <1>2, <1>3 DEF CallsMade

(* Two workers are in the same sweep, or one of them is at a barrier that  *)
(* the other has still to reach or to leave.                               *)
LEMMA SweepsApart ==
  ASSUME SyncInv, NEW t \in Threads, NEW u \in Threads
  PROVE  /\ tpc[t] = "sweep2" =>
              \/ tpc[u] = "unborn" /\ iters[t] = 1 /\ iters[u] = 1
              \/ tpc[u] \in {"sweep2", "sync2"} /\ iters[u] = iters[t]
              \/ tpc[u] = "sync1" /\ iters[u] + 1 = iters[t]
         /\ tpc[t] = "sweep1" =>
              tpc[u] \in {"sync2", "sweep1", "sync1"} /\ iters[u] = iters[t]
<1> DEFINE a == iters[t]
<1> DEFINE b == iters[u]
<1> DEFINE c == calls[u]
<1> DEFINE p == Passed(u)
<1> DEFINE pc == tpc[u]
<1>1. Passed(t) <= c /\ p <= calls[t]
  BY PassedBound, WorkerCalls DEF SyncInv, BarrierInv, BarrierTypeOK
<1>2. /\ a \in Nat \ {0} /\ b \in Nat \ {0} /\ c \in Int /\ p \in Int /\ numIters \in Nat
      /\ pc \in {"unborn", "sweep2", "sync2", "sweep1", "sync1", "diff", "exited"}
      /\ pc = "unborn" => b = 1 /\ c = 0 /\ p = 0
      /\ pc \in {"sweep2", "sync2"} => p >= 2 * b - 2 /\ c <= 2 * b - 1
      /\ pc = "sweep2" => c = 2 * b - 2
      /\ pc = "sweep1" => p >= 2 * b - 1 /\ c = 2 * b - 1
      /\ pc = "sync1" => p >= 2 * b - 1 /\ c = 2 * b
      /\ pc \in {"diff", "exited"} => p = 2 * numIters
  BY WorkerCalls, StripBounds
<1>3. tpc[t] = "sweep2" => a <= numIters /\ 2 * a - 2 <= c /\ p <= 2 * a - 2
  <2>1. tpc[t] = "sweep2" =>
          /\ a <= numIters /\ calls[t] = 2 * a - 2 /\ Passed(t) >= 2 * a - 2
          /\ Passed(t) \in Int
    BY WorkerCalls
  <2>2. QED
    BY <1>1, <1>2, <2>1
<1>4. tpc[t] = "sweep1" => a <= numIters /\ 2 * a - 1 <= c /\ p <= 2 * a - 1
  <2>1. tpc[t] = "sweep1" =>
          /\ a <= numIters /\ calls[t] = 2 * a - 1 /\ Passed(t) >= 2 * a - 1
          /\ Passed(t) \in Int
    BY WorkerCalls
  <2>2. QED
    BY <1>1, <1>2, <2>1
<1> HIDE DEF a, b, c, p, pc
<1>5. ASSUME a <= numIters, 2 * a - 2 <= c, p <= 2 * a - 2
      PROVE  \/ pc = "unborn" /\ a = 1 /\ b = 1
             \/ pc \in {"sweep2", "sync2"} /\ b = a
             \/ pc = "sync1" /\ b + 1 = a
  <2>1. pc \notin {"sweep1", "diff", "exited"}
    BY <1>2, <1>5
  <2>2. pc = "unborn" => a = 1 /\ b = 1
    BY <1>2, <1>5
  <2>3. pc \in {"sweep2", "sync2"} => b = a
    BY <1>2, <1>5
  <2>4. pc = "sync1" => b + 1 = a
    BY <1>2, <1>5
  <2>5. QED
    BY <1>2, <2>1, <2>2, <2>3, <2>4
<1>6. ASSUME a <= numIters, 2 * a - 1 <= c, p <= 2 * a - 1
      PROVE  pc \in {"sync2", "sweep1", "sync1"} /\ b = a
  <2>1. pc \notin {"unborn", "sweep2", "diff", "exited"}
    BY <1>2, <1>6
  <2>2. pc \in {"sync2", "sweep1", "sync1"} => b = a
    BY <1>2, <1>6
  <2>3. QED
    BY <1>2, <2>1, <2>2
<1>7. QED
  BY <1>3, <1>4, <1>5, <1>6 DEF a, b, pc

(* So no row is written by one and accessed by another.                    *)
LEMMA SyncDoesNotRace == SyncInv => NoDataRace
<1> SUFFICES ASSUME SyncInv, NEW t \in Threads, NEW u \in Threads, t # u
             PROVE  Writes(t) \cap (Reads(u) \cup Writes(u)) = {}
  BY DEF NoDataRace
<1>1. CASE ~Sweeping(t)
  BY <1>1 DEF Writes
<1>2. CASE Sweeping(t)
  <2>1. /\ tpc[t] \in {"sweep2", "sweep1"}
        /\ i[t] \in first(t) .. last(t)
    BY <1>2, StripBounds DEF Sweeping, SyncInv, WorkersInv, RowRanges
  <2>2. /\ tpc[u] = tpc[t] \/ tpc[u] \notin {"sweep2", "sweep1", "diff"}
    BY <2>1, SweepsApart
  <2>3. CASE tpc[u] = tpc[t]
    <3>1. Writes(t) \cap Reads(u) = {}
      BY <2>1, <2>3 DEF Writes, Reads, Sweeping
    <3>2. Sweeping(u) => i[u] \in first(u) .. last(u)
      BY StripBounds DEF Sweeping, SyncInv, WorkersInv, RowRanges
    <3>3. Sweeping(u) => i[u] # i[t]
      BY <2>1, <3>2, StripsDisjoint, StripBounds
    <3>4. Writes(t) \cap Writes(u) = {}
      BY <3>3 DEF Writes
    <3>5. QED
      BY <3>1, <3>4
  <2>4. CASE tpc[u] \notin {"sweep2", "sweep1", "diff"}
    BY <2>4 DEF Reads, Writes, Sweeping
  <2>5. QED
    BY <2>2, <2>3, <2>4
<1>3. QED
  BY <1>1, <1>2

(* and no worker leaves the grid.                                          *)
LEMMA SyncStaysInBounds == SyncInv => RowsInBounds
<1> SUFFICES ASSUME SyncInv, NEW t \in Threads
             PROVE  /\ \A access \in Writes(t) : access[2] \in 1 .. gridSize
                    /\ \A access \in Reads(t) : access[2] \in Rows
  BY DEF RowsInBounds
<1>1. Sweeping(t) => i[t] \in first(t) .. last(t)
  BY StripBounds DEF Sweeping, SyncInv, WorkersInv, RowRanges
<1>2. \A access \in Writes(t) : access[2] \in 1 .. gridSize
  BY <1>1, StripBounds DEF Writes
<1>3. CASE Sweeping(t)
  <2>1. ASSUME NEW grid, NEW k \in i[t] - 1 .. i[t] + 1
        PROVE  <<grid, k>>[2] \in Rows
    BY <1>1, <1>3, StripBounds DEF Rows
  <2>2. QED
    BY <1>2, <1>3, <2>1 DEF Reads
<1>4. CASE ~Sweeping(t)
  <2>1. ASSUME NEW grid, NEW k \in first(t) .. last(t)
        PROVE  <<grid, k>>[2] \in Rows
    BY StripBounds DEF Rows
  <2>2. QED
    BY <1>2, <1>4, <2>1 DEF Reads
<1>5. QED
  BY <1>3, <1>4

-----------------------------------------------------------------------------
LEMMA SyncInitInv == Init => SyncInv
<1> SUFFICES ASSUME Init PROVE SyncInv
  OBVIOUS
<1>1. BarrierInv
  BY InitInv DEF Init
<1>2. WorkersTypeOK
  BY StripBounds DEF Init, WorkersTypeOK
<1>3. CallsMade /\ RowRanges
  BY DEF Init, BarrierInit, CallsMade, RowRanges
<1>4. QED
  BY <1>1, <1>2, <1>3 DEF SyncInv, WorkersInv

(* Every step of the program is a step of the barrier or leaves it alone.  *)
LEMMA NextUsesBarrier ==
  ASSUME SyncInv, [Next]_vars
  PROVE  [BarrierNext]_bvars
<1>1. CASE MainStep
  BY <1>1 DEF MainStep
<1>2. ASSUME NEW t \in Threads, WorkerStep(t) PROVE [BarrierNext]_bvars
  <2>1. CASE EndSweep(t)
    <3>1. CallBarrier(t) /\ tpc[t] \in {"sweep2", "sweep1"}
      BY <2>1 DEF EndSweep, Move
    <3>2. calls[t] \in {2 * iters[t] - 2, 2 * iters[t] - 1} /\ iters[t] <= numIters
      BY <3>1 DEF SyncInv, WorkersInv, CallsMade
    <3>3. calls[t] < Calls
      BY <3>2, StripBounds, JacobiAssumption DEF SyncInv, WorkersInv, WorkersTypeOK
    <3>4. QED
      BY <3>1, <3>3 DEF BarrierNext
  <2>2. CASE UpdateGrid2(t) \/ UpdateGrid1(t)
    BY <2>2 DEF UpdateGrid2, UpdateGrid1, NextRow, bvars
  <2>3. CASE StartSweep1(t) \/ NextIteration(t) \/ CompareGrids(t)
    BY <2>3 DEF StartSweep1, NextIteration, CompareGrids, BeginRows, bvars
  <2>4. CASE BarrierStep(t)
    BY <2>4 DEF BarrierNext
  <2>5. QED
    BY <1>2, <2>1, <2>2, <2>3, <2>4 DEF WorkerStep
<1>3. ASSUME NEW t \in Threads, WakeSpuriously(t) PROVE [BarrierNext]_bvars
  BY <1>3 DEF WakeSpuriously, BarrierNext
<1>4. CASE UNCHANGED vars
  BY <1>4 DEF vars
<1>5. QED
  BY <1>1, <1>2, <1>3, <1>4 DEF Next, Terminated

(* A step inside barrier() calls nothing and takes nobody into it.         *)
LEMMA InsideKeepsCalls ==
  ASSUME BarrierInv, NEW t \in Threads, BarrierStep(t) \/ SpuriousWakeup(t)
  PROVE  /\ calls' = calls
         /\ \A u \in Threads : bpc'[u] # "out" => bpc[u] # "out"
<1> USE DEF BarrierInv, BarrierTypeOK
<1>1. CASE ArriveLast(t)
  BY <1>1 DEF ArriveLast
<1>2. CASE \/ Lock(t)      \/ Reacquire(t) \/ ArriveEarly(t) \/ WaitAgain(t)
           \/ LeaveLoop(t) \/ Unlock(t)    \/ SpuriousWakeup(t)
  BY <1>2 DEF Lock, Reacquire, Acquire, ArriveEarly, WaitAgain, LeaveLoop, Unlock,
              SpuriousWakeup, Goto
<1>3. QED
  BY <1>1, <1>2 DEF BarrierStep

LEMMA MainKeepsWorkers ==
  ASSUME SyncInv, MainStep
  PROVE  WorkersInv'
<1> USE StripBounds DEF SyncInv, WorkersInv
<1>1. UNCHANGED bvars
  BY DEF MainStep
<1>2. CASE CreateWorker
  <2>1. created \in Threads /\ created' = created + 1
    BY <1>2 DEF CreateWorker, WorkersTypeOK, Threads, numWorkers
  <2>2. WorkersTypeOK'
    BY <1>2, <2>1 DEF CreateWorker, Move, WorkersTypeOK
  <2>3. CallsMade'
    BY <1>1, <1>2, <2>1 DEF CreateWorker, Move, WorkersTypeOK, CallsMade, bvars
  <2>4. RowRanges'
    BY <1>2, <2>1 DEF CreateWorker, Move, WorkersTypeOK, RowRanges
  <2>5. QED
    BY <2>2, <2>3, <2>4
<1>3. CASE JoinWorker \/ PrintResults
  <2>1. UNCHANGED <<tpc, iters, i, created>> /\ joined' \in 0 .. created
    BY <1>3 DEF JoinWorker, PrintResults, WorkersTypeOK
  <2>2. QED
    BY <1>1, <2>1 DEF WorkersTypeOK, CallsMade, RowRanges, bvars
<1>4. QED
  BY <1>2, <1>3 DEF MainStep

LEMMA WorkerKeepsWorkers ==
  ASSUME SyncInv, NEW t \in Threads, WorkerStep(t)
  PROVE  WorkersInv'
<1> USE StripBounds DEF SyncInv, WorkersInv
<1>1. CASE UpdateGrid2(t) \/ UpdateGrid1(t)
  <2>1. /\ UNCHANGED <<tpc, iters, bvars, mainvars>>
        /\ tpc[t] \in {"sweep2", "sweep1"} /\ i[t] <= last(t)
        /\ i' = [i EXCEPT ![t] = i[t] + 1]
    BY <1>1 DEF UpdateGrid2, UpdateGrid1, NextRow
  <2>2. i[t] \in first(t) .. last(t)
    BY <2>1 DEF RowRanges
  <2>3. WorkersTypeOK'
    BY <2>1, <2>2 DEF WorkersTypeOK, mainvars
  <2>4. CallsMade' /\ RowRanges'
    BY <2>1, <2>2 DEF WorkersTypeOK, CallsMade, RowRanges, bvars
  <2>5. QED
    BY <2>3, <2>4
<1>2. CASE EndSweep(t)
  <2>1. /\ \/ tpc[t] = "sweep2" /\ tpc' = [tpc EXCEPT ![t] = "sync2"]
           \/ tpc[t] = "sweep1" /\ tpc' = [tpc EXCEPT ![t] = "sync1"]
        /\ i[t] > last(t) /\ UNCHANGED <<iters, i, mainvars>>
        /\ calls' = [calls EXCEPT ![t] = calls[t] + 1]
        /\ bpc' = [bpc EXCEPT ![t] = "lock"]
    BY <1>2 DEF EndSweep, Move, CallBarrier, Goto
  <2>2. WorkersTypeOK'
    BY <2>1 DEF WorkersTypeOK, mainvars
  <2>3. RowRanges'
    BY <2>1 DEF WorkersTypeOK, RowRanges
  <2>4. CallsMade'
    BY <2>1 DEF WorkersTypeOK, BarrierInv, BarrierTypeOK, CallsMade
  <2>5. QED
    BY <2>2, <2>3, <2>4
<1>3. CASE StartSweep1(t)
  <2>1. /\ tpc[t] = "sync2" /\ tpc' = [tpc EXCEPT ![t] = "sweep1"]
        /\ i' = [i EXCEPT ![t] = first(t)]
        /\ bpc[t] = "out" /\ UNCHANGED <<iters, mainvars, bvars>>
    BY <1>3 DEF StartSweep1, BeginRows, Move
  <2>2. WorkersTypeOK'
    BY <2>1 DEF WorkersTypeOK, mainvars, RowRanges
  <2>3. CallsMade' /\ RowRanges'
    BY <2>1 DEF WorkersTypeOK, CallsMade, RowRanges, bvars
  <2>4. QED
    BY <2>2, <2>3
<1>4. CASE NextIteration(t)
  <2>1. /\ tpc[t] = "sync1"
        /\ tpc' = [tpc EXCEPT ![t] = IF iters[t] + 1 <= numIters THEN "sweep2" ELSE "diff"]
        /\ i' = [i EXCEPT ![t] = first(t)]
        /\ iters' = [iters EXCEPT ![t] = iters[t] + 1]
        /\ bpc[t] = "out" /\ UNCHANGED <<mainvars, bvars>>
    BY <1>4 DEF NextIteration, BeginRows, Move
  <2>2. iters[t] <= numIters /\ calls[t] = 2 * iters[t]
    BY <2>1 DEF CallsMade
  <2>3. WorkersTypeOK'
    BY <2>1, <2>2 DEF WorkersTypeOK, mainvars, RowRanges
  <2>4. CallsMade'
    BY <2>1, <2>2 DEF WorkersTypeOK, CallsMade, bvars
  <2>5. RowRanges'
    BY <2>1 DEF WorkersTypeOK, RowRanges
  <2>6. QED
    BY <2>3, <2>4, <2>5
<1>5. CASE CompareGrids(t)
  <2>1. /\ tpc[t] = "diff" /\ tpc' = [tpc EXCEPT ![t] = "exited"]
        /\ UNCHANGED <<iters, i, mainvars, bvars>>
    BY <1>5 DEF CompareGrids, Move
  <2>2. QED
    BY <2>1 DEF WorkersTypeOK, mainvars, CallsMade, RowRanges, bvars
<1>6. CASE BarrierStep(t) /\ UNCHANGED gvars
  BY <1>6, InsideKeepsCalls DEF WorkersTypeOK, CallsMade, RowRanges, gvars, mainvars
<1>7. QED
  BY <1>1, <1>2, <1>3, <1>4, <1>5, <1>6 DEF WorkerStep

LEMMA SyncNextInv == SyncInv /\ [Next]_vars => SyncInv'
<1> SUFFICES ASSUME SyncInv, [Next]_vars PROVE SyncInv'
  OBVIOUS
<1>1. BarrierInv'
  BY NextUsesBarrier, NextInv DEF SyncInv
<1>2. ASSUME NEW t \in Threads, WakeSpuriously(t) PROVE WorkersInv'
  BY <1>2, InsideKeepsCalls
     DEF WakeSpuriously, gvars, mainvars, SyncInv, WorkersInv, WorkersTypeOK, CallsMade, RowRanges
<1>3. ASSUME UNCHANGED vars PROVE WorkersInv'
  BY <1>3 DEF vars, gvars, bvars, mainvars, SyncInv, WorkersInv, WorkersTypeOK, CallsMade, RowRanges
<1>4. WorkersInv'
  BY <1>2, <1>3, MainKeepsWorkers, WorkerKeepsWorkers DEF Next, Terminated
<1>5. QED
  BY <1>1, <1>4 DEF SyncInv

(* Where the workers are follows their calls of the barrier, for all sizes *)
(* (jacobi.c:88-130, 156-199).                                             *)
THEOREM JacobiSynchronised == Safety => []SyncInv
BY SyncInitInv, SyncNextInv, PTL DEF Safety

(* The program is a user of the barrier: all that is proved of the barrier *)
(* holds in it (jacobi.c:108, 116, 156-199).                               *)
THEOREM JacobiUsesBarrier == Safety => BarrierSafety
<1>1. Init => BarrierInit
  BY DEF Init
<1>2. SyncInv /\ [Next]_vars => [BarrierNext]_bvars
  BY NextUsesBarrier
<1>3. QED
  BY <1>1, <1>2, JacobiSynchronised, PTL DEF Safety, BarrierSafety

(* No row is written by one worker while another may read or write it, for *)
(* every grid, number of workers and of iterations (jacobi.c:100-128).     *)
THEOREM JacobiNoDataRace == Safety => []NoDataRace
<1>1. SyncInv => NoDataRace
  BY SyncDoesNotRace
<1>2. QED
  BY <1>1, JacobiSynchronised, PTL

(* No worker leaves the grid or writes its boundary, whether or not the    *)
(* strips cover the grid (jacobi.c:31, 53, 97-117).                        *)
THEOREM JacobiRowsInBounds == Safety => []RowsInBounds
<1>1. SyncInv => RowsInBounds
  BY SyncStaysInBounds
<1>2. QED
  BY <1>1, JacobiSynchronised, PTL

-----------------------------------------------------------------------------
(* From here on numWorkers divides gridSize.                               *)
EvenStrips == numWorkers * stripSize = gridSize

GridsInv == GridsTypeOK /\ RowsInStep /\ ResultsInStep

(* Then every row has an owner.                                            *)
LEMMA RowOwner ==
  ASSUME EvenStrips, NEW k \in 1 .. gridSize
  PROVE  \E t \in Threads : k \in first(t) .. last(t)
<1> DEFINE t == (k - 1) \div stripSize
<1>1. numWorkers \in Nat \ {0} /\ stripSize \in Nat \ {0} /\ k - 1 \in Nat
  BY StripBounds DEF EvenStrips
<1>2. t \in Nat /\ t * stripSize <= k - 1 /\ k - 1 < t * stripSize + stripSize
  BY <1>1
<1>3. t < numWorkers
  <2>1. t * stripSize < numWorkers * stripSize
    BY <1>1, <1>2, StripBounds DEF EvenStrips
  <2>2. QED
    BY <1>1, <1>2, <2>1
<1>4. t \in Threads
  BY <1>1, <1>2, <1>3 DEF Threads, numWorkers
<1>5. k \in first(t) .. last(t)
  BY <1>1, <1>2, StripBounds DEF first, last
<1>6. QED
  BY <1>4, <1>5

(* The rows that a sweep reads are all the same iterate, so what it writes *)
(* is the next.                                                            *)
LEMMA SweptRow ==
  ASSUME EvenStrips, SyncInv, RowsInStep, NEW t \in Threads, Sweeping(t)
  PROVE  /\ i[t] \in first(t) .. last(t)
         /\ tpc[t] = "sweep2" => Average(grid1, i[t]) = 2 * iters[t] - 1
         /\ tpc[t] = "sweep1" => Average(grid2, i[t]) = 2 * iters[t]
<1> USE StripBounds DEF SyncInv, WorkersInv
<1>1. i[t] \in first(t) .. last(t) /\ i[t] \in 1 .. gridSize
  BY DEF Sweeping, RowRanges
<1>2. iters[t] \in Nat \ {0}
  BY DEF WorkersTypeOK
<1>3. ASSUME tpc[t] = "sweep2", NEW k \in i[t] - 1 .. i[t] + 1
      PROVE  grid1[k] = IF k \in 1 .. gridSize THEN 2 * iters[t] - 2 ELSE Boundary
  <2>1. CASE k \in 1 .. gridSize
    <3>1. PICK u \in Threads : k \in first(u) .. last(u)
      BY <2>1, RowOwner
    <3>2. grid1[k] = IF Swept1(u, k) THEN 2 * iters[u] ELSE 2 * iters[u] - 2
      BY <3>1 DEF RowsInStep
    <3>3. \/ tpc[u] \in {"unborn", "sweep2", "sync2"} /\ iters[u] = iters[t]
          \/ tpc[u] = "sync1" /\ iters[u] + 1 = iters[t]
      BY <1>3, SweepsApart
    <3>4. iters[u] \in Nat
      BY DEF WorkersTypeOK
    <3>5. QED
      BY <1>2, <2>1, <3>2, <3>3, <3>4 DEF Swept1
  <2>2. CASE k \notin 1 .. gridSize
    <3>1. k \in {0, gridSize + 1}
      BY <1>1, <2>2
    <3>2. QED
      BY <2>2, <3>1 DEF RowsInStep
  <2>3. QED
    BY <2>1, <2>2
<1>4. ASSUME tpc[t] = "sweep1", NEW k \in i[t] - 1 .. i[t] + 1
      PROVE  grid2[k] = IF k \in 1 .. gridSize THEN 2 * iters[t] - 1 ELSE Boundary
  <2>1. CASE k \in 1 .. gridSize
    <3>1. PICK u \in Threads : k \in first(u) .. last(u)
      BY <2>1, RowOwner
    <3>2. grid2[k] = IF Swept2(u, k) THEN 2 * iters[u] - 1 ELSE OrInitial(2 * iters[u] - 3)
      BY <3>1 DEF RowsInStep
    <3>3. tpc[u] \in {"sync2", "sweep1", "sync1"} /\ iters[u] = iters[t]
      BY <1>4, SweepsApart
    <3>4. QED
      BY <2>1, <3>2, <3>3 DEF Swept2
  <2>2. CASE k \notin 1 .. gridSize
    <3>1. k \in {0, gridSize + 1}
      BY <1>1, <2>2
    <3>2. QED
      BY <2>2, <3>1 DEF RowsInStep
  <2>3. QED
    BY <2>1, <2>2
<1>5. tpc[t] = "sweep2" => Average(grid1, i[t]) = 2 * iters[t] - 1
  <2> SUFFICES ASSUME tpc[t] = "sweep2" PROVE Average(grid1, i[t]) = 2 * iters[t] - 1
    OBVIOUS
  <2>1. {grid1[i[t] - 1], grid1[i[t]], grid1[i[t] + 1]} \ {Boundary} = {2 * iters[t] - 2}
    BY <1>1, <1>2, <1>3 DEF Boundary
  <2>2. grid1[i[t]] = 2 * iters[t] - 2
    BY <1>1, <1>3
  <2>3. QED
    BY <1>2, <2>1, <2>2 DEF Average, Garbage
<1>6. tpc[t] = "sweep1" => Average(grid2, i[t]) = 2 * iters[t]
  <2> SUFFICES ASSUME tpc[t] = "sweep1" PROVE Average(grid2, i[t]) = 2 * iters[t]
    OBVIOUS
  <2>1. {grid2[i[t] - 1], grid2[i[t]], grid2[i[t] + 1]} \ {Boundary} = {2 * iters[t] - 1}
    BY <1>1, <1>2, <1>4 DEF Boundary
  <2>2. grid2[i[t]] = 2 * iters[t] - 1
    BY <1>1, <1>4
  <2>3. QED
    BY <1>2, <2>1, <2>2 DEF Average, Garbage
<1>7. QED
  BY <1>1, <1>5, <1>6

-----------------------------------------------------------------------------
LEMMA GridsInitInv ==
  ASSUME Init
  PROVE  GridsInv
<1> USE StripBounds
<1>1. GridsTypeOK
  BY DEF Init, GridsTypeOK, InitializeGrids, RowValues
<1>2. RowsInStep
  BY DEF Init, RowsInStep, InitializeGrids, Rows, Swept1, Swept2, OrInitial
<1>3. ResultsInStep
  BY DEF Init, ResultsInStep
<1>4. QED
  BY <1>1, <1>2, <1>3 DEF GridsInv

(* A step that leaves the grids and the results alone keeps them right, if *)
(* what counts as swept stays the same.                                    *)
LEMMA SameRows ==
  ASSUME GridsInv, SyncInv, UNCHANGED <<grids, maxDiff, joined, results>>,
         \A t \in Threads :
           /\ iters'[t] = iters[t] /\ (tpc'[t] = "exited" <=> tpc[t] = "exited")
           /\ \A k \in first(t) .. last(t) :
                (Swept1(t, k)' <=> Swept1(t, k)) /\ (Swept2(t, k)' <=> Swept2(t, k))
  PROVE  GridsInv'
<1>1. GridsTypeOK'
  BY DEF GridsInv, GridsTypeOK, grids
<1>2. RowsInStep'
  BY DEF GridsInv, RowsInStep, grids
<1>3. ResultsInStep'
  BY DEF GridsInv, ResultsInStep
<1>4. QED
  BY <1>1, <1>2, <1>3 DEF GridsInv

LEMMA MainKeepsGrids ==
  ASSUME EvenStrips, SyncInv, GridsInv, MainStep
  PROVE  GridsInv'
<1> USE StripBounds DEF SyncInv, WorkersInv
<1>1. CASE CreateWorker
  <2>1. /\ created \in Threads /\ tpc[created] = "unborn"
        /\ tpc' = [tpc EXCEPT ![created] = IF numIters >= 1 THEN "sweep2" ELSE "diff"]
        /\ i' = [i EXCEPT ![created] = first(created)]
        /\ UNCHANGED <<iters, grids, maxDiff, joined, results>>
    BY <1>1 DEF CreateWorker, Move, WorkersTypeOK, Threads, numWorkers
  <2>2. ASSUME NEW t \in Threads, NEW k \in first(t) .. last(t)
        PROVE  (Swept1(t, k)' <=> Swept1(t, k)) /\ (Swept2(t, k)' <=> Swept2(t, k))
    BY <2>1 DEF Swept1, Swept2, WorkersTypeOK
  <2>3. \A t \in Threads : tpc'[t] = "exited" <=> tpc[t] = "exited"
    BY <2>1 DEF WorkersTypeOK
  <2>4. QED
    BY <2>1, <2>2, <2>3, SameRows
<1>2. CASE JoinWorker
  <2>1. /\ UNCHANGED <<tpc, iters, i, grids, maxDiff, results>>
        /\ joined' = joined + 1 /\ tpc[joined] = "exited" /\ joined \in Nat
    BY <1>2 DEF JoinWorker, WorkersTypeOK
  <2>2. GridsTypeOK' /\ RowsInStep'
    BY <2>1 DEF GridsInv, GridsTypeOK, RowsInStep, Swept1, Swept2, grids
  <2>3. ResultsInStep'
    BY <2>1 DEF GridsInv, ResultsInStep
  <2>4. QED
    BY <2>2, <2>3 DEF GridsInv
<1>3. CASE PrintResults
  <2>1. /\ UNCHANGED <<tpc, iters, i, grids, maxDiff, joined>>
        /\ joined = numWorkers
        /\ results' = <<UNION {maxDiff[t] : t \in Threads}, grid2>>
    BY <1>3 DEF PrintResults
  <2>2. GridsTypeOK' /\ RowsInStep'
    BY <2>1 DEF GridsInv, GridsTypeOK, RowsInStep, Swept1, Swept2, grids
  <2>3. \A t \in Threads : tpc[t] = "exited" /\ iters[t] = numIters + 1
    BY <2>1 DEF GridsInv, ResultsInStep, CallsMade, Threads, numWorkers
  <2>4. \A t \in Threads : maxDiff[t] = LastDifferences(first(t) .. last(t))
    BY <2>3 DEF GridsInv, ResultsInStep
  <2>5. UNION {maxDiff[t] : t \in Threads} = LastDifferences(1 .. gridSize)
    <3>1. ASSUME NEW k \in 1 .. gridSize
          PROVE  \E t \in Threads : k \in first(t) .. last(t)
      BY RowOwner
    <3>2. \A t \in Threads : first(t) .. last(t) \subseteq 1 .. gridSize
      OBVIOUS
    <3>3. QED
      BY <2>4, <3>1, <3>2 DEF LastDifferences
  <2>6. grid2 = [k \in Rows |-> IF k \in 1 .. gridSize THEN LastButOne ELSE Boundary]
    <3>1. ASSUME NEW k \in Rows
          PROVE  grid2[k] = IF k \in 1 .. gridSize THEN LastButOne ELSE Boundary
      <4>1. CASE k \in 1 .. gridSize
        <5>1. PICK t \in Threads : k \in first(t) .. last(t)
          BY <4>1, RowOwner
        <5>2. grid2[k] = OrInitial(2 * iters[t] - 3)
          BY <2>3, <5>1 DEF GridsInv, RowsInStep, Swept2
        <5>3. QED
          BY <2>3, <4>1, <5>2 DEF LastButOne
      <4>2. CASE k \in {0, gridSize + 1}
        BY <4>2 DEF GridsInv, RowsInStep
      <4>3. QED
        BY <4>1, <4>2 DEF Rows
    <3>2. QED
      BY <3>1 DEF GridsInv, GridsTypeOK
  <2>7. ResultsInStep'
    BY <2>1, <2>5, <2>6 DEF GridsInv, ResultsInStep, LastSweeps
  <2>8. QED
    BY <2>2, <2>7 DEF GridsInv
<1>4. QED
  BY <1>1, <1>2, <1>3 DEF MainStep

LEMMA UpdateKeepsGrids ==
  ASSUME EvenStrips, SyncInv, GridsInv, NEW t \in Threads, UpdateGrid2(t) \/ UpdateGrid1(t)
  PROVE  GridsInv'
<1> USE StripBounds DEF SyncInv, WorkersInv
<1> DEFINE k == i[t]
<1>1. /\ UNCHANGED <<tpc, iters, maxDiff, joined, results>>
      /\ i' = [i EXCEPT ![t] = k + 1] /\ i \in [Threads -> 1 .. gridSize + 1]
      /\ Sweeping(t)
  BY DEF UpdateGrid2, UpdateGrid1, NextRow, Sweeping, mainvars, WorkersTypeOK
<1>2. k \in first(t) .. last(t) /\ k \in 1 .. gridSize /\ k \in Rows
  BY <1>1, SweptRow DEF GridsInv, Rows
<1>3. iters[t] \in Nat /\ 1 <= iters[t] /\ iters[t] <= numIters
  BY <1>1 DEF Sweeping, WorkersTypeOK, CallsMade
<1>4. ResultsInStep'
  BY <1>1 DEF GridsInv, ResultsInStep
<1>5. CASE UpdateGrid2(t)
  <2>1. /\ tpc[t] = "sweep2" /\ grid1' = grid1
        /\ grid2' = [grid2 EXCEPT ![k] = 2 * iters[t] - 1]
    BY <1>1, <1>5, SweptRow DEF UpdateGrid2, NextRow, GridsInv
  <2>2. GridsTypeOK'
    <3>1. 2 * iters[t] - 1 \in RowValues
      BY <1>3 DEF RowValues
    <3>2. QED
      BY <1>1, <2>1, <3>1 DEF GridsInv, GridsTypeOK
  <2>3. ASSUME NEW u \in Threads, NEW r \in first(u) .. last(u)
        PROVE  /\ grid2'[r] = IF Swept2(u, r)' THEN 2 * iters[u] - 1
                              ELSE OrInitial(2 * iters[u] - 3)
               /\ grid1'[r] = IF Swept1(u, r)' THEN 2 * iters[u] ELSE 2 * iters[u] - 2
    <3>1. r \in Rows
      BY DEF Rows
    <3>2. CASE u = t
      BY <1>1, <1>2, <2>1, <3>1, <3>2 DEF GridsInv, GridsTypeOK, RowsInStep, Swept1, Swept2
    <3>3. CASE u # t
      <4>1. r # k /\ i'[u] = i[u]
        BY <1>1, <1>2, <3>3, StripsDisjoint
      <4>2. (Swept1(u, r)' <=> Swept1(u, r)) /\ (Swept2(u, r)' <=> Swept2(u, r))
        BY <1>1, <4>1 DEF Swept1, Swept2
      <4>3. QED
        BY <2>1, <3>1, <4>1, <4>2 DEF GridsInv, GridsTypeOK, RowsInStep
    <3>4. QED
      BY <3>2, <3>3
  <2>4. \A r \in {0, gridSize + 1} : grid1'[r] = Boundary /\ grid2'[r] = Boundary
    BY <1>2, <2>1 DEF GridsInv, GridsTypeOK, RowsInStep, Rows
  <2>5. RowsInStep'
    BY <1>1, <2>3, <2>4 DEF RowsInStep
  <2>6. QED
    BY <1>4, <2>2, <2>5 DEF GridsInv
<1>6. CASE UpdateGrid1(t)
  <2>1. /\ tpc[t] = "sweep1" /\ grid2' = grid2
        /\ grid1' = [grid1 EXCEPT ![k] = 2 * iters[t]]
    BY <1>1, <1>6, SweptRow DEF UpdateGrid1, NextRow, GridsInv
  <2>2. GridsTypeOK'
    <3>1. 2 * iters[t] \in RowValues
      BY <1>3 DEF RowValues
    <3>2. QED
      BY <1>1, <2>1, <3>1 DEF GridsInv, GridsTypeOK
  <2>3. ASSUME NEW u \in Threads, NEW r \in first(u) .. last(u)
        PROVE  /\ grid2'[r] = IF Swept2(u, r)' THEN 2 * iters[u] - 1
                              ELSE OrInitial(2 * iters[u] - 3)
               /\ grid1'[r] = IF Swept1(u, r)' THEN 2 * iters[u] ELSE 2 * iters[u] - 2
    <3>1. r \in Rows
      BY DEF Rows
    <3>2. CASE u = t
      BY <1>1, <1>2, <2>1, <3>1, <3>2 DEF GridsInv, GridsTypeOK, RowsInStep, Swept1, Swept2
    <3>3. CASE u # t
      <4>1. r # k /\ i'[u] = i[u]
        BY <1>1, <1>2, <3>3, StripsDisjoint
      <4>2. (Swept1(u, r)' <=> Swept1(u, r)) /\ (Swept2(u, r)' <=> Swept2(u, r))
        BY <1>1, <4>1 DEF Swept1, Swept2
      <4>3. QED
        BY <2>1, <3>1, <4>1, <4>2 DEF GridsInv, GridsTypeOK, RowsInStep
    <3>4. QED
      BY <3>2, <3>3
  <2>4. \A r \in {0, gridSize + 1} : grid1'[r] = Boundary /\ grid2'[r] = Boundary
    BY <1>2, <2>1 DEF GridsInv, GridsTypeOK, RowsInStep, Rows
  <2>5. RowsInStep'
    BY <1>1, <2>3, <2>4 DEF RowsInStep
  <2>6. QED
    BY <1>4, <2>2, <2>5 DEF GridsInv
<1>7. QED
  BY <1>5, <1>6

LEMMA WorkerKeepsGrids ==
  ASSUME EvenStrips, SyncInv, GridsInv, NEW t \in Threads, WorkerStep(t)
  PROVE  GridsInv'
<1> USE StripBounds DEF SyncInv, WorkersInv
<1>1. CASE EndSweep(t)
  <2>1. /\ \/ tpc[t] = "sweep2" /\ tpc' = [tpc EXCEPT ![t] = "sync2"]
           \/ tpc[t] = "sweep1" /\ tpc' = [tpc EXCEPT ![t] = "sync1"]
        /\ i[t] > last(t) /\ UNCHANGED <<iters, i, grids, maxDiff, joined, results>>
    BY <1>1 DEF EndSweep, Move, mainvars
  <2>2. ASSUME NEW u \in Threads, NEW k \in first(u) .. last(u)
        PROVE  (Swept1(u, k)' <=> Swept1(u, k)) /\ (Swept2(u, k)' <=> Swept2(u, k))
    BY <2>1 DEF Swept1, Swept2, WorkersTypeOK
  <2>3. \A u \in Threads : iters'[u] = iters[u] /\ (tpc'[u] = "exited" <=> tpc[u] = "exited")
    BY <2>1 DEF WorkersTypeOK
  <2>4. QED
    BY <2>1, <2>2, <2>3, SameRows
<1>2. CASE StartSweep1(t)
  <2>1. /\ tpc[t] = "sync2" /\ tpc' = [tpc EXCEPT ![t] = "sweep1"]
        /\ i' = [i EXCEPT ![t] = first(t)]
        /\ UNCHANGED <<iters, grids, maxDiff, joined, results>>
    BY <1>2 DEF StartSweep1, BeginRows, Move, mainvars
  <2>2. ASSUME NEW u \in Threads, NEW k \in first(u) .. last(u)
        PROVE  (Swept1(u, k)' <=> Swept1(u, k)) /\ (Swept2(u, k)' <=> Swept2(u, k))
    BY <2>1 DEF Swept1, Swept2, WorkersTypeOK
  <2>3. \A u \in Threads : iters'[u] = iters[u] /\ (tpc'[u] = "exited" <=> tpc[u] = "exited")
    BY <2>1 DEF WorkersTypeOK
  <2>4. QED
    BY <2>1, <2>2, <2>3, SameRows
<1>3. CASE NextIteration(t)
  <2>1. /\ tpc[t] = "sync1"
        /\ tpc' = [tpc EXCEPT ![t] = IF iters[t] + 1 <= numIters THEN "sweep2" ELSE "diff"]
        /\ i' = [i EXCEPT ![t] = first(t)]
        /\ iters' = [iters EXCEPT ![t] = iters[t] + 1]
        /\ UNCHANGED <<grids, maxDiff, joined, results>>
    BY <1>3 DEF NextIteration, BeginRows, Move, mainvars
  <2>2. GridsTypeOK'
    BY <2>1 DEF GridsInv, GridsTypeOK, grids
  <2>3. ASSUME NEW u \in Threads, NEW k \in first(u) .. last(u)
        PROVE  /\ grid2[k] = IF Swept2(u, k)' THEN 2 * iters'[u] - 1
                             ELSE OrInitial(2 * iters'[u] - 3)
               /\ grid1[k] = IF Swept1(u, k)' THEN 2 * iters'[u] ELSE 2 * iters'[u] - 2
    <3>1. CASE u = t
      <4>1. grid2[k] = 2 * iters[t] - 1 /\ grid1[k] = 2 * iters[t]
        BY <2>1, <3>1 DEF GridsInv, RowsInStep, Swept1, Swept2
      <4>2. iters[t] \in Nat \ {0} /\ iters'[t] = iters[t] + 1
        BY <2>1 DEF WorkersTypeOK
      <4>3. /\ tpc'[t] \in {"sweep2", "diff"} /\ i'[t] = first(t)
            /\ k \in Int /\ first(t) \in Int /\ first(t) <= k
        BY <2>1, <3>1 DEF WorkersTypeOK
      <4>4. ~Swept2(t, k)' /\ ~Swept1(t, k)'
        BY <4>3 DEF Swept1, Swept2
      <4>5. QED
        BY <3>1, <4>1, <4>2, <4>4 DEF OrInitial
    <3>2. CASE u # t
      <4>1. (Swept1(u, k)' <=> Swept1(u, k)) /\ (Swept2(u, k)' <=> Swept2(u, k))
        BY <2>1, <3>2 DEF Swept1, Swept2, WorkersTypeOK
      <4>2. iters'[u] = iters[u]
        BY <2>1, <3>2 DEF WorkersTypeOK
      <4>3. QED
        BY <4>1, <4>2 DEF GridsInv, RowsInStep
    <3>3. QED
      BY <3>1, <3>2
  <2>4. RowsInStep'
    BY <2>1, <2>3 DEF GridsInv, RowsInStep, grids
  <2>5. ResultsInStep'
    BY <2>1 DEF GridsInv, ResultsInStep, WorkersTypeOK
  <2>6. QED
    BY <2>2, <2>4, <2>5 DEF GridsInv
<1>4. CASE CompareGrids(t)
  <2>1. /\ tpc[t] = "diff" /\ tpc' = [tpc EXCEPT ![t] = "exited"]
        /\ maxDiff' = [maxDiff EXCEPT ![t] =
                         {<<k, grid1[k], grid2[k]>> : k \in first(t) .. last(t)}]
        /\ UNCHANGED <<iters, i, grids, joined, results>>
    BY <1>4 DEF CompareGrids, Move, mainvars
  <2>2. \A k \in first(t) .. last(t) :
          k \in Rows /\ grid1[k] \in RowValues /\ grid2[k] \in RowValues
    BY DEF GridsInv, GridsTypeOK, Rows
  <2>3. {<<k, grid1[k], grid2[k]>> : k \in first(t) .. last(t)}
          \in SUBSET (Rows \X RowValues \X RowValues)
    BY <2>2
  <2>4. GridsTypeOK'
    BY <2>1, <2>3 DEF GridsInv, GridsTypeOK, grids
  <2>5. RowsInStep'
    <3>1. \A u \in Threads : \A k \in first(u) .. last(u) :
            (Swept1(u, k)' <=> Swept1(u, k)) /\ (Swept2(u, k)' <=> Swept2(u, k))
      BY <2>1 DEF Swept1, Swept2, WorkersTypeOK
    <3>2. QED
      BY <2>1, <3>1 DEF GridsInv, RowsInStep, grids
  <2>6. iters[t] = numIters + 1
    BY <2>1 DEF CallsMade
  <2>7. \A k \in first(t) .. last(t) : grid1[k] = 2 * numIters /\ grid2[k] = LastButOne
    <3>1. \A k \in first(t) .. last(t) :
            grid1[k] = 2 * iters[t] - 2 /\ grid2[k] = OrInitial(2 * iters[t] - 3)
      BY <2>1 DEF GridsInv, RowsInStep, Swept1, Swept2
    <3>2. 2 * iters[t] - 2 = 2 * numIters /\ 2 * iters[t] - 3 = 2 * numIters - 1
      BY <2>6
    <3>3. QED
      BY <3>1, <3>2 DEF LastButOne
  <2>8. {<<k, grid1[k], grid2[k]>> : k \in first(t) .. last(t)}
          = LastDifferences(first(t) .. last(t))
    BY <2>7 DEF LastDifferences
  <2>9. ResultsInStep'
    BY <2>1, <2>8 DEF GridsInv, GridsTypeOK, ResultsInStep, WorkersTypeOK
  <2>10. QED
    BY <2>4, <2>5, <2>9 DEF GridsInv
<1>5. CASE UNCHANGED gvars
  BY <1>5, SameRows DEF gvars, mainvars, Swept1, Swept2
<1>6. QED
  BY <1>1, <1>2, <1>3, <1>4, <1>5, UpdateKeepsGrids DEF WorkerStep

LEMMA JacobiNextInv ==
  ASSUME EvenStrips, SyncInv, GridsInv, [Next]_vars
  PROVE  GridsInv'
<1>1. CASE UNCHANGED gvars
  BY <1>1, SameRows DEF gvars, mainvars, Swept1, Swept2
<1>2. QED
  BY <1>1, MainKeepsGrids, WorkerKeepsGrids DEF Next, WakeSpuriously, Terminated, vars

(* If numWorkers divides gridSize, every row is always the iterate that    *)
(* its worker has reached, and if main prints, it prints the last iterate  *)
(* but one and its difference from the last: for all sizes                 *)
(* (jacobi.c:60-80, 100-130).                                              *)
THEOREM JacobiInvariant ==
  ASSUME EvenStrips
  PROVE  Safety => []JacobiInv
<1>1. Init => GridsInv
  BY GridsInitInv
<1>2. SyncInv /\ GridsInv /\ [Next]_vars => GridsInv'
  BY JacobiNextInv
<1>3. SyncInv /\ GridsInv => JacobiInv
  BY SyncStaysInBounds DEF SyncInv, BarrierInv, GridsInv, JacobiInv
<1>4. QED
  BY <1>1, <1>2, <1>3, JacobiSynchronised, PTL DEF Safety

(* The results are printed after all workers have been joined.             *)
Finished == results # << >> => joined = numWorkers

LEMMA FinishedNext == SyncInv /\ Finished /\ [Next]_vars => Finished'
<1> SUFFICES ASSUME SyncInv, Finished, [Next]_vars PROVE Finished'
  OBVIOUS
<1>1. CASE MainStep
  <2>1. CASE CreateWorker
    BY <2>1 DEF CreateWorker, Finished
  <2>2. CASE JoinWorker
    <3>1. joined < numWorkers /\ joined \in Int /\ numWorkers \in Int /\ results' = results
      BY <2>2, StripBounds DEF JoinWorker, SyncInv, WorkersInv, WorkersTypeOK
    <3>2. joined # numWorkers
      BY <3>1
    <3>3. QED
      BY <3>1, <3>2 DEF Finished
  <2>3. CASE PrintResults
    BY <2>3 DEF PrintResults, Finished, numWorkers
  <2>4. QED
    BY <1>1, <2>1, <2>2, <2>3 DEF MainStep
<1>2. CASE UNCHANGED mainvars
  BY <1>2 DEF mainvars, Finished, numWorkers
<1>3. ASSUME NEW t \in Threads, WorkerStep(t) PROVE UNCHANGED mainvars
  BY <1>3 DEF WorkerStep, UpdateGrid2, UpdateGrid1, NextRow, EndSweep, StartSweep1,
              NextIteration, BeginRows, CompareGrids, gvars, mainvars
<1>4. QED
  BY <1>1, <1>2, <1>3 DEF Next, WakeSpuriously, Terminated, vars, gvars

(* When numWorkers divides gridSize and there is an iteration, no inner    *)
(* row is left as it was initialized, for all sizes (jacobi.c:3, 53,       *)
(* 100-117): the run thread_jacobi_strips shows that the division must     *)
(* leave no remainder.                                                     *)
THEOREM JacobiComputesEveryRow ==
  ASSUME EvenStrips, numIters >= 1
  PROVE  Safety => []EveryRowComputed
<1>1. Init => Finished
  BY DEF Init, Finished
<1>2. ASSUME JacobiInv, Finished, results # << >>, NEW k \in 1 .. gridSize
      PROVE  grid2[k] # 0
  <2>1. PICK t \in Threads : k \in first(t) .. last(t)
    BY RowOwner
  <2>2. joined = numWorkers /\ t < numWorkers
    BY <1>2, ThreadsAssumption DEF Finished, Threads, numWorkers
  <2>3. tpc[t] = "exited" /\ iters[t] = numIters + 1
    BY <1>2, <2>2 DEF JacobiInv, ResultsInStep, WorkersInv, CallsMade
  <2>4. grid2[k] = OrInitial(2 * iters[t] - 3)
    BY <1>2, <2>1, <2>3 DEF JacobiInv, RowsInStep, Swept2
  <2>5. QED
    BY <2>3, <2>4, StripBounds DEF OrInitial
<1>3. JacobiInv /\ Finished => EveryRowComputed
  BY <1>2 DEF EveryRowComputed
<1>4. QED
  BY <1>1, <1>3, FinishedNext, JacobiSynchronised, JacobiInvariant, PTL DEF Safety
=============================================================================
