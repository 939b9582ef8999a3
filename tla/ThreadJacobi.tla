----------------------------- MODULE ThreadJacobi -----------------------------
(***************************************************************************)
(* jacobi/jacobi.c: Jacobi iteration on a square grid by numWorkers        *)
(* threads.  Each sweeps its strip of rows from grid1 into grid2 and back, *)
(* with a call of the barrier of module Barrier after every sweep.         *)
(*                                                                         *)
(* A row is modelled by the number of sweeps that its values are the       *)
(* result of: its n-th iterate, computed from the (n-1)-th iterates of the *)
(* row itself and of the rows above and below.  A row computed from any    *)
(* other mixture is Garbage.  The rows of the boundary never change.  A    *)
(* step computes a whole row; NoDataRace justifies that.                   *)
(***************************************************************************)
EXTENDS Barrier

CONSTANTS gridSize, numIters   \* numWorkers is NTHREADS of module Barrier

numWorkers == NTHREADS

MAXGRID == 258

MAXWORKERS == 4

(* What the program needs of its arguments and does not check, and the two *)
(* calls of the barrier in each iteration.                                 *)
ASSUME JacobiAssumption ==
  /\ gridSize \in 1 .. MAXGRID - 2
  /\ numWorkers <= MAXWORKERS
  /\ numIters \in Nat
  /\ Calls = 2 * numIters

Rows == 0 .. gridSize + 1

VARIABLES
  tpc,            \* what each worker is doing
  iters, i,       \* its local variables
  grid1, grid2,
  maxDiff,        \* the rows each worker compared, as <<row, grid1, grid2>>
  created, joined,
  results         \* what main prints: << >>, or <<maxdiff, grid2>>

grids == <<grid1, grid2>>

mainvars == <<created, joined, results>>

gvars == <<tpc, iters, i, grids, maxDiff, mainvars>>

vars == <<gvars, bvars>>

Garbage == -1

Boundary == -2

stripSize == gridSize \div numWorkers

first(t) == t * stripSize + 1

last(t) == first(t) + stripSize - 1

(* One row of a sweep over grid g                                          *)
Average(g, k) ==
  LET from == {g[k - 1], g[k], g[k + 1]} \ {Boundary}
  IN IF from = {g[k]} /\ g[k] # Garbage THEN g[k] + 1 ELSE Garbage

RowValues == 0 .. 2 * numIters \cup {Garbage, Boundary}

WorkersTypeOK ==
  /\ tpc \in [Threads -> {"unborn", "sweep2", "sync2", "sweep1", "sync1", "diff",
                          "exited"}]
  /\ iters \in [Threads -> 1 .. numIters + 1]
  /\ i \in [Threads -> 1 .. gridSize + 1]
  /\ created \in 0 .. numWorkers
  /\ joined \in 0 .. created

GridsTypeOK ==
  /\ grid1 \in [Rows -> RowValues]
  /\ grid2 \in [Rows -> RowValues]
  /\ maxDiff \in [Threads -> SUBSET (Rows \X RowValues \X RowValues)]

InitializeGrids == [k \in Rows |-> IF k \in {0, gridSize + 1} THEN Boundary ELSE 0]

Init ==
  /\ BarrierInit
  /\ tpc = [t \in Threads |-> "unborn"]
  /\ iters = [t \in Threads |-> 1]
  /\ i = [t \in Threads |-> 1]
  /\ grid1 = InitializeGrids
  /\ grid2 = InitializeGrids
  /\ maxDiff = [t \in Threads |-> {}]
  /\ created = 0
  /\ joined = 0
  /\ results = << >>

Move(t, from, to) == tpc[t] = from /\ tpc' = [tpc EXCEPT ![t] = to]

-----------------------------------------------------------------------------
(* main                                                                    *)
CreateWorker ==
  /\ created < numWorkers
  /\ Move(created, "unborn", IF numIters >= 1 THEN "sweep2" ELSE "diff")
  /\ i' = [i EXCEPT ![created] = first(created)]
  /\ created' = created + 1
  /\ UNCHANGED <<iters, grids, maxDiff, joined, results>>

JoinWorker ==
  /\ created = numWorkers
  /\ joined < numWorkers
  /\ tpc[joined] = "exited"
  /\ joined' = joined + 1
  /\ UNCHANGED <<tpc, iters, i, grids, maxDiff, created, results>>

PrintResults ==
  /\ joined = numWorkers
  /\ results = << >>
  /\ results' = <<UNION {maxDiff[t] : t \in Threads}, grid2>>
  /\ UNCHANGED <<tpc, iters, i, grids, maxDiff, created, joined>>

MainStep == (CreateWorker \/ JoinWorker \/ PrintResults) /\ UNCHANGED bvars

-----------------------------------------------------------------------------
(* Worker: a row of each of the two sweeps                                 *)
NextRow(t, sweep) ==
  /\ tpc[t] = sweep
  /\ i[t] <= last(t)
  /\ i' = [i EXCEPT ![t] = @ + 1]
  /\ UNCHANGED <<tpc, iters, maxDiff, mainvars, bvars>>

(* Mutant of UpdateGrid2: it averages grid2 itself, in place.              *)
UpdateGrid2InPlace(t) ==
  /\ NextRow(t, "sweep2")
  /\ grid2' = [grid2 EXCEPT ![i[t]] = Average(grid2, i[t])]
  /\ UNCHANGED grid1

UpdateGrid2(t) ==
  /\ NextRow(t, "sweep2")
  /\ grid2' = [grid2 EXCEPT ![i[t]] = Average(grid1, i[t])]
  /\ UNCHANGED grid1

UpdateGrid1(t) ==
  /\ NextRow(t, "sweep1")
  /\ grid1' = [grid1 EXCEPT ![i[t]] = Average(grid2, i[t])]
  /\ UNCHANGED grid2

(* the end of a sweep, and barrier()                                       *)
EndSweep(t) ==
  /\ i[t] > last(t)
  /\ Move(t, "sweep2", "sync2") \/ Move(t, "sweep1", "sync1")
  /\ CallBarrier(t)
  /\ UNCHANGED <<iters, i, grids, maxDiff, mainvars>>

(* the start of a sweep, or of the last loop                               *)
BeginRows(t, from, to) ==
  /\ Move(t, from, to)
  /\ i' = [i EXCEPT ![t] = first(t)]
  /\ UNCHANGED <<grids, maxDiff, mainvars, bvars>>

(* Mutant of StartSweep1: the worker does not wait in the barrier.         *)
StartSweep1Early(t) == BeginRows(t, "sync2", "sweep1") /\ UNCHANGED iters

(* back from barrier()                                                     *)
StartSweep1(t) ==
  /\ bpc[t] = "out"
  /\ BeginRows(t, "sync2", "sweep1")
  /\ UNCHANGED iters

(* Mutant of NextIteration: one iteration too many.                        *)
NextIterationOneMore(t) ==
  /\ bpc[t] = "out"
  /\ iters' = [iters EXCEPT ![t] = @ + 1]
  /\ BeginRows(t, "sync1", IF iters[t] <= numIters THEN "sweep2" ELSE "diff")

NextIteration(t) ==
  /\ bpc[t] = "out"
  /\ iters' = [iters EXCEPT ![t] = @ + 1]
  /\ BeginRows(t, "sync1", IF iters[t] + 1 <= numIters THEN "sweep2" ELSE "diff")

(* the maximum difference in the strip                                     *)
CompareGrids(t) ==
  /\ Move(t, "diff", "exited")
  /\ maxDiff' = [maxDiff EXCEPT ![t] =
                   {<<k, grid1[k], grid2[k]>> : k \in first(t) .. last(t)}]
  /\ UNCHANGED <<iters, i, grids, mainvars, bvars>>

WorkerStep(t) ==
  \/ UpdateGrid2(t)
  \/ UpdateGrid1(t)
  \/ EndSweep(t)
  \/ StartSweep1(t)
  \/ NextIteration(t)
  \/ CompareGrids(t)
  \/ BarrierStep(t) /\ UNCHANGED gvars

WakeSpuriously(t) == SpuriousWakeup(t) /\ UNCHANGED gvars

Terminated == results # << >> /\ UNCHANGED vars

Next ==
  \/ MainStep
  \/ \E t \in Threads : WorkerStep(t) \/ WakeSpuriously(t)
  \/ Terminated

Safety == Init /\ [][Next]_vars

Spec == Safety /\ WF_vars(MainStep) /\ \A t \in Threads : WF_vars(WorkerStep(t))

-----------------------------------------------------------------------------
(* The rows of both grids that a thread's next step reads and writes       *)
Sweeping(t) == tpc[t] \in {"sweep2", "sweep1"} /\ i[t] <= last(t)

Writes(t) ==
  IF Sweeping(t) THEN {<<tpc[t], i[t]>>} ELSE {}

Reads(t) ==
  IF Sweeping(t)
  THEN {IF tpc[t] = "sweep2" THEN "sweep1" ELSE "sweep2"} \X (i[t] - 1 .. i[t] + 1)
  ELSE IF tpc[t] = "diff" THEN {"sweep1", "sweep2"} \X (first(t) .. last(t))
  ELSE {}

(* No worker is about to write a row that another is about to read or      *)
(* write: the barrier separates the sweeps, also when it is used again at  *)
(* once (jacobi.c:100-117).                                                *)
NoDataRace ==
  \A t, u \in Threads : t # u => Writes(t) \cap (Reads(u) \cup Writes(u)) = {}

(* The strips of all workers lie inside of the boundary, which is read and *)
(* never written, and so inside of the arrays (jacobi.c:31, 53, 97-117):   *)
(* with the arguments that the program needs and does not check.           *)
RowsInBounds ==
  \A t \in Threads :
    /\ \A access \in Writes(t) : access[2] \in 1 .. gridSize
    /\ \A access \in Reads(t) : access[2] \in Rows

(* Whether worker t has done row k of its strip in the current iteration   *)
Swept2(t, k) ==
  tpc[t] \in {"sync2", "sweep1", "sync1"} \/ (tpc[t] = "sweep2" /\ k < i[t])

Swept1(t, k) == tpc[t] = "sync1" \/ (tpc[t] = "sweep1" /\ k < i[t])

(* the n-th iterate, or what the grids are initialized with                *)
OrInitial(n) == IF n < 0 THEN 0 ELSE n

(* The calls of the barrier a worker has made, by where it is; only at     *)
(* sync1 and sync2 may it be inside.                                       *)
CallsMade ==
  \A t \in Threads :
    /\ tpc[t] = "unborn" => calls[t] = 0 /\ iters[t] = 1
    /\ tpc[t] = "sweep2" => calls[t] = 2 * iters[t] - 2
    /\ tpc[t] \in {"sync2", "sweep1"} => calls[t] = 2 * iters[t] - 1
    /\ tpc[t] = "sync1" => calls[t] = 2 * iters[t]
    /\ tpc[t] \in {"diff", "exited"} => calls[t] = 2 * numIters /\ iters[t] = numIters + 1
    /\ tpc[t] \in {"sweep2", "sync2", "sweep1", "sync1"} => iters[t] <= numIters
    /\ bpc[t] # "out" => tpc[t] \in {"sync1", "sync2"}

RowRanges ==
  \A t \in Threads :
    /\ tpc[t] \in {"sweep2", "sweep1"} => i[t] \in first(t) .. last(t) + 1
    /\ tpc[t] \in {"sync2", "sync1"} => i[t] = last(t) + 1

WorkersInv == WorkersTypeOK /\ CallsMade /\ RowRanges

(* Every row of a strip is the iterate that its worker has reached, so no  *)
(* sweep ever mixes rows of different iterates (jacobi.c:100-117); the     *)
(* boundary stays as it was.                                               *)
RowsInStep ==
  /\ \A t \in Threads : \A k \in first(t) .. last(t) :
       /\ grid2[k] = IF Swept2(t, k) THEN 2 * iters[t] - 1 ELSE OrInitial(2 * iters[t] - 3)
       /\ grid1[k] = IF Swept1(t, k) THEN 2 * iters[t] ELSE 2 * iters[t] - 2
  /\ \A k \in {0, gridSize + 1} : grid1[k] = Boundary /\ grid2[k] = Boundary

(* What the program is to compute: the last iterate but one in grid2, and  *)
(* its difference from the last.                                           *)
LastButOne == OrInitial(2 * numIters - 1)

LastDifferences(rows) == {<<k, 2 * numIters, LastButOne>> : k \in rows}

LastSweeps ==
  <<LastDifferences(1 .. gridSize),
    [k \in Rows |-> IF k \in 1 .. gridSize THEN LastButOne ELSE Boundary]>>

(* What has been handed to main so far is right.                           *)
ResultsInStep ==
  /\ \A t \in Threads :
       /\ tpc[t] = "exited" => maxDiff[t] = LastDifferences(first(t) .. last(t))
       /\ t < joined => tpc[t] = "exited"
  /\ results \in {<< >>, LastSweeps}

(* The inductive invariant, of the workers and of the grids; no worker     *)
(* leaves the grid or writes its boundary (jacobi.c:31, 97-117).           *)
JacobiInv ==
  BarrierTypeOK /\ WorkersInv /\ RowsInBounds /\ GridsTypeOK /\ RowsInStep /\ ResultsInStep

(* The program ends, whatever the schedule and the spurious wakeups, and   *)
(* what main prints is the last iterate but one, of all rows, and the      *)
(* difference of the last two (jacobi.c:60-80): so it is when numWorkers   *)
(* divides gridSize.                                                       *)
PrintsLastSweeps == <>(results = LastSweeps)

(* "At each cell, it will take the average of it's neighbours"             *)
(* (jacobi.c:3): no inner row is left as it was at the start.              *)
EveryRowComputed ==
  results # << >> => \A k \in 1 .. gridSize : grid2[k] # 0
=============================================================================
