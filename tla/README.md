# Parallel programming examples in TLA+

The repository is a collection of small parallel programs in C and C++: pthread
programs under `src/shared-memory` and MPI programs under `src/mpi`. Each of them
exists to show one way in which threads or processes cooperate, several in a
correct and in a deliberately wrong version. This directory holds TLA+ models of
them, the TLC runs that check the models, and proofs of the properties that hold
for every number of threads.

- [The system](#the-system): its parts, their state, how they interact, what is hard
- [The modules](#the-modules): which module models what, and how
- [The runs](#the-runs): what each checks, its bounds, why they are enough
- [Fairness](#fairness)
- [Where the code and its documentation disagree](#where-the-code-and-its-documentation-disagree)
- [Proofs](#proofs): what is proved, from what, along which argument
- [What is not modelled](#what-is-not-modelled)
- [Plan](#plan)

Check one model with `tlc -config PrefixSum.cfg PrefixSum.tla`, one proof module
with `tlapm BarrierProofs.tla`. `PROJECT.json` maps every definition to the lines
it models, and lists the runs, one mutant of the code per property, the
hazards and the theorems.

## The system

Every program stands alone: they share no code that is linked, only code that
was copied (the barrier) or varied (good and bad versions).

| Part | Source | State | Operations | Interaction |
|---|---|---|---|---|
| Reusable barrier | `prefix-sum/s2768394.c:48-53, 182-212`, `jacobi/jacobi.c:156-199` | mutex, condition variable, `nthread`, `round`; `current_round` per call | `barrier_init`, `barrier` | called by all threads, twice (prefix sum) or `2*numIters` times (Jacobi) |
| Prefix sum | `prefix-sum/s2768394.c` | array `data`, per thread a chunk | `phase_1`, `phase_2` (thread 0), `phase_3`, `parallelprefixsum`, `checkresult` | `data` is shared without a lock; only the two barriers order the accesses |
| Prefix sum, other monitor | `prefix-sum/badMonitor.c` | one mutex, two condition variables, one `round` | the same phases; `thread` contains the monitor | thread 0 runs phase 2 inside the monitor |
| Jacobi, threads | `shared-memory/jacobi/jacobi.c` | `grid1`, `grid2`, `maxDiff[]` | `Worker`, `InitializeGrids`, `main` | workers read their neighbours' rows; a barrier after every sweep |
| Jacobi, MPI | `mpi/jacobi/jacobi.cpp` | each process its part with two ghost cells, error, iteration count | Bcast, Scatter, two Sendrecv, `do_one_step`, Allreduce, Gather | ring of processes, collectives |
| Prime sieve, MPI | `mpi/prime-sieve/generator.cpp`, `siever.cpp` | per siever its prime and whether it has a successor | spawn, send, receive | a chain that grows while numbers stream through it |
| Task farm, MPI | `mpi/task-allocation/mpi.cpp` | farmer: next task, results, count; worker: its task | three phases of the farmer, the loop of the worker | messages with the task number as tag, receive from any source |
| Counter | `counter/goodCounter.c`, `badCounter.c` | `target`, semaphore `lock` (good only) | `adderthread`, `main` | all threads add to `target` |
| Producer, consumer | `producer-consumer/good..`, `badProducerConsumer.c` | `data`, semaphores `empty` and `full` (good only) | `Producer`, `Consumer`, `main` | one shared variable handed back and forth |
| Hello world, multi-argument threads | `hello-world/*.c`, `prefix-sum/multiArgumentThreads.c` | loop variable `i`, `threadargs` | create threads that print, join them | the threads read memory of main, which goes on to change it (bad version) |

What is hard about them, and what makes them correct:

- **Barrier.** It is used again at once, so a fast thread can be at the next use
  while slow ones still have to leave the last; waits may return spuriously; the
  mutex can be taken by anyone between the broadcast and the return of a waiter.
  Correct: nobody leaves before all have arrived (`NoOvertaking`), nobody waits
  for a round that is over (`NoLostWakeup`), everyone leaves.
- **Prefix sum.** No item may be read by one thread while another can write it
  (`NoDataRace`), chunk bounds and the special cases of the first and last chunk
  must fit together (`IndicesInBounds`), no input may be added to an item twice and no
  final item written again (`NothingAddedTwice`), main must report a match.
- **badMonitor.** Its header says that one `round` for two condition variables is
  wrong. The question is how wrong: `CorrectUnlessSpurious`, `LastArrivalStays`,
  `OneSpuriousWakeupEach` and `MonitorInv` (which says that phase 2 always follows
  every phase 1) say which executions and which threads are affected, by how many
  wakeups, and what holds in spite of it.
- **Thread Jacobi.** Each sweep must be made from rows of one iterate
  (`JacobiInv`, with its part `RowsInStep`), no row may be written while another
  worker reads it (`NoDataRace`), strips must stay inside of the boundary
  (`RowsInBounds`), and what main prints must be one iterate (`PrintsLastSweeps`).
- **MPI Jacobi.** Messages have no iteration number and one tag, and with two
  processes both neighbours are the same rank; every process decides for itself
  when to stop (`ExchangeInv`, `LeaveTogether`, `PrintsSequentialResult`).
- **Prime sieve.** Stages of any relative speed, a process spawned in midstream,
  a stop signal that must come last everywhere (`PipelineInv`,
  `NoCandidateLost`, and the abstract list of primes).
- **Task farm.** Results in any order, fewer or more workers than tasks,
  termination signals from two places (`FarmInv`, `SignalAfterLastTask`,
  `OnlySecondSignalsUnread`, and the abstract bag of tasks).
- **Counter.** Lost updates; none in the good program (`CounterInv`), and how many
  at most in the bad one (`BoundedLoss`, which says nothing of the good one).
- **Producer and consumer.** Two semaphores make a slot of one variable
  (`TakeTurns`, and the abstract buffer); `int` overflow in the report
  (`ReportedSums`); what the bad program keeps (`FetchesNeverGoBack`).
- **Hello world, multi-argument threads.** A thread reads its arguments at any time
  after its creation: each must get its own, and packs whole (`OwnArguments`). One
  that is passed the address of the loop variable may get any number, but which
  one says how far main and the other threads were (`LateReads`). What is passed
  must outlive its use (`GoodbyeAfterAll`).

There are no crashes, retries or timeouts in this code, and no message is lost or
doubled: pthreads and MPI are used in the default mode, in which an error ends the
program.

`PROJECT.json` lists 37 hazards at their lines, with the properties that cover
each. Two are about arguments that the programs need and do not check: fewer items
than threads (`s2768394.c:156`), and workers or grids beyond the fixed arrays
(`jacobi.c:51`). There the properties (`IndicesInBounds`, `RowsInBounds`) show
that the programs stay inside of their arrays *under* the named assumptions on the
constants. In `s2768394.c` main does check that `NITEMS` and `NTHREADS` are
"sensible" (218-219), but only against upper limits: with fewer items than threads
a chunk is empty and `phase_2` starts at `data[-1]`.

## The modules

| Module | Extends | Models |
|---|---|---|
| `ThreadSet` | | the threads of a pthread program |
| `PhaseBarrier` | | abstract: what a reusable barrier promises |
| `Barrier` | `ThreadSet` | the monitor; refines `PhaseBarrier` |
| `BarrierProofs` | `Barrier` | proofs |
| `PrefixPhases` | `ThreadSet` | what the two prefix sums share: main, the three phases, the properties of `data` |
| `PrefixPhasesProofs` | `PrefixPhases` | proofs about chunks and phases, however these are synchronised |
| `PrefixSum` | `PrefixPhases`, `Barrier` | `s2768394.c` |
| `PrefixSumProofs` | `PrefixSum`, `PrefixPhasesProofs`, `BarrierProofs` | proofs |
| `BadMonitor` | `PrefixPhases` | `badMonitor.c` |
| `BadMonitorProofs` | `BadMonitor`, `PrefixPhasesProofs` | proofs |
| `ThreadJacobi` | `Barrier` | `shared-memory/jacobi/jacobi.c` |
| `ThreadJacobiProofs` | `ThreadJacobi`, `BarrierProofs` | proofs |
| `MpiJacobi`, `MCMpiJacobi` | | `mpi/jacobi/jacobi.cpp`; the second gives inputs for TLC |
| `PrimeList` | | abstract: the primes below N, in order |
| `PrimeSieve` | | generator and sievers; refines `PrimeList` |
| `BagOfTasks` | | abstract: tasks taken once and handed in once |
| `TaskFarm` | | farmer and workers; refines `BagOfTasks` |
| `MpiProofs` | `TaskFarm`, `PrimeSieve`, `MpiJacobi` | proofs |
| `Counter` | | both counters |
| `OneSlotBuffer` | | abstract: a buffer of one slot |
| `ProducerConsumer` | | both programs; the good one refines `OneSlotBuffer` |
| `SemaphoreProofs` | `Counter`, `ProducerConsumer` | proofs |
| `ThreadArguments` | `ThreadSet` | `badHelloWorld.c`, `goodHelloWorld.c`, `multiArgumentThreads.c` |
| `ThreadArgumentsProofs` | `ThreadArguments` | proofs |

Variables and actions have the names of the source where it has one. Control is kept
step by step: a step is what a thread or process does between two points at which
others can see a difference. Operations of a named mutant (`...Untested`,
`...TooSoon`, ...) stand before the definition they are a mutation of; no
specification uses them.

**Barrier.** `bpc[t]` is the place of thread `t` in `barrier()`: wanting the mutex
(`lock`), holding it and not counted (`enter`), in `pthread_cond_wait` (`wait`),
out of the wait and wanting the mutex again (`woken`), holding it and about to test
the loop condition (`check`), about to unlock (`unlock`), elsewhere (`out`).
`ArriveLast` is the branch `nthread == NTHREADS` with its broadcast, `ArriveEarly`
the other branch up to the wait, which frees the mutex in the same step as POSIX
demands; `WaitAgain` and `LeaveLoop` are the loop condition. The `mutex` is modelled
because a woken thread has to compete for it with threads of the next round.
`calls` and `spurious` are history variables.

**PrefixPhases, PrefixSum.** `tpc[t]` says which phase a thread is in; one step is
one iteration of the loop of that phase. A value is the *interval of inputs it is
the sum of*, so one behaviour stands for all inputs, and any sum that no prefix sum
contains is `Garbage`. An addition reads and writes in one step; `NoDataRace`, which
is about the items that the *next* step of every thread reads and writes, justifies
that. The composed actions join a phase to the barrier: `EnterBarrier1` is the end
of phase 1 and the call, `StartPhase2` the return to thread 0, `SkipPhase2` the
return to the others and their next call, and so on. Their loop-free code in
between touches locals only.

**BadMonitor.** The same phases. `mpc[t]` is the place in the monitor that
`thread()` contains; a waiter's condition variable follows from its number. Thread 0
runs `phase_2` at `inside`, with the mutex. `spurious` counts spurious wakeups, and
`CorrectUnlessSpurious` is about behaviours in which there were none so far.

**ThreadJacobi.** A grid row is the number of sweeps its values result from
(`Average` is that number plus one if the three rows read agree, and `Garbage`
otherwise), so the model knows about *which iterate* a row is, and not about
floating point. `maxDiff[t]` is the set of the pairs of rows that were compared.

**MpiJacobi.** `chan[p][q]` is the FIFO that MPI guarantees between two ranks for
one tag. A Sendrecv is a send step and a receive step. Collectives: `Bcast` and
`Scatter` let the root go ahead; `Allreduce` returns only when all processes have
called it as often; `Gather` makes the root wait for all. `local_error` is the
history of what each process gave to `MPI_Allreduce`. Values are integers in a unit in
which every average is exact, so results can be compared for equality with those
of a sequential program (`Iterates`, a recursive function).

**PrimeSieve, TaskFarm.** One FIFO per pair of processes that communicate. A
standard-mode `MPI_Send` may return at once or only when its message is received,
at the library's choice: it is a state of its own (`send`), which may be left at
any time. In TaskFarm the tag of a message is the task number, as in the code.

**Counter, ProducerConsumer.** The good and the bad program are one module; a
variable that never changes (`guarded`, `synchronized`) says which. The addition
in the counter is a load and a store. In ProducerConsumer an `int` is one of
`-INT_MAX - 1 .. INT_MAX` and wraps around. Overflow is undefined in C; wrapping around is what the
usual build does.

**ThreadArguments.** Three programs in one module, told apart by `program`: they have the
same loops in main and differ in what `pthread_create` is given, which is what
`Arguments(t)` says: the variable `i` as it is *when the thread reads it*, the
value of `i` at the creation, or a pack. `mpc = "created"` is the point between
`pthread_create` and `i++`, at which the new thread may already run. A thread reads the
three members of a pack in three steps. In the bad program the read of `i` races with
main's stores. It is modelled as a read of one of the values `i` has: each store comes
before a library call that the address might have reached, so the compiler
has to make it, and a `long` is stored in one piece.

## The runs

| Run | Constants | States | Question |
|---|---|---|---|
| `prefix_sum` | 10 items, 4 threads, 2 spurious wakeups | 38568 | Do two uses of the barrier separate the phases, and is the result right? |
| `bad_monitor` | 9 items, 4 threads, 2 spurious wakeups | 17428 | What remains true with the wrong monitor? |
| `thread_jacobi` | 3 workers, 6 rows, 2 iterations (4 uses of the barrier), 1 spurious wakeup | 17336 | Does every sweep see one iterate? Does `BarrierInv` hold when the barrier is in use? |
| `thread_jacobi_strips` | 2 workers, 3 rows | violation | Is every row computed? |
| `mpi_jacobi` | 6 cells; 1, 2, 3, 4 and 6 processes; two inputs; limit 2 | 55550 | Is the result that of a sequential program, and does everyone stop together? |
| `mpi_jacobi_converged` | 6 cells, the values the program sets, limit 12 | violation | Has it converged when it says so? |
| `prime_sieve` | N = 14 (six sievers) | 18182 | Are exactly the primes printed, in order, and does the pipeline end? |
| `prime_sieve_too_small` | N = 2 | violation | Is only a prime printed? |
| `task_farm` | 4 tasks; 1 to 5 workers | 25111 | Is each task done once, and when does the farm end? |
| `counter` | 3 threads, 3 additions each; both programs | 348573 | Are updates lost, and how many at most? |
| `producer_consumer` | up to 6 items, `INT_MAX` = 15; both programs | 50786 | Is the good program a one-slot buffer? When are the printed sums right? |
| `thread_arguments` | 4 threads; the three programs | 26318 | Does each thread get what main meant for it? What can a thread of the bad program print? |

Why the bounds are enough:

- *prefix_sum*: 4 threads make a first, two middle and a last chunk; 10 items over
  4 threads give chunks of 2, 2, 2 and 4, so the last is longer and phase 2 needs its
  special case; chunks of two and more give phase 3 something to do. Four threads
  are enough for a fast thread, two waiters of different rounds and a last
  arrival. Two spurious wakeups can hit the same or different threads and rounds.
- *bad_monitor*: 4 threads: thread 0, two that arrive early and wait together, so that
  two wakeups can hit one of them or both, and one that arrives last, in any order.
  Chunks 2, 2, 2, 3.
- *thread_jacobi*: strips at the top, in the middle and at the bottom; two
  iterations reuse each grid and the barrier in both directions.
- *mpi_jacobi*: one process (its own neighbour), two (both neighbours the same),
  three (proper ring), six (parts of one cell) and four (does not divide 6: abort).
  One input converges within the limit, the other gives up. The program itself sets
  one input and says "or read from file/input" (`jacobi.cpp:150, 164`); the
  second input stands for such a problem. The iteration limit is a parameter; it is
  100000 in the code.
- *prime_sieve*: up to 14 there are composites of two and three factors, twin primes
  next to each other in the stream, and a last stage that receives only its prime.
- *task_farm*: fewer workers than tasks, as many, and more.
- *counter*: three threads, so that two can interfere with a third at different moments; with
  three additions some are neither the first nor the last of their thread. The
  final value 2 is reached.
- *producer_consumer*: with `INT_MAX` = 15, `numIters*(numIters+1)` overflows at 4 items and
  the sum itself at 6, so every case of `ReportedSums` occurs.
- *thread_arguments*: 4 threads, so that a thread of the bad program can print a number
  of the joining loop below its own with two threads ended and two others still to
  read.

Every property has a mutant of the code that breaks it (`PROJECT.json`).

## Fairness

Threads: weak fairness for each thread and for main, that is, the scheduler runs
every thread that can run. Nothing stronger is needed. A mutex or semaphore is
acquired finitely often by each thread, so a thread that waits for it cannot be
passed for ever. A spurious wakeup is never required to happen, and `MaxSpurious`
bounds how often it does; a thread that was spuriously woken for ever would be a
behaviour that weak fairness alone cannot rule out. No safety property depends on
the bound, and the theorems hold for all its values.

MPI: weak fairness for each process, except that a standard-mode send is *required*
to return only once its message has been received. So the checks of termination of
the sieve and the farm cover libraries that buffer every message, none, or some of them. In
`MpiJacobi` it is enough that some process that can run does. There the send half of
`MPI_Sendrecv` is a step that never waits for its message to be taken, so the termination
of this program is checked for libraries that buffer that half only.

The abstract specifications state their own liveness (every released call returns; as
long as something is left to do, something is done), and the runs check it with the
refinement.

## Where the code and its documentation disagree

Found while modelling; each is a run that TLC ends with a counterexample.

1. `thread_jacobi_strips`: `stripSize = gridSize/numWorkers` (`jacobi.c:53`); when the
   division leaves a remainder, the last rows belong to no worker and keep their initial values
   in the printed result. The header says that each cell is averaged (`jacobi.c:3`).
2. `mpi_jacobi_converged`: after the warning that the limit is exceeded the program
   prints "Converged after" all the same (`jacobi.cpp:112-119, 132`). The values
   that `read_problem` sets go there: on a ring of even length, cells of even and
   odd index have different means, which every iteration swaps.
3. `prime_sieve_too_small`: the first siever does not test its first number for the
   stop signal (`siever.cpp:16`); with N <= 2 it prints that -1 is a prime and waits
   for ever.

The theorems `JacobiComputesEveryRow`, `JacobiConvergedWithinLimit` and
`SievePrintsOnlyPrimes` say that there is nothing more to each of the three: without a
remainder, with convergence within the limit, and with N > 2 the same property holds,
for all sizes.

A fourth needs no run, as no interleaving is involved. The value after "should be" is
computed as `numIters*(numIters+1)/2` (`goodProducerConsumer.c:67`), and the product
overflows long before the sum: from 46341 to 65535 iterations, with an `int` of 32 bits,
the total printed is right and the value that it should be is not. So `ReportedSums`
claims that the two are equal only as long as the product fits.

With more workers than tasks the surplus workers of the task farm get the signal in
phase 1 and once more in phase 3 (`mpi.cpp:81-90, 129-138`), when they have ended.
The code states the assumption that there are no more workers than tasks (line 84), so
this is not a run of its own: `OnlySecondSignalsUnread` says that these are the only
messages that are never received, and `FarmTermination` is stated for no more workers than
tasks, since a library that does not buffer lets the farmer wait for ever otherwise.

What the repository itself says is wrong (the "bad" programs, and badMonitor's header) is
not reported as a finding; the properties of those programs say what does hold. For
`badHelloWorld.c`, whose threads may print numbers lower than their own, `LateReads`
gives the reason: `i` is used again by the loop that joins.

## Proofs

TLAPS checks them for all values of the constants that satisfy the named assumptions.
In `MpiProofs` and `SemaphoreProofs`, each of which is about several programs, every
theorem is about the specification of one of them (`FarmSafety`, `SieveSafety`, `Safety` of
MpiJacobi; `Safety` of Counter, `ProdConsSafety`).

| Theorem | Says |
|---|---|
| `BarrierProofs!BarrierInvariant` | `BarrierSafety => []BarrierInv` |
| `BarrierProofs!BarrierNoOvertaking` | `BarrierSafety => []NoOvertaking` |
| `BarrierProofs!BarrierRefinement` | `BarrierSafety => Phases!Safety`: the monitor implements the abstract barrier |
| `PrefixSumProofs!PrefixInvariant` | `Safety => []PrefixInv` |
| `PrefixSumProofs!PrefixUsesBarrier` | `Safety => BarrierSafety`: the prefix sum is a user of the barrier |
| `PrefixSumProofs!PrefixImplementsBarrier` | `Safety => Phases!Safety` |
| `PrefixSumProofs!PrefixNoDataRace` | `Safety => []NoDataRace` |
| `PrefixSumProofs!PrefixAddsOnce` | `Safety => NothingAddedTwice`: every write extends the sum of an item to the left |
| `PrefixSumProofs!PrefixResultMatches` | `Safety => []ResultMatches`: main never reports a mismatch |
| `PrefixSumProofs!PrefixIndicesInBounds` | `Safety => []IndicesInBounds` |
| `BadMonitorProofs!MonitorInvariant` | `Safety => []MonitorInv` |
| `BadMonitorProofs!MonitorCorrectUnlessSpurious` | `Safety => []CorrectUnlessSpurious` |
| `BadMonitorProofs!MonitorHoldsLastArrival` | `Safety => []LastArrivalStays` |
| `BadMonitorProofs!MonitorOneSpuriousWakeupEach` | `Safety => []OneSpuriousWakeupEach` |
| `BadMonitorProofs!MonitorPhase2AfterPhase1` | `Safety => []Phase2AfterPhase1` |
| `BadMonitorProofs!MonitorIndicesInBounds` | `Safety => []IndicesInBounds` |
| `ThreadJacobiProofs!JacobiSynchronised` | `Safety => []SyncInv` |
| `ThreadJacobiProofs!JacobiUsesBarrier` | `Safety => BarrierSafety` |
| `ThreadJacobiProofs!JacobiNoDataRace` | `Safety => []NoDataRace` |
| `ThreadJacobiProofs!JacobiRowsInBounds` | `Safety => []RowsInBounds` |
| `ThreadJacobiProofs!JacobiInvariant` | if numWorkers divides gridSize, `Safety => []JacobiInv`: what main prints is right |
| `ThreadJacobiProofs!JacobiComputesEveryRow` | if so and with an iteration, `Safety => []EveryRowComputed` |
| `SemaphoreProofs!CounterInvariant` | `Safety => []CounterInv`: the good program prints P*N |
| `SemaphoreProofs!CounterBoundedLoss` | `Safety => []BoundedLoss`: the bad program prints at least 2 and at most P*N |
| `SemaphoreProofs!ProdConsInvariant` | `ProdConsSafety => []ProdConsInv` |
| `SemaphoreProofs!ProdConsNeverGoesBack` | `ProdConsSafety => []FetchesNeverGoBack`, with and without semaphores |
| `SemaphoreProofs!ProdConsReports` | `ProdConsSafety => []ReportedSums` |
| `SemaphoreProofs!ProdConsRefinement` | `ProdConsSafety => Buffer!Safety`: the good program is a buffer of one slot |
| `MpiProofs!FarmInvariant` | `FarmSafety => []FarmInv` |
| `MpiProofs!FarmSignalAfterLastTask` | `FarmSafety => []SignalAfterLastTask` |
| `MpiProofs!FarmUnreadSignals` | `FarmSafety => []OnlySecondSignalsUnread` |
| `MpiProofs!FarmRefinement` | `FarmSafety => Bag!Safety`: every task is taken once and handed in once |
| `MpiProofs!PipelineInvariant` | if N > 2, `SieveSafety => []PipelineInv` |
| `MpiProofs!SieveLosesNoCandidate` | if N > 2, `SieveSafety => []NoCandidateLost` |
| `MpiProofs!SieveRefinement` | if N > 2, `SieveSafety => List!Safety`: each number printed is the next prime |
| `MpiProofs!SievePrintsOnlyPrimes` | if N > 2, `SieveSafety => []OnlyPrimesPrinted` |
| `MpiProofs!JacobiExchange` | `Safety => []ExchangeInv` |
| `MpiProofs!JacobiLeavesTogether` | `Safety => []LeaveTogether` |
| `MpiProofs!JacobiPrintsResult` | `Safety => []PrintsSequentialResult` |
| `MpiProofs!JacobiConvergedWithinLimit` | `Safety => [](LastIteration <= MAX_ITER => ConvergedWhenPrinted)` |
| `ThreadArgumentsProofs!ArgumentsInvariant` | `Safety => []IInv` |
| `ThreadArgumentsProofs!ThreadsGetOwnArguments` | `Safety => []OwnArguments` |
| `ThreadArgumentsProofs!ThreadsReadLate` | `Safety => []LateReads` |
| `ThreadArgumentsProofs!MainEndsLast` | `Safety => [](mpc = "done" => ...)`: main is done after all threads, the safety part of `GoodbyeAfterAll` |

**Barrier.** Assumptions: at least one thread; `Calls` and `MaxSpurious` are natural
numbers. `NoOvertaking` is not inductive: it does not say why a thread may leave the loop. The
invariant relates the monitor's two counters to where the threads are. `Counted(t)`
is the number of rounds thread `t` has been counted in. `RoundCount` says that
`nthread` is the number of threads counted in the open round `round + 1`, that all
others are counted in exactly `round` rounds, and that a thread in the loop
has noted the round it was counted in. The last arrival is the critical step:
with `nthread + 1 = NTHREADS`, cardinality gives that *every* other thread is
counted in the open round (lemma `EveryoneArrived`), which is what makes it safe to
open the next. `NoLostWakeup` says that a thread still blocked has noted the open
round, so a broadcast never comes too early for it. From the invariant,
`Passed(t) <= round <= calls[u]` for all `t` and `u`, which is `NoOvertaking`. For the
refinement, a call is `Arrive`, the unlock is `Depart`, whose guard is again
`round <= calls[u]`, and all other steps are stutters.

**Prefix sum.** Assumptions: at least one thread, at least one item per thread, two calls
of the barrier. The argument has three layers.

1. *The chunks* (`PrefixPhasesProofs`): from the definition of a slice by integer division, the
   chunks are not empty, do not overlap and cover the array (`ChunkBounds`,
   `ItemsInChunks`, `OwnItem`).
2. *The phases* (`PrefixPhasesProofs`): as long as `PhasesOrdered` holds (phase 2 after every
   phase 1, phase 3 after phase 2) no two next accesses conflict
   (`OrderedPhasesDoNotRace`), and each step of main and of a phase keeps
   `PhasesInv` (one lemma per action). Types and ranges (`Sane`) are kept even by
   phases out of order. This layer does not know how the phases are
   kept in order, so it serves `BadMonitor` too.
3. *The barrier* (`PrefixSumProofs`): `CallsMade` ties the phase of a thread to the number of
   its calls of `barrier()`, so a thread in phase 3 is past two barriers, and by
   `Passed(t) <= round <= calls[u]` every other has called it twice, hence is
   past phase 1, and thread 0 past phase 2: `BarrierOrdersPhases`. Every step is a
   `BarrierNext` step or leaves the barrier alone (`NextUsesBarrier`), so the theorems about the
   barrier carry over.

`NoDataRace` by itself is not inductive, since it does not exclude that a thread
enters a phase too early. It needs the order of the phases, which needs
`CallsMade` and the barrier's invariant; that every item is the partial sum the phases
account for (`PhaseData`) needs in addition the ranges of the
loop variables (`PhaseRanges`). Together these are `PrefixInv`. `NothingAddedTwice` is about
steps: each of the three steps that write data finds there what `PhaseData` says and
adds the interval to its left (`NextExtendsSums`).

**BadMonitor.** Assumptions: at least one thread, at least one item per thread, any bound on
spurious wakeups. `MInv` says what the monitor guarantees in spite of its shared round:
`nthread` is the number of threads that have arrived, and the round is past 0 only
when all have (`Rounds`). Hence phase 2 comes after every phase 1 (`Phase1First`).
`Wakeups` is the critical part. Before phase 2 is over no thread but
0 has been woken by another, so there are at most as many threads `Awake` as there
were spurious wakeups, and those past their loop had noted round 0. One thread
has noted round 1, the last to arrive, so it is not among them: that gives
`LastArrivalStays` and `OneSpuriousWakeupEach`. With no spurious wakeup, `Awake` is empty,
so the phases are in order (`MonitorOrdersPhases`), and the second layer of the prefix
sum gives `CorrectUnlessSpurious`.

**Thread Jacobi.** Assumptions: what the program needs of its arguments (`JacobiAssumption`),
and that each iteration calls the barrier twice. Again `CallsMade` ties the place of a
worker to the number of its calls, here with the iteration: a worker in the first
sweep of iteration `n` has made `2n-2` calls. With `Passed(t) <= round <= calls[u]` two
workers are then in the same sweep, or one of them is in a call of the barrier next to
it (`SweepsApart`), since `2n-1` is never even. So no row is written by one and read by
another (`SyncDoesNotRace`); this holds whether or not the strips cover the grid. When
they do (`EvenStrips`), every row beside the one that is swept belongs to a worker
that has done the last sweep and not begun the next, so all rows read are the same
iterate (`SweptRow`), which keeps `RowsInStep`. That `EvenStrips` is needed is what
the run `thread_jacobi_strips` shows.

**Counter.** Assumption: at least one thread and one addition each. `target` is
compared with the *set* `Additions` of the pairs (thread, how-manieth addition)
stored so far: a store adds one pair (`OneMoreAddition`), nothing else changes it, and it
has P*N elements when every thread is done. With the semaphore `target` is its
cardinality, because the value loaded is still `target` at the store: one thread
is in the addition at a time. That is `CounterInv`. The other program is the subject of
`BoundedLoss`: every loaded value is at most the cardinality, which gives the upper bound. For the lower: a store that is not the first of its
thread has loaded at least 1, since `target` is never 0 again after a
store, and the last store of all is such a store if N > 1; the invariant says
that `target` is at least `LeastFinal` when all additions are stored. Both need the types
and the progress of the threads, so they are inductive together (`CountInv`). The bound is
sharp: TLC finds runs that print 2.

**ThreadArguments.** Assumption: at least one thread. `LoopsInOrder` derives from `i` and
the loop main is in which threads exist, which packs are filled and which threads have
ended; `ReadsInOrder` says that what a thread has read so far is the beginning of what
it is to read. `OwnArguments` follows from these. `LateReads` relates a number read
*earlier* to the state now, so it is part of the invariant: at the read, `i < t`
in a thread that exists means that main is in the loop that joins (`Created`), and
everything below `i` has ended; afterwards threads that have ended stay so
(`MainKeepsThreads`).

**ProducerConsumer.** Assumption: `INT_MAX` is positive and the loop variable fits
an `int`. With the semaphores there is one unit that goes round in a cycle of four:
`empty`, the producer between its wait and its post, `full`, the consumer between its wait
and its post. `TakeTurns` says where it is, and that while the
consumer has it, `data` is the number not fetched yet; neither semaphore alone is enough for that. `RightSum` carries the
sum of the numbers fetched through the wrapping addition: it is the total as long as it
fits, because the sums before it do. For the refinement the slot is full while the unit is on
the consumer's side, and the items still to come are those from `NextItem` on. In the bad
program too, all numbers fetched are at most `data` and `data` is at most `produced`
(`Loops`), so the next one fetched is not older: `FetchesNeverGoBack`.

**Task farm.** Assumptions: any number of tasks, at least one worker. `SignalAfterLastTask`
is not inductive, as it does not know what is under way. `Conversation` does: from
the farmer's place it derives the `Stage` of each worker, and from the stage the few
combinations of place, messages in and out, and task held that are possible. Each step
changes the conversation of at most one worker, so the proof has one lemma per action. What
it adds to the conversation is its effect on the tasks (`TaskEffect`): every step keeps the
tasks held, hands the next one out to a worker that holds none, or takes one in from the worker
that holds it with its own result. `TaskAccounting` follows from it, and
the refinement step by step. That no task is with a worker when the farmer leaves phase 2
is by cardinality: it has as many results as there are tasks, and each is the result
of a different one (`AllAnswered`).

**Prime sieve.** Hypothesis N > 2; for N <= 2 the first siever takes the signal for its
prime (run `prime_sieve_too_small`). Every action either leaves the queues (what a stage holds
followed by what is on its way to it) as they are, or takes the first element of one, puts it at the
end of the next, or both. The lemmas about queues are about these three cases
(`Dropped`, `Passed`, `Added`), and the actions are instances of them. That candidates
are sorted, sifted and not lost, the order of the stages and what has been printed have to be proved
together: a stage that is born needs to know that its first number is no signal, which
comes from its predecessor's place, and that what follows is larger. With all of this, the
number that a siever takes for its prime is the least prime not printed yet: a divisor
of it is smaller than it, so no longer waiting, so a prime that was printed divides the
divisor and hence the number (`DivisorsDivisor`), which the stages before have excluded.

**MPI Jacobi.** Assumption (`JacobiAssumption`): at least one cell, any finite number of
processes that is positive, inputs that are rings of integers, any limit. The
program keeps no iteration number in its messages, so the proof counts: `SentLeft`,
`ReceivedRight`, `SentRight`, `ReceivedLeft` are how often a process has taken each half of the
two exchanges. `MPI_Allreduce` keeps the iterations of any two processes at most one apart
(`InStep`), and the blocking receives keep the halves so (`CountFacts`); hence at most one
message per direction is under way, and the counts determine the whole content of each
channel (`UnderWay`): each message is a cell of the iterate that its receiver is at. This is also
right when both neighbours are the same process, where the order of the two messages in
the one channel matters, or the process itself. The ring is divided by integer
division; `Geometry` and `Locating` say which cells the parts and ghost cells are. The
largest of the errors of the parts is the error of the ring (`LargestError`), so the test that
each process makes for itself is the one that a sequential program makes. `Iterates` is a recursive
function; that it satisfies its equation, and that a finite set of numbers has a largest
element, are proved from the principle that every nonempty set of natural numbers has a least
element (`LeastNatural`), which stands in for an induction.

Only model-checked: liveness, since fairness and ENABLED are outside of what the prover
handles. That is that the programs end (`FarmTermination`, `ProdConsTermination`,
`SieveTermination`, and `Termination` of the others), that they reach their result (`ReportsMatch`,
`PrintsLastSweeps`, the second part of `GoodbyeAfterAll`), and the liveness of the refinements.
Every other property of a passing run is the statement of a theorem.

## What is not modelled

- `barrier()` in `badMonitor.c:220-239`, which nothing calls.
- The wrong use of arguments: more than 4 workers or a grid over 256 in the thread
  Jacobi program, negative counts, `np < 2` in the task farm (it exits at once).
- `MPI_Abort` when the allocation of the local buffer fails (`jacobi.cpp:64-69`): it ends
  all processes.
- Arithmetic of floats, time measurement, printing except where a property is about it.
- Files generated by CMake under `src/mpi/*/build`, editor settings, `README.md` and
  images.

## Plan

The order is by importance: the barrier is shared by two programs and carries the
others' correctness, so it comes first.

1. *Done.* `Barrier` with `PhaseBarrier`, `PrefixPhases`, `PrefixSum`, all with their safety
   properties proved. Then the programs that use it or vary it: `ThreadJacobi`, `BadMonitor`.
   Then the MPI programs `TaskFarm`, `MpiJacobi`, `PrimeSieve`, and `Counter` and
   `ProducerConsumer`. The proofs of the counter.
2. *Done.* `ThreadArguments` with its proofs: which arguments a thread may
   print when it reads a variable that main changes. `IndicesInBounds`,
   `RowsInBounds` and `OneSpuriousWakeupEach`, for hazards that no property covered.
   `ThreadJacobiProofs`: the second program that uses the barrier. `BadMonitorProofs`:
   all safety properties of the two-condition monitor.
3. *Done.* `SemaphoreProofs` and `MpiProofs`: every invariant and
   every action property that a run checks, and the safety of all refinements, for all
   sizes; and for each of the three findings the condition under which the property
   holds.
4. *Next.* What the theorems do not say yet of the programs as a whole: that main of the
   producer and consumer prints only after both threads have ended; for how many
   workers no message of the task farm is left unread; that the number of sievers is
   the number of primes below N when all have ended.
