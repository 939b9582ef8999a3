------------------------------ MODULE MpiJacobi ------------------------------
(***************************************************************************)
(* mpi/jacobi/jacobi.cpp: Jacobi iteration on a ring of ARR_SIZE values,   *)
(* divided among np processes that exchange the values at the ends of      *)
(* their parts, reduce their errors to the largest, and stop together.     *)
(*                                                                         *)
(* chan[p][q] holds the messages from p to q that are not yet received, in *)
(* order.  With two processes both neighbours are the same process, with   *)
(* one they are the process itself; all messages have the same tag.        *)
(* MPI_Sendrecv posts its receive together with its send, so it returns    *)
(* when its message has come, buffered sends or not.                       *)
(*                                                                         *)
(* The values are integers in units so small that every average taken is   *)
(* exact: inputs are multiples of 2^(MAX_ITER + 1).  Inputs holds the      *)
(* problems that read_problem may set: it sets one, as an example, "or     *)
(* reads from file/input" (150, 164).  ACCEPTABLE and MAX_ITER stand for   *)
(* acceptable_error (0.001) and the 100000 iterations after which the      *)
(* program gives up.                                                       *)
(***************************************************************************)
EXTENDS Integers, Sequences, FiniteSetsExt

CONSTANTS ARR_SIZE, NPs, Inputs, ACCEPTABLE, MAX_ITER

Cells == 0 .. ARR_SIZE - 1

ASSUME JacobiAssumption ==
  /\ ARR_SIZE \in Nat \ {0}
  /\ NPs \subseteq Nat \ {0} /\ NPs # {}
  /\ MAX_ITER \in Nat
  /\ ACCEPTABLE \in Nat \ {0}
  /\ Inputs \subseteq [Cells -> Int]
  /\ \A w \in Inputs, c \in Cells : w[c] % (2 ^ (MAX_ITER + 1)) = 0

VARIABLES
  np,            \* num_of_processes, the argument of mpirun
  input,         \* the problem that read_problem sets
  pc,            \* where each process is
  local,         \* the part of each process, with ghost cells at its ends
  local_error,   \* history: the errors each process gave to MPI_Allreduce
  global_error,
  iterations,
  chan,
  work,          \* the results gathered by process 0
  printed        \* what process 0 says: "", "Warning", and at last "Converged"

problem == <<np, input>>

progress == <<local_error, global_error, iterations>>

output == <<work, printed>>

vars == <<problem, pc, local, progress, chan, output>>

Ranks == 0 .. np - 1

orchestrator == 0

size_per_process == ARR_SIZE \div np

Points == {"read", "bcast", "scatter", "exchange", "left", "inner",
           "right", "compute", "reduce", "gather", "done", "aborted"}

left_process(r) == (r + np - 1) % np

right_process(r) == (r + 1) % np

Abs(x) == IF x < 0 THEN -x ELSE x

TypeOK ==
  /\ np \in NPs /\ input \in Inputs
  /\ pc \in [Ranks -> Points]
  /\ local \in [Ranks -> [0 .. size_per_process + 1 -> Int]]
  /\ local_error \in [Ranks -> Seq(Nat)]
  /\ global_error \in [Ranks -> Nat]
  /\ iterations \in [Ranks -> 0 .. MAX_ITER + 1]
  /\ chan \in [Ranks -> [Ranks -> Seq(Int)]]
  /\ work \in [Cells -> Int]
  /\ printed \in Seq({"Warning", "Converged"})

Init ==
  /\ np \in NPs
  /\ input \in Inputs
  /\ pc = [r \in Ranks |-> IF r = orchestrator THEN "read" ELSE "bcast"]
  /\ local = [r \in Ranks |-> [k \in 0 .. size_per_process + 1 |-> 0]]
  /\ local_error = [r \in Ranks |-> << >>]
  /\ global_error = [r \in Ranks |-> ACCEPTABLE + 1]
  /\ iterations = [r \in Ranks |-> 0]
  /\ chan = [p \in Ranks |-> [q \in Ranks |-> << >>]]
  /\ work = input
  /\ printed = << >>

Goto(r, from, to) == pc[r] = from /\ pc' = [pc EXCEPT ![r] = to]

-----------------------------------------------------------------------------
(* read_problem and the divisibility check; MPI_Abort ends every process.  *)
ReadProblem(r) ==
  /\ Goto(r, "read", "bcast")
  /\ ARR_SIZE % np = 0
  /\ UNCHANGED <<problem, local, progress, chan, output>>

Abort(r) ==
  /\ pc[r] = "read"
  /\ ARR_SIZE % np # 0
  /\ pc' = [q \in Ranks |-> "aborted"]
  /\ UNCHANGED <<problem, local, progress, chan, output>>

(* MPI_Bcast and MPI_Scatter: the others need what process 0 sends.        *)
Bcast(r) ==
  /\ Goto(r, "bcast", "scatter")
  /\ r # orchestrator => pc[orchestrator] \notin {"read", "bcast"}
  /\ UNCHANGED <<problem, local, progress, chan, output>>

Scatter(r) ==
  /\ Goto(r, "scatter", "exchange")
  /\ r # orchestrator => pc[orchestrator] \notin {"read", "bcast", "scatter"}
  /\ local' = [local EXCEPT ![r] =
                 [k \in DOMAIN @ |-> IF k \in 1 .. size_per_process
                                     THEN input[r * size_per_process + k - 1]
                                     ELSE @[k]]]
  /\ UNCHANGED <<problem, progress, chan, output>>

-----------------------------------------------------------------------------
(* The two halves of the two calls of MPI_Sendrecv                         *)
Send(r, dest, cell) ==
  /\ chan' = [chan EXCEPT ![r][dest] = Append(@, local[r][cell])]
  /\ UNCHANGED <<problem, local, progress, output>>

Recv(r, source, cell) ==
  /\ chan[source][r] # << >>
  /\ local' = [local EXCEPT ![r][cell] = Head(chan[source][r])]
  /\ chan' = [chan EXCEPT ![source][r] = Tail(@)]
  /\ UNCHANGED <<problem, progress, output>>

(* Mutant of SendLeft: the value at the wrong end goes to the left.        *)
SendLeftWrongEnd(r) ==
  Goto(r, "exchange", "left") /\ Send(r, left_process(r), size_per_process)

SendLeft(r) == Goto(r, "exchange", "left") /\ Send(r, left_process(r), 1)

RecvRight(r) ==
  Goto(r, "left", "inner") /\ Recv(r, right_process(r), size_per_process + 1)

SendRight(r) ==
  Goto(r, "inner", "right") /\ Send(r, right_process(r), size_per_process)

RecvLeft(r) == Goto(r, "right", "compute") /\ Recv(r, left_process(r), 0)

new_local(r) ==
  [k \in DOMAIN local[r] |->
     IF k \in 1 .. size_per_process
     THEN (local[r][k - 1] + local[r][k + 1]) \div 2 ELSE local[r][k]]

(* do_one_step, and the call of MPI_Allreduce with the local error         *)
do_one_step(r) ==
  /\ Goto(r, "compute", "reduce")
  /\ local' = [local EXCEPT ![r] = new_local(r)]
  /\ local_error' = [local_error EXCEPT ![r] =
       Append(@, Max({Abs(new_local(r)[k] - local[r][k]) :
                        k \in 1 .. size_per_process}))]
  /\ UNCHANGED <<problem, global_error, iterations, chan, output>>

(* MPI_Allreduce returns once every process has called it as often.  Then  *)
(* the process gives up after limit iterations, has converged, or iterates *)
(* again.                                                                  *)
Reduced(n) == Max({local_error[q][n] : q \in Ranks})

EndIteration(r, n, limit, error) ==
  /\ Goto(r, "reduce", IF n > limit \/ error <= ACCEPTABLE
                       THEN "gather" ELSE "exchange")
  /\ global_error' = [global_error EXCEPT ![r] = error]
  /\ iterations' = [iterations EXCEPT ![r] = n]
  /\ printed' = IF n > limit /\ r = orchestrator
                THEN Append(printed, "Warning") ELSE printed
  /\ UNCHANGED <<problem, local, local_error, chan, work>>

(* Mutants of Allreduce: one iteration too many before giving up; every    *)
(* process goes by its own error.                                          *)
AllreduceOneMore(r) ==
  LET n == iterations[r] + 1 IN
  /\ \A q \in Ranks : Len(local_error[q]) >= n
  /\ EndIteration(r, n, MAX_ITER + 1, Reduced(n))

AllreduceOwnError(r) ==
  LET n == iterations[r] + 1 IN
  /\ \A q \in Ranks : Len(local_error[q]) >= n
  /\ EndIteration(r, n, MAX_ITER, local_error[r][n])

Allreduce(r) ==
  LET n == iterations[r] + 1 IN
  /\ \A q \in Ranks : Len(local_error[q]) >= n
  /\ EndIteration(r, n, MAX_ITER, Reduced(n))

(* MPI_Gather: process 0 waits for the parts of all and prints.  The part  *)
(* that a process sends begins at its cell k.                              *)
GatherFrom(r, k) ==
  /\ Goto(r, "gather", "done")
  /\ IF r = orchestrator
     THEN /\ \A q \in Ranks \ {r} : pc[q] = "done"
          /\ work' = [c \in Cells |->
               local[c \div size_per_process][k + (c % size_per_process)]]
          /\ printed' = Append(printed, "Converged")
     ELSE UNCHANGED output
  /\ UNCHANGED <<problem, local, progress, chan>>

(* Mutant of Gather: the first cell sent is a ghost.                       *)
GatherGhosts(r) == GatherFrom(r, 0)

Gather(r) == GatherFrom(r, 1)

-----------------------------------------------------------------------------
Step(r) ==
  \/ ReadProblem(r)
  \/ Abort(r)
  \/ Bcast(r)
  \/ Scatter(r)
  \/ SendLeft(r)
  \/ RecvRight(r)
  \/ SendRight(r)
  \/ RecvLeft(r)
  \/ do_one_step(r)
  \/ Allreduce(r)
  \/ Gather(r)

AllEnded == \A r \in Ranks : pc[r] \in {"done", "aborted"}

Terminated == AllEnded /\ UNCHANGED vars

Next == (\E r \in Ranks : Step(r)) \/ Terminated

Safety == Init /\ [][Next]_vars

(* While some process can run, one of them does: nothing more is needed,   *)
(* since each of them runs into MPI_Allreduce and waits for the others.    *)
Spec == Safety /\ WF_vars(\E r \in Ranks : Step(r))

-----------------------------------------------------------------------------
(* The reference: the iterates of the whole ring for each input, and the   *)
(* iteration at which a sequential program would stop                      *)
Iterates ==
  [w \in Inputs |->
     LET g[n \in 0 .. MAX_ITER + 1] ==
           IF n = 0 THEN w
           ELSE [c \in Cells |-> (g[n - 1][(c + ARR_SIZE - 1) % ARR_SIZE]
                                    + g[n - 1][(c + 1) % ARR_SIZE]) \div 2]
     IN g]

(* The largest change of an iteration in a set of cells of the ring        *)
ChangeIn(w, n, cells) ==
  Max({Abs(Iterates[w][n][c] - Iterates[w][n - 1][c]) : c \in cells})

Change ==
  [w \in Inputs |-> [n \in 1 .. MAX_ITER + 1 |-> ChangeIn(w, n, Cells)]]

LastIteration ==
  Min({MAX_ITER + 1} \cup {n \in 1 .. MAX_ITER + 1 : Change[input][n] <= ACCEPTABLE})

Iterating(r) == pc[r] \notin {"read", "bcast", "scatter", "aborted"}

Computed(r) == Len(local_error[r])

(* The cell of the ring that cell k of process r stands for                *)
RingCell(r, k) == (r * size_per_process + k - 1 + ARR_SIZE) % ARR_SIZE

(* Process 0 decides for all whether there is anything to do.              *)
Starting ==
  /\ \A r \in Ranks : pc[r] = "read" => r = orchestrator
  /\ pc[orchestrator] \in {"read", "bcast"} =>
       \A r \in Ranks \ {orchestrator} : pc[r] = "bcast"
  /\ \A r \in Ranks : pc[r] = "aborted" => \A q \in Ranks : pc[q] = "aborted"
  /\ pc[orchestrator] \notin {"read", "aborted"} => ARR_SIZE % np = 0

(* No process goes beyond the iteration in which a sequential program      *)
(* stops, or into an iteration before all have computed the one before.    *)
InStep ==
  \A r \in Ranks :
    /\ Computed(r) = iterations[r] + IF pc[r] = "reduce" THEN 1 ELSE 0
    /\ ~Iterating(r) => iterations[r] = 0
    /\ IF pc[r] \in {"gather", "done"} THEN iterations[r] = LastIteration
                                       ELSE iterations[r] < LastIteration
    /\ \A q \in Ranks : iterations[r] <= Computed(q)

(* Each process holds its part of an iterate of the whole ring, and before *)
(* it computes its ghost cells are the neighbouring cells of the same      *)
(* iterate: messages of different iterations or directions never mix, even *)
(* when both neighbours are one process (jacobi.cpp:78-102, 183-213).      *)
HoldsPart(r) ==
  Iterating(r) =>
    LET g == Iterates[input][Computed(r)]
    IN /\ \A k \in 1 .. size_per_process : local[r][k] = g[RingCell(r, k)]
       /\ pc[r] \in {"inner", "right", "compute"} =>
            local[r][size_per_process + 1] = g[RingCell(r, size_per_process + 1)]
       /\ pc[r] = "compute" => local[r][0] = g[RingCell(r, 0)]

PartsOfIterates == \A r \in Ranks : HoldsPart(r)

(* How often each process has taken each half of the two exchanges         *)
Taken(r, points) == Computed(r) + IF pc[r] \in points THEN 1 ELSE 0

SentLeft(r)      == Taken(r, {"left", "inner", "right", "compute"})
ReceivedRight(r) == Taken(r, {"inner", "right", "compute"})
SentRight(r)     == Taken(r, {"right", "compute"})
ReceivedLeft(r)  == Taken(r, {"compute"})

(* The messages of p that are on their way, at most one in each direction: *)
(* the values of the iterate at which the receiver is.                     *)
InFlight(sent, received, c) ==
  IF sent > received THEN <<Iterates[input][received][c]>> ELSE << >>

ToLeft(p) ==
  InFlight(SentLeft(p), ReceivedRight(left_process(p)), RingCell(p, 1))

ToRight(p) ==
  InFlight(SentRight(p), ReceivedLeft(right_process(p)), RingCell(p, size_per_process))

UnderWay(p, q) ==
  (IF q = left_process(p) THEN ToLeft(p) ELSE << >>)
    \o (IF q = right_process(p) THEN ToRight(p) ELSE << >>)

(* Nothing is received that was not sent, and what is on its way between   *)
(* two processes is a value for the right ghost cell of the receiver, a    *)
(* value for the left one, or both in this order.                          *)
MessagesInOrder ==
  /\ \A p \in Ranks : /\ ReceivedRight(left_process(p)) <= SentLeft(p)
                      /\ ReceivedLeft(right_process(p)) <= SentRight(p)
  /\ \A p, q \in Ranks : chan[p][q] = UnderWay(p, q)

Part(r) == r * size_per_process .. r * size_per_process + size_per_process - 1

ErrorsOfIterates ==
  \A r \in Ranks :
    /\ \A n \in 1 .. Computed(r) : local_error[r][n] = ChangeIn(input, n, Part(r))
    /\ iterations[r] > 0 => global_error[r] = Change[input][iterations[r]]

Gathered ==
  pc[orchestrator] = "done" => /\ \A r \in Ranks : pc[r] = "done"
                               /\ work = Iterates[input][LastIteration]

ExchangeInv ==
  /\ TypeOK
  /\ Starting
  /\ InStep
  /\ PartsOfIterates
  /\ MessagesInOrder
  /\ ErrorsOfIterates
  /\ Gathered

(* All processes leave the loop in the same iteration, the one in which a  *)
(* sequential program would, and none is more than one iteration ahead     *)
(* (jacobi.cpp:104-121): otherwise one would wait for messages for ever.   *)
LeaveTogether ==
  \A r, q \in Ranks :
    /\ pc[r] \in {"gather", "done"} => iterations[r] = LastIteration
    /\ iterations[r] <= LastIteration
    /\ iterations[r] <= iterations[q] + 1

(* What process 0 prints is what a sequential program would print, and no  *)
(* message is left behind (jacobi.cpp:125-134).                            *)
PrintsSequentialResult ==
  pc[orchestrator] = "done" =>
    /\ work = Iterates[input][LastIteration]
    /\ global_error[orchestrator] = Change[input][LastIteration]
    /\ \A p, q \in Ranks : chan[p][q] = << >>

(* "Converged after .." is printed only if the error is acceptable         *)
(* (jacobi.cpp:132).                                                       *)
ConvergedWhenPrinted ==
  \A k \in DOMAIN printed :
    printed[k] = "Converged" => global_error[orchestrator] <= ACCEPTABLE

(* The program ends: no process waits for another that waits for it        *)
(* (jacobi.cpp:46-127).                                                    *)
Termination == <>AllEnded
=============================================================================
