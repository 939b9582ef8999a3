------------------------------- MODULE TaskFarm -------------------------------
(***************************************************************************)
(* mpi/task-allocation/mpi.cpp: rank 0 farms MAX_TASKS tasks out to the    *)
(* other ranks.  The tag of a message is the number of the task that the   *)
(* message hands out or answers, or NO_MORE_TASKS.                         *)
(*                                                                         *)
(* MPI delivers the messages of one sender to one receiver in order:       *)
(* to[w] and from[w] are the messages not yet received.  MPI_Send is a     *)
(* standard-mode send.  The library may buffer the message and return at   *)
(* once, or return only when it has been received; which of the two is the *)
(* library's choice at every send.  So a sender may always return, and     *)
(* fairness makes it return only once its message is received.             *)
(***************************************************************************)
EXTENDS Integers, Sequences, FiniteSets

CONSTANTS
  MAX_TASKS,
  MaxWorkers   \* bound on the number of workers that mpirun may start

ASSUME FarmAssumption == MAX_TASKS \in Nat /\ MaxWorkers \in Nat \ {0}

Tasks == 1 .. MAX_TASKS

Workers == 1 .. MaxWorkers

NO_MORE_TASKS == MAX_TASKS + 1

Tags == Tasks \cup {NO_MORE_TASKS}

VARIABLES
  num_of_workers,        \* np - 1
  fpc,                   \* where the farmer is
  worker_rank,           \* its loop variable in phases 1 and 3
  next_task_id,
  completed_task_count,
  message_src,           \* the worker whose result it received last
  result_data,           \* the results it has stored, as pairs <<task, result>>
  wpc,                   \* where each worker is
  message_tag,           \* tag and value of the message a worker received last
  received_task_value,
  to,                    \* messages from the farmer to each worker
  from                   \* messages from each worker to the farmer

collected == <<completed_task_count, message_src, result_data>>

farmer == <<num_of_workers, fpc, worker_rank, next_task_id, collected>>

worker == <<wpc, message_tag, received_task_value>>

farmvars == <<farmer, worker, to, from>>

(* Of the farmer: at a loop test (phase1, phase2, phase3), in MPI_Send     *)
(* there (send1, send2, send3), about to assign a task in phase 2 (assign) *)
FarmerPoints == {"phase1", "send1", "phase2", "assign", "send2", "phase3",
                 "send3", "done"}

WorkerPoints == {"absent", "recv", "compute", "send", "exited"}

Message(tag, value) == [tag |-> tag, value |-> value]

compute(task_value) == task_value * 10

Messages == {Message(t, v) : t \in Tags, v \in 0 .. compute(MAX_TASKS)}

FarmTypeOK ==
  /\ num_of_workers \in Workers
  /\ fpc \in FarmerPoints
  /\ worker_rank \in 1 .. num_of_workers + 1
  /\ next_task_id \in 1 .. MAX_TASKS + 1
  /\ completed_task_count \in 0 .. MAX_TASKS
  /\ message_src \in Workers \cup {0}
  /\ result_data \subseteq Tasks \X (0 .. compute(MAX_TASKS))
  /\ wpc \in [Workers -> WorkerPoints]
  /\ message_tag \in [Workers -> Tags \cup {0}]
  /\ received_task_value \in [Workers -> 0 .. MAX_TASKS]
  /\ to \in [Workers -> Seq(Messages)]
  /\ from \in [Workers -> Seq(Messages)]

FarmInit ==
  /\ num_of_workers \in Workers
  /\ fpc = "phase1"
  /\ worker_rank = 1
  /\ next_task_id = 1
  /\ completed_task_count = 0
  /\ message_src = 0
  /\ result_data = {}
  /\ wpc = [w \in Workers |-> IF w <= num_of_workers THEN "recv" ELSE "absent"]
  /\ message_tag = [w \in Workers |-> 0]
  /\ received_task_value = [w \in Workers |-> 0]
  /\ to = [w \in Workers |-> << >>]
  /\ from = [w \in Workers |-> << >>]

-----------------------------------------------------------------------------
(* Farmer                                                                  *)
MoveTo(here, there) == fpc = here /\ fpc' = there

Deliver(w, tag, value) == to' = [to EXCEPT ![w] = Append(@, Message(tag, value))]

(* Mutant of SendTask: the same task may be sent again.                    *)
SendTaskAgain(w, here, there) ==
  /\ MoveTo(here, there)
  /\ next_task_id <= MAX_TASKS
  /\ Deliver(w, next_task_id, next_task_id)
  /\ next_task_id' \in {next_task_id, next_task_id + 1}
  /\ UNCHANGED <<num_of_workers, worker_rank, collected, worker, from>>

(* The call of MPI_Send with the next task; task_data[i] is i.             *)
SendTask(w, here, there) ==
  /\ MoveTo(here, there)
  /\ next_task_id <= MAX_TASKS
  /\ Deliver(w, next_task_id, next_task_id)
  /\ next_task_id' = next_task_id + 1
  /\ UNCHANGED <<num_of_workers, worker_rank, collected, worker, from>>

SendSignal(here, there) ==
  /\ MoveTo(here, there)
  /\ worker_rank <= num_of_workers
  /\ Deliver(worker_rank, NO_MORE_TASKS, 0)
  /\ UNCHANGED <<num_of_workers, worker_rank, next_task_id, collected, worker, from>>

(* A step of control; rank is the new value of the loop variable.          *)
Advance(here, there, rank) ==
  /\ MoveTo(here, there)
  /\ worker_rank' = rank
  /\ UNCHANGED <<num_of_workers, next_task_id, collected, worker, to, from>>

(* Phase 1: a first task, or the signal, to every worker.                  *)
InitialTask ==
  worker_rank <= num_of_workers /\ SendTask(worker_rank, "phase1", "send1")

(* Mutant of NoInitialTask: the signal goes out though tasks are left.     *)
NoInitialTaskTooSoon == SendSignal("phase1", "send1")

NoInitialTask == next_task_id > MAX_TASKS /\ SendSignal("phase1", "send1")

EndPhase1 ==
  worker_rank > num_of_workers /\ Advance("phase1", "phase2", worker_rank)

(* Phase 2: a result from any worker, and its next task if there is one.   *)
ReceiveResult(w) ==
  /\ MoveTo("phase2", "assign")
  /\ completed_task_count < MAX_TASKS
  /\ from[w] # << >>
  /\ from' = [from EXCEPT ![w] = Tail(@)]
  /\ message_src' = w
  /\ result_data' = result_data \cup {<<Head(from[w]).tag, Head(from[w]).value>>}
  /\ completed_task_count' = completed_task_count + 1
  /\ UNCHANGED <<num_of_workers, worker_rank, next_task_id, worker, to>>

AssignTask == SendTask(message_src, "assign", "send2")

NothingToAssign ==
  next_task_id > MAX_TASKS /\ Advance("assign", "phase2", worker_rank)

(* Mutants of EndPhase2: one result is not waited for; the loop of phase 3 *)
(* goes on from where that of phase 1 ended.                               *)
EndPhase2TooSoon ==
  completed_task_count >= MAX_TASKS - 1 /\ Advance("phase2", "phase3", 1)

EndPhase2NoReset ==
  completed_task_count >= MAX_TASKS /\ Advance("phase2", "phase3", worker_rank)

EndPhase2 == completed_task_count >= MAX_TASKS /\ Advance("phase2", "phase3", 1)

(* Phase 3: the signal to every worker, whatever it got in phase 1.        *)
TerminateWorker == SendSignal("phase3", "send3")

EndPhase3 == worker_rank > num_of_workers /\ Advance("phase3", "done", worker_rank)

(* The return of MPI_Send, in each phase.                                  *)
FarmerSent ==
  \/ Advance("send1", "phase1", worker_rank + 1)
  \/ Advance("send2", "phase2", worker_rank)
  \/ Advance("send3", "phase3", worker_rank + 1)

(* The worker the farmer is sending to                                     *)
Destination == IF fpc = "send2" THEN message_src ELSE worker_rank

FarmerStep ==
  \/ InitialTask
  \/ NoInitialTask
  \/ EndPhase1
  \/ \E w \in Workers : ReceiveResult(w)
  \/ AssignTask
  \/ NothingToAssign
  \/ EndPhase2
  \/ TerminateWorker
  \/ EndPhase3

FarmerMatched == FarmerSent /\ to[Destination] = << >>

-----------------------------------------------------------------------------
(* Worker                                                                  *)
Receive(w) ==
  /\ wpc[w] = "recv"
  /\ to[w] # << >>
  /\ to' = [to EXCEPT ![w] = Tail(@)]
  /\ message_tag' = [message_tag EXCEPT ![w] = Head(to[w]).tag]
  /\ received_task_value' = [received_task_value EXCEPT ![w] = Head(to[w]).value]
  /\ wpc' = [wpc EXCEPT ![w] = IF Head(to[w]).tag # NO_MORE_TASKS
                               THEN "compute" ELSE "exited"]
  /\ UNCHANGED <<farmer, from>>

(* Mutant of Answer: the value of the task is sent back uncomputed.        *)
AnswerUncomputed(w) ==
  /\ wpc[w] = "compute"
  /\ wpc' = [wpc EXCEPT ![w] = "send"]
  /\ from' = [from EXCEPT ![w] =
                Append(@, Message(message_tag[w], received_task_value[w]))]
  /\ UNCHANGED <<farmer, message_tag, received_task_value, to>>

Answer(w) ==
  /\ wpc[w] = "compute"
  /\ wpc' = [wpc EXCEPT ![w] = "send"]
  /\ from' = [from EXCEPT ![w] =
                Append(@, Message(message_tag[w], compute(received_task_value[w])))]
  /\ UNCHANGED <<farmer, message_tag, received_task_value, to>>

WorkerSent(w) ==
  /\ wpc[w] = "send"
  /\ wpc' = [wpc EXCEPT ![w] = "recv"]
  /\ UNCHANGED <<farmer, message_tag, received_task_value, to, from>>

WorkerMatched(w) == WorkerSent(w) /\ from[w] = << >>

WorkerStep(w) == Receive(w) \/ Answer(w)

-----------------------------------------------------------------------------
FarmEnded == fpc = "done" /\ \A w \in Workers : wpc[w] \in {"exited", "absent"}

FarmTerminated == FarmEnded /\ UNCHANGED farmvars

FarmNext ==
  \/ FarmerStep
  \/ FarmerSent
  \/ \E w \in Workers : WorkerStep(w) \/ WorkerSent(w)
  \/ FarmTerminated

FarmSafety == FarmInit /\ [][FarmNext]_farmvars

(* Every process that can run is eventually run.  A send need not be       *)
(* buffered, so only a send whose message was received must return.        *)
FarmFairness ==
  /\ WF_farmvars(FarmerStep)
  /\ WF_farmvars(FarmerMatched)
  /\ \A w \in Workers : WF_farmvars(WorkerStep(w)) /\ WF_farmvars(WorkerMatched(w))

FarmSpec == FarmSafety /\ FarmFairness

-----------------------------------------------------------------------------
(* The tasks that worker w has been sent and whose results the farmer has  *)
(* not received: on their way to w, at w, or on their way back.            *)
InTransit(channel) == {channel[k].tag : k \in DOMAIN channel} \ {NO_MORE_TASKS}

HeldMessages(w) == InTransit(to[w]) \cup InTransit(from[w])
             \cup (IF wpc[w] = "compute" THEN {message_tag[w]} ELSE {})

(* However the workers' answers interleave, every task is handed out once, *)
(* to a worker that holds no other, and is answered once and with its own  *)
(* result; and as long as tasks are left, one is handed out or answered    *)
(* (mpi.cpp:68-122, 153-176).                                              *)
Bag == INSTANCE BagOfTasks WITH
         Tasks   <- Tasks,
         Workers <- Workers,
         Result  <- compute,
         todo    <- next_task_id .. MAX_TASKS,
         holds   <- [w \in Workers |-> HeldMessages(w)],
         results <- result_data

ImplementsBagOfTasks == Bag!Spec

(* No task is lost or doubled between the farmer and the workers: those    *)
(* handed out are answered or held by exactly one worker, and the farmer's *)
(* count, on which it ends phase 2, is the number of results it has        *)
(* (mpi.cpp:99-122).                                                       *)
TaskAccounting ==
  /\ 1 .. next_task_id - 1 =
       {r[1] : r \in result_data} \cup UNION {HeldMessages(w) : w \in Workers}
  /\ \A w \in Workers :
       /\ \A r \in result_data : r[1] \notin HeldMessages(w)
       /\ \A v \in Workers \ {w} : HeldMessages(w) \cap HeldMessages(v) = {}
       /\ Cardinality(HeldMessages(w)) <= 1
  /\ completed_task_count = Cardinality(result_data)
  /\ \A r \in result_data : r[2] = compute(r[1])

(* Where the farmer is with its loop variables.  In phase 1 the first      *)
(* MAX_TASKS workers get a task, each the one with its own number.         *)
Control ==
  /\ fpc \in {"send1", "send3"} => worker_rank <= num_of_workers
  /\ fpc \in {"phase2", "assign", "send2", "done"} => worker_rank = num_of_workers + 1
  /\ fpc = "phase1" =>
       next_task_id = IF worker_rank > MAX_TASKS THEN MAX_TASKS + 1 ELSE worker_rank
  /\ fpc = "send1" =>
       next_task_id = IF worker_rank >= MAX_TASKS THEN MAX_TASKS + 1 ELSE worker_rank + 1
  /\ fpc = "assign" =>
       message_src \in 1 .. num_of_workers /\ message_src <= MAX_TASKS /\ HeldMessages(message_src) = {}
  /\ fpc \in {"phase3", "send3", "done"} => completed_task_count = MAX_TASKS

(* How far the farmer is with worker w: it has sent it nothing yet (new),  *)
(* nothing but tasks (open), the signal once (told) or twice.              *)
Stage(w) ==
  LET reached == w < worker_rank \/ (fpc \in {"send1", "send3"} /\ w = worker_rank)
      last == fpc \in {"phase3", "send3", "done"} /\ reached
  IN  IF w > num_of_workers THEN "absent"
      ELSE IF fpc \in {"phase1", "send1"} /\ ~reached THEN "new"
      ELSE IF w <= MAX_TASKS THEN (IF last THEN "told" ELSE "open")
      ELSE (IF last THEN "toldTwice" ELSE "told")

Signal == Message(NO_MORE_TASKS, 0)

Has(w, points, in, out) == wpc[w] \in points /\ to[w] = in /\ from[w] = out

(* Worker w has task t: on its way to w, at w, or answered.                *)
Serving(w, t) ==
  \/ Has(w, {"recv", "send"}, <<Message(t, t)>>, << >>)
  \/ /\ Has(w, {"compute"}, << >>, << >>)
     /\ message_tag[w] = t
     /\ received_task_value[w] = t
  \/ Has(w, {"recv", "send"}, << >>, <<Message(t, compute(t))>>)

Conversation(w) ==
  /\ Stage(w) = "absent" => Has(w, {"absent"}, << >>, << >>)
  /\ Stage(w) = "new" => Has(w, {"recv"}, << >>, << >>)
  /\ Stage(w) = "open" =>
       Has(w, {"recv", "send"}, << >>, << >>) \/ \E t \in Tasks : Serving(w, t)
  /\ Stage(w) = "told" =>
       Has(w, {"recv", "send"}, <<Signal>>, << >>) \/ Has(w, {"exited"}, << >>, << >>)
  /\ Stage(w) = "toldTwice" =>
       \/ Has(w, {"recv", "send"}, <<Signal, Signal>>, << >>)
       \/ Has(w, {"exited"}, <<Signal>>, << >>)

FarmInv ==
  /\ FarmTypeOK
  /\ TaskAccounting
  /\ Control
  /\ \A w \in Workers : Conversation(w)

(* The signal reaches no worker that still holds a task, and a worker that *)
(* has had a first task stays to take others until all are answered; only  *)
(* one there was no first task for leaves earlier (mpi.cpp:70-90, 125-138, *)
(* 153-176).                                                               *)
SignalAfterLastTask ==
  \A w \in Workers :
    wpc[w] = "exited" =>
      /\ HeldMessages(w) = {}
      /\ w > MAX_TASKS \/ completed_task_count = MAX_TASKS

(* No message waits for a worker that has ended, but for the signal that   *)
(* phase 3 sends once more to a worker that phase 1 had no task for        *)
(* (mpi.cpp:81-90, 129-138).                                               *)
OnlySecondSignalsUnread ==
  \A w \in Workers :
    wpc[w] = "exited" /\ to[w] # << >> =>
      w > MAX_TASKS /\ to[w] = <<Message(NO_MORE_TASKS, 0)>>

(* The farm ends, whether or not the library buffers sends, when there are *)
(* no more workers than tasks (mpi.cpp:15-44, assumption at 84).           *)
FarmTermination == num_of_workers <= MAX_TASKS => <>FarmEnded
=============================================================================
