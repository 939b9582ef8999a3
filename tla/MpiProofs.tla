------------------------------ MODULE MpiProofs ------------------------------
(***************************************************************************)
(* The MPI programs, for every number of processes.                        *)
(*                                                                         *)
(* The task farm.  The conversation of each worker with the farmer is in   *)
(* one of a few stages, which fix where the worker is, what is under way   *)
(* in both directions and which task it holds.  Every step keeps the set   *)
(* of tasks that are held, hands one out or takes one in; from this follow *)
(* the refinement of the bag of tasks, that no signal leaves before the    *)
(* last result is in, and which messages stay unread.                      *)
(*                                                                         *)
(* The prime sieve.  What a siever holds and what is under way to it is a  *)
(* sorted sequence of candidates, and a number is dropped only if a listed *)
(* prime divides it: so none is lost, and each prime printed is the next.  *)
(* The last two need N > 2: for N <= 2 the first siever takes the signal   *)
(* to stop for its prime.                                                  *)
(*                                                                         *)
(* MPI Jacobi.  No process is more than one half of an exchange ahead of   *)
(* what its neighbour has sent, so the counts of the halves determine the  *)
(* messages under way; these are cells of the iterate that the receiver    *)
(* computes from, and the largest of the errors of the parts is the error  *)
(* of the ring.                                                            *)
(***************************************************************************)
EXTENDS TaskFarm, PrimeSieve, MpiJacobi, SequenceTheorems, FiniteSetTheorems,
        WellFoundedInduction, TLAPS

(* The channels of the farm never hold more than two messages.             *)
LEMMA ShortSequences ==
  ASSUME NEW a, NEW b
  PROVE  /\ Append(<< >>, a) = <<a>> /\ Append(<<a>>, b) = <<a, b>>
         /\ Head(<<a>>) = a /\ Tail(<<a>>) = << >>
         /\ Head(<<a, b>>) = a /\ Tail(<<a, b>>) = <<b>>
<1> DEFINE S == {a, b}
<1>1. /\ <<a>> \in Seq(S) /\ <<a, b>> \in Seq(S) /\ a \in S /\ b \in S
      /\ Len(<<a>>) = 1 /\ Len(<<a, b>>) = 2
  OBVIOUS
<1>2. Append(<<a>>, b) \in Seq(S) /\ Len(Append(<<a>>, b)) = 2
  BY <1>1, AppendProperties
<1>3. Append(<<a>>, b)[1] = a
  BY <1>1, AppendProperties
<1>4. Append(<<a>>, b)[2] = b
  BY <1>1, AppendProperties
<1>5. \A k \in 1 .. 2 : Append(<<a>>, b)[k] = <<a, b>>[k]
  BY <1>3, <1>4
<1>6. Append(<<a>>, b) = <<a, b>>
  BY <1>1, <1>2, <1>5, SeqEqual
<1>7. Append(<< >>, a) = <<a>>
  OBVIOUS
<1>8. Head(<<a>>) = a /\ Tail(<<a>>) = << >> /\ Head(<<a, b>>) = a /\ Tail(<<a, b>>) = <<b>>
  OBVIOUS
<1>9. QED
  BY <1>6, <1>7, <1>8

LEMMA ShortTransit ==
  ASSUME NEW t \in Tasks, NEW v
  PROVE  /\ InTransit(<< >>) = {}
         /\ InTransit(<<Signal>>) = {} /\ InTransit(<<Signal, Signal>>) = {}
         /\ InTransit(<<Message(t, v)>>) = {t}
<1>1. t # NO_MORE_TASKS
  BY FarmAssumption DEF Tasks, NO_MORE_TASKS
<1>2. InTransit(<< >>) = {}
  BY DEF InTransit
<1>3. DOMAIN <<Signal>> = {1} /\ DOMAIN <<Signal, Signal>> = {1, 2}
      /\ DOMAIN <<Message(t, v)>> = {1}
  OBVIOUS
<1>4. Signal.tag = NO_MORE_TASKS /\ Message(t, v).tag = t
  BY DEF Signal, Message
<1>5. InTransit(<<Signal>>) = {} /\ InTransit(<<Signal, Signal>>) = {}
  BY <1>3, <1>4 DEF InTransit
<1>6. InTransit(<<Message(t, v)>>) = {t}
  BY <1>1, <1>3, <1>4 DEF InTransit
<1>7. QED
  BY <1>2, <1>5, <1>6

(* What a worker holds, by where it and its messages are                   *)
HeldByPlace ==
  \A w : /\ \A points, to_w :
            /\ Has(w, points, to_w, << >>) /\ "compute" \notin points
            /\ to_w \in {<< >>, <<Signal>>, <<Signal, Signal>>}
            => HeldMessages(w) = {}
         /\ \A t \in Tasks : Serving(w, t) => HeldMessages(w) = {t}

LEMMA HeldWhere == HeldByPlace
<1> SUFFICES ASSUME NEW w
             PROVE  /\ \A points, to_w :
                        /\ Has(w, points, to_w, << >>) /\ "compute" \notin points
                        /\ to_w \in {<< >>, <<Signal>>, <<Signal, Signal>>}
                        => HeldMessages(w) = {}
                    /\ \A t \in Tasks : Serving(w, t) => HeldMessages(w) = {t}
  BY DEF HeldByPlace
<1>1. InTransit(<< >>) = {} /\ InTransit(<<Signal>>) = {} /\ InTransit(<<Signal, Signal>>) = {}
  <2>1. DOMAIN <<Signal>> = {1} /\ DOMAIN <<Signal, Signal>> = {1, 2}
    OBVIOUS
  <2>2. Signal.tag = NO_MORE_TASKS
    BY DEF Signal, Message
  <2>3. QED
    BY <2>1, <2>2 DEF InTransit
<1>2. ASSUME NEW points, "compute" \notin points, wpc[w] \in points
      PROVE  HeldMessages(w) = InTransit(to[w]) \cup InTransit(from[w])
  BY <1>2 DEF HeldMessages
<1>3. ASSUME NEW t \in Tasks, Serving(w, t)
      PROVE  HeldMessages(w) = {t}
  <2>1. InTransit(<<Message(t, t)>>) = {t} /\ InTransit(<<Message(t, compute(t))>>) = {t}
    BY ShortTransit
  <2>2. CASE Has(w, {"recv", "send"}, <<Message(t, t)>>, << >>)
    BY <2>1, <2>2, <1>1 DEF Has, HeldMessages
  <2>3. CASE Has(w, {"compute"}, << >>, << >>) /\ message_tag[w] = t
    BY <2>3, <1>1 DEF Has, HeldMessages
  <2>4. CASE Has(w, {"recv", "send"}, << >>, <<Message(t, compute(t))>>)
    BY <2>1, <2>4, <1>1 DEF Has, HeldMessages
  <2>5. QED
    BY <1>3, <2>2, <2>3, <2>4 DEF Serving
<1>4. QED
  BY <1>1, <1>2, <1>3 DEF Has

LEMMA HeldWhereNext == HeldByPlace'
BY HeldWhere, PTL

(* A worker with which nothing happens                                     *)
LEMMA SameConversation ==
  ASSUME NEW v, Conversation(v), Stage(v)' = Stage(v),
         wpc'[v] = wpc[v], to'[v] = to[v], from'[v] = from[v],
         message_tag'[v] = message_tag[v],
         received_task_value'[v] = received_task_value[v]
  PROVE  Conversation(v)' /\ HeldMessages(v)' = HeldMessages(v)
<1>1. HeldMessages(v)' = HeldMessages(v)
  BY DEF HeldMessages, InTransit
<1>2. \A points, in, out : Has(v, points, in, out)' <=> Has(v, points, in, out)
  BY DEF Has
<1>3. \A t \in Tasks : Serving(v, t)' <=> Serving(v, t)
  BY <1>2 DEF Serving
<1>4. Conversation(v)'
  BY <1>2, <1>3 DEF Conversation
<1>5. QED
  BY <1>1, <1>4

(* A worker with no task does not wait for one to be computed.             *)
LEMMA HoldsNone ==
  ASSUME NEW v, Conversation(v), HeldMessages(v) = {}, Stage(v) \in {"new", "open"}
  PROVE  Has(v, {"recv", "send"}, << >>, << >>)
<1>1. Has(v, {"recv", "send"}, << >>, << >>) \/ \E t \in Tasks : Serving(v, t)
  BY DEF Conversation, Has
<1>2. QED
  BY <1>1, HeldWhere DEF HeldByPlace

-----------------------------------------------------------------------------
(* Stages                                                                  *)

(* The farmer moves on without having sent anything.                       *)
LEMMA SameStages ==
  ASSUME FarmInv, UNCHANGED num_of_workers,
         \/ UNCHANGED <<fpc, worker_rank>>
         \/ fpc = "send1" /\ fpc' = "phase1" /\ worker_rank' = worker_rank + 1
         \/ fpc = "send3" /\ fpc' = "phase3" /\ worker_rank' = worker_rank + 1
         \/ fpc \in {"phase2", "assign", "send2"} /\ fpc' \in {"phase2", "assign", "send2"}
              /\ worker_rank' = worker_rank
         \/ fpc = "phase1" /\ fpc' = "phase2" /\ worker_rank > num_of_workers
              /\ worker_rank' = worker_rank
         \/ fpc = "phase2" /\ fpc' = "phase3" /\ worker_rank' = 1
         \/ fpc = "phase3" /\ fpc' = "done" /\ worker_rank' = worker_rank
  PROVE  \A v \in Workers : Stage(v)' = Stage(v)
<1> SUFFICES ASSUME NEW v \in Workers PROVE Stage(v)' = Stage(v)
  OBVIOUS
<1>1. v \in Int /\ v >= 1 /\ worker_rank \in Int /\ num_of_workers \in Int
  BY FarmAssumption DEF FarmInv, FarmTypeOK, Workers
<1>2. QED
  BY <1>1 DEF Stage

LEMMA StagesAtFirstSend ==
  ASSUME FarmInv, UNCHANGED <<num_of_workers, worker_rank>>, worker_rank <= num_of_workers,
         fpc = "phase1", fpc' = "send1"
  PROVE  /\ worker_rank \in Workers
         /\ \A v \in Workers \ {worker_rank} : Stage(v)' = Stage(v)
         /\ Stage(worker_rank) = "new"
         /\ Stage(worker_rank)' = IF worker_rank <= MAX_TASKS THEN "open" ELSE "told"
<1>1. /\ worker_rank \in Int /\ num_of_workers \in Int /\ MAX_TASKS \in Int
      /\ \A v \in Workers : v \in Int
  BY FarmAssumption DEF FarmInv, FarmTypeOK, Workers
<1>2. worker_rank \in Workers
  BY FarmAssumption DEF FarmInv, FarmTypeOK, Workers
<1>3. QED
  BY <1>1, <1>2 DEF Stage

LEMMA StagesAtLastSend ==
  ASSUME FarmInv, UNCHANGED <<num_of_workers, worker_rank>>, worker_rank <= num_of_workers,
         fpc = "phase3", fpc' = "send3"
  PROVE  /\ worker_rank \in Workers
         /\ \A v \in Workers \ {worker_rank} : Stage(v)' = Stage(v)
         /\ Stage(worker_rank) = IF worker_rank <= MAX_TASKS THEN "open" ELSE "told"
         /\ Stage(worker_rank)' = IF worker_rank <= MAX_TASKS THEN "told" ELSE "toldTwice"
<1>1. /\ worker_rank \in Int /\ num_of_workers \in Int /\ MAX_TASKS \in Int
      /\ \A v \in Workers : v \in Int
  BY FarmAssumption DEF FarmInv, FarmTypeOK, Workers
<1>2. worker_rank \in Workers
  BY FarmAssumption DEF FarmInv, FarmTypeOK, Workers
<1>3. QED
  BY <1>1, <1>2 DEF Stage

-----------------------------------------------------------------------------
(* What a step does to the tasks: nothing, or hand one out, or take the    *)
(* result of one.                                                          *)
KeepsTasks ==
  /\ \A w \in Workers : HeldMessages(w)' = HeldMessages(w)
  /\ UNCHANGED <<next_task_id, completed_task_count, result_data>>

OnlyHolderChanges(w) == \A v \in Workers \ {w} : HeldMessages(v)' = HeldMessages(v)

HandsOut(w, t) ==
  /\ HeldMessages(w) = {}
  /\ t = next_task_id
  /\ next_task_id' = next_task_id + 1
  /\ HeldMessages(w)' = {t}
  /\ OnlyHolderChanges(w)
  /\ UNCHANGED <<completed_task_count, result_data>>

HandsIn(w, t) ==
  /\ HeldMessages(w) = {t}
  /\ HeldMessages(w)' = {}
  /\ OnlyHolderChanges(w)
  /\ result_data' = result_data \cup {<<t, compute(t)>>}
  /\ completed_task_count' = completed_task_count + 1
  /\ UNCHANGED next_task_id

TaskEffect ==
  KeepsTasks \/ \E w \in Workers, t \in Tasks : HandsOut(w, t) \/ HandsIn(w, t)

(* What every step has to be shown to do                                   *)
GoodStep ==
  FarmTypeOK' /\ Control' /\ (\A w \in Workers : Conversation(w)') /\ TaskEffect

LEMMA MessageTypes ==
  /\ Signal \in Messages /\ Signal.tag = NO_MORE_TASKS /\ Signal.value = 0
  /\ \A t \in Tasks : Message(t, t) \in Messages /\ Message(t, compute(t)) \in Messages
<1> USE FarmAssumption
<1>1. /\ \A t \in Tasks : t \in 0 .. compute(MAX_TASKS) /\ compute(t) \in 0 .. compute(MAX_TASKS)
      /\ 0 \in 0 .. compute(MAX_TASKS) /\ NO_MORE_TASKS \in Tags /\ Tasks \subseteq Tags
  BY DEF compute, Tasks, Tags, NO_MORE_TASKS
<1>2. \A t \in Tags, v \in 0 .. compute(MAX_TASKS) : Message(t, v) \in Messages
  BY DEF Messages
<1>3. Signal.tag = NO_MORE_TASKS /\ Signal.value = 0
  BY DEF Signal, Message
<1>4. QED
  BY <1>1, <1>2, <1>3 DEF Signal

(* A channel with a message added is still a channel.                      *)
LEMMA ChannelTypes ==
  ASSUME NEW c \in [Workers -> Seq(Messages)], NEW w \in Workers
  PROVE  /\ \A m \in Messages : [c EXCEPT ![w] = Append(@, m)] \in [Workers -> Seq(Messages)]
         /\ c[w] # << >> => [c EXCEPT ![w] = Tail(@)] \in [Workers -> Seq(Messages)]
<1>1. c[w] \in Seq(Messages)
  OBVIOUS
<1>2. \A m \in Messages : Append(c[w], m) \in Seq(Messages)
  BY <1>1, AppendProperties
<1>3. c[w] # << >> => Tail(c[w]) \in Seq(Messages)
  BY <1>1, HeadTailProperties
<1>4. QED
  BY <1>2, <1>3

-----------------------------------------------------------------------------
(* The farmer hands out a task in phase 1.                                 *)
LEMMA InitialTaskStep == ASSUME FarmInv, InitialTask PROVE GoodStep
<1> USE FarmAssumption
<1>0. PICK r : r = worker_rank
  OBVIOUS
<1>1. /\ r <= num_of_workers /\ fpc = "phase1" /\ fpc' = "send1"
      /\ next_task_id <= MAX_TASKS /\ next_task_id' = next_task_id + 1
      /\ to' = [to EXCEPT ![r] = Append(@, Message(next_task_id, next_task_id))]
      /\ UNCHANGED <<num_of_workers, worker_rank, collected, worker, from>>
  BY <1>0 DEF InitialTask, SendTask, MoveTo, Deliver
<1>2. FarmTypeOK /\ Control /\ \A w \in Workers : Conversation(w)
  BY DEF FarmInv
<1>3. /\ r \in Workers
      /\ \A v \in Workers \ {r} : Stage(v)' = Stage(v)
      /\ Stage(r) = "new"
      /\ Stage(r)' = IF r <= MAX_TASKS THEN "open" ELSE "told"
  BY <1>0, <1>1, StagesAtFirstSend
<1>4. next_task_id = r /\ r \in Tasks /\ r <= MAX_TASKS
  BY <1>0, <1>1, <1>2, <1>3 DEF Control, FarmTypeOK, Tasks, Workers
<1>5. Has(r, {"recv"}, << >>, << >>) /\ HeldMessages(r) = {}
  BY <1>2, <1>3, HeldWhere DEF Conversation, HeldByPlace
<1>6. to'[r] = <<Message(r, r)>>
  BY <1>1, <1>2, <1>3, <1>4, <1>5, ShortSequences DEF Has, FarmTypeOK
<1>7. Serving(r, r)'
  BY <1>1, <1>5, <1>6 DEF Serving, Has, worker
<1>8. HeldMessages(r)' = {r} /\ Conversation(r)'
  <2>1. HeldMessages(r)' = {r}
    BY <1>4, <1>7, HeldWhereNext DEF HeldByPlace
  <2>2. Stage(r)' = "open"
    BY <1>3, <1>4
  <2>3. QED
    BY <1>4, <1>7, <2>1, <2>2 DEF Conversation
<1>9. \A v \in Workers \ {r} : Conversation(v)' /\ HeldMessages(v)' = HeldMessages(v)
  BY <1>1, <1>2, <1>3, SameConversation DEF worker, FarmTypeOK
<1>10. Control'
  BY <1>0, <1>1, <1>2, <1>4 DEF Control, FarmTypeOK, collected
<1>11. FarmTypeOK'
  <2>1. to' \in [Workers -> Seq(Messages)]
    BY <1>1, <1>2, <1>3, <1>4, MessageTypes, ChannelTypes DEF FarmTypeOK
  <2>2. next_task_id' \in 1 .. MAX_TASKS + 1
    BY <1>1, <1>4 DEF Tasks
  <2>3. fpc' \in FarmerPoints
    BY <1>1 DEF FarmerPoints
  <2>4. QED
    BY <1>1, <1>2, <2>1, <2>2, <2>3 DEF FarmTypeOK, collected, worker
<1>12. HandsOut(r, r)
  BY <1>1, <1>4, <1>5, <1>8, <1>9 DEF HandsOut, OnlyHolderChanges, collected
<1>13. QED
  BY <1>3, <1>4, <1>8, <1>9, <1>10, <1>11, <1>12 DEF GoodStep, TaskEffect

(* It sends the signal in phase 1 to a worker there is no task for.        *)
LEMMA NoInitialTaskStep == ASSUME FarmInv, NoInitialTask PROVE GoodStep
<1> USE FarmAssumption
<1>0. PICK r : r = worker_rank
  OBVIOUS
<1>1. /\ r <= num_of_workers /\ fpc = "phase1" /\ fpc' = "send1"
      /\ next_task_id > MAX_TASKS
      /\ to' = [to EXCEPT ![r] = Append(@, Signal)]
      /\ UNCHANGED <<num_of_workers, worker_rank, next_task_id, collected, worker, from>>
  BY <1>0 DEF NoInitialTask, SendSignal, MoveTo, Deliver, Signal
<1>2. FarmTypeOK /\ Control /\ \A w \in Workers : Conversation(w)
  BY DEF FarmInv
<1>3. /\ r \in Workers
      /\ \A v \in Workers \ {r} : Stage(v)' = Stage(v)
      /\ Stage(r) = "new"
      /\ Stage(r)' = IF r <= MAX_TASKS THEN "open" ELSE "told"
  BY <1>0, <1>1, StagesAtFirstSend
<1>4. next_task_id = MAX_TASKS + 1 /\ r > MAX_TASKS
  BY <1>0, <1>1, <1>2, <1>3 DEF Control, FarmTypeOK, Workers
<1>5. Has(r, {"recv"}, << >>, << >>) /\ HeldMessages(r) = {}
  BY <1>2, <1>3, HeldWhere DEF Conversation, HeldByPlace
<1>6. to'[r] = <<Signal>>
  BY <1>1, <1>2, <1>3, <1>5, ShortSequences DEF Has, FarmTypeOK
<1>7. Has(r, {"recv", "send"}, <<Signal>>, << >>)'
  BY <1>1, <1>5, <1>6 DEF Has, worker
<1>8. HeldMessages(r)' = {} /\ Conversation(r)'
  <2>1. HeldMessages(r)' = {}
    BY <1>7, HeldWhereNext DEF HeldByPlace
  <2>2. Stage(r)' = "told"
    BY <1>3, <1>4 DEF Workers
  <2>3. QED
    BY <1>7, <2>1, <2>2 DEF Conversation
<1>9. \A v \in Workers \ {r} : Conversation(v)' /\ HeldMessages(v)' = HeldMessages(v)
  BY <1>1, <1>2, <1>3, SameConversation DEF worker, FarmTypeOK
<1>10. Control'
  BY <1>0, <1>1, <1>2, <1>4 DEF Control, FarmTypeOK, collected, Workers
<1>11. FarmTypeOK'
  <2>1. to' \in [Workers -> Seq(Messages)]
    BY <1>1, <1>2, <1>3, MessageTypes, ChannelTypes DEF FarmTypeOK
  <2>2. fpc' \in FarmerPoints
    BY <1>1 DEF FarmerPoints
  <2>3. QED
    BY <1>1, <1>2, <2>1, <2>2 DEF FarmTypeOK, collected, worker
<1>12. KeepsTasks
  BY <1>1, <1>5, <1>8, <1>9 DEF KeepsTasks, collected
<1>13. QED
  BY <1>3, <1>8, <1>9, <1>10, <1>11, <1>12 DEF GoodStep, TaskEffect

(* When all results are in, nobody holds a task.                           *)
LEMMA AllAnswered ==
  ASSUME FarmInv, completed_task_count = MAX_TASKS
  PROVE  \A w \in Workers : HeldMessages(w) = {}
<1> DEFINE All == {<<t, compute(t)>> : t \in Tasks}
<1> USE FarmAssumption
<1>1. FarmTypeOK /\ TaskAccounting
  BY DEF FarmInv
<1>2. result_data \in SUBSET All
  BY <1>1 DEF FarmTypeOK, TaskAccounting
<1>3. IsFiniteSet(Tasks) /\ Cardinality(Tasks) = MAX_TASKS
  BY FS_Interval DEF Tasks
<1>4. IsFiniteSet(All) /\ Cardinality(All) = MAX_TASKS
  <2> DEFINE f == [t \in Tasks |-> <<t, compute(t)>>]
  <2>1. f \in [Tasks -> All]
    OBVIOUS
  <2>2. ASSUME NEW t \in Tasks, NEW u \in Tasks, f[t] = f[u]
        PROVE  t = u
    <3>1. f[t][1] = t /\ f[u][1] = u
      OBVIOUS
    <3>2. QED
      BY <3>1, <2>2
  <2>3. f \in Injection(Tasks, All)
    BY <2>1, <2>2 DEF Injection, IsInjective
  <2>4. \A p \in All : \E t \in Tasks : f[t] = p
    OBVIOUS
  <2>5. f \in Surjection(Tasks, All)
    BY <2>1, <2>4 DEF Surjection
  <2>6. ExistsBijection(Tasks, All)
    BY <2>3, <2>5 DEF ExistsBijection, Bijection
  <2>7. QED
    BY <2>6, <1>3, FS_Bijection
<1>5. Cardinality(result_data) = Cardinality(All)
  BY <1>1, <1>4 DEF TaskAccounting
<1>6. result_data = All
  BY <1>2, <1>4, <1>5, FS_Subset
<1>7. ASSUME NEW t \in Tasks PROVE \E r \in result_data : r[1] = t
  <2>1. <<t, compute(t)>> \in result_data
    BY <1>6
  <2>2. <<t, compute(t)>>[1] = t
    OBVIOUS
  <2>3. QED
    BY <2>1, <2>2
<1>8. \A w \in Workers : HeldMessages(w) \subseteq Tasks
  <2>1. 1 .. next_task_id - 1 \subseteq Tasks
    BY <1>1 DEF FarmTypeOK, Tasks
  <2>2. QED
    BY <1>1, <2>1 DEF TaskAccounting
<1>9. QED
  BY <1>1, <1>7, <1>8 DEF TaskAccounting

(* Phase 3 sends it to everybody, to some workers once more.               *)
LEMMA TerminateWorkerStep == ASSUME FarmInv, TerminateWorker PROVE GoodStep
<1> USE FarmAssumption
<1>0. PICK r : r = worker_rank
  OBVIOUS
<1>1. /\ r <= num_of_workers /\ fpc = "phase3" /\ fpc' = "send3"
      /\ to' = [to EXCEPT ![r] = Append(@, Signal)]
      /\ UNCHANGED <<num_of_workers, worker_rank, next_task_id, collected, worker, from>>
  BY <1>0 DEF TerminateWorker, SendSignal, MoveTo, Deliver, Signal
<1>2. FarmTypeOK /\ Control /\ \A w \in Workers : Conversation(w)
  BY DEF FarmInv
<1>3. /\ r \in Workers
      /\ \A v \in Workers \ {r} : Stage(v)' = Stage(v)
      /\ Stage(r) = IF r <= MAX_TASKS THEN "open" ELSE "told"
      /\ Stage(r)' = IF r <= MAX_TASKS THEN "told" ELSE "toldTwice"
  BY <1>0, <1>1, StagesAtLastSend
<1>4. HeldMessages(r) = {}
  BY <1>1, <1>2, <1>3, AllAnswered DEF Control
<1>5. HeldMessages(r)' = {} /\ Conversation(r)'
  <2>1. CASE Has(r, {"recv", "send"}, << >>, << >>) /\ Stage(r)' = "told"
    <3>1. to'[r] = <<Signal>>
      BY <2>1, <1>1, <1>2, <1>3, ShortSequences DEF Has, FarmTypeOK
    <3>2. Has(r, {"recv", "send"}, <<Signal>>, << >>)'
      BY <2>1, <3>1, <1>1 DEF Has, worker
    <3>3. QED
      BY <2>1, <3>2, HeldWhereNext DEF HeldByPlace, Conversation
  <2>2. CASE Has(r, {"recv", "send"}, <<Signal>>, << >>) /\ Stage(r)' = "toldTwice"
    <3>1. to'[r] = <<Signal, Signal>>
      BY <2>2, <1>1, <1>2, <1>3, ShortSequences DEF Has, FarmTypeOK
    <3>2. Has(r, {"recv", "send"}, <<Signal, Signal>>, << >>)'
      BY <2>2, <3>1, <1>1 DEF Has, worker
    <3>3. QED
      BY <2>2, <3>2, HeldWhereNext DEF HeldByPlace, Conversation
  <2>3. CASE Has(r, {"exited"}, << >>, << >>) /\ Stage(r)' = "toldTwice"
    <3>1. to'[r] = <<Signal>>
      BY <2>3, <1>1, <1>2, <1>3, ShortSequences DEF Has, FarmTypeOK
    <3>2. Has(r, {"exited"}, <<Signal>>, << >>)'
      BY <2>3, <3>1, <1>1 DEF Has, worker
    <3>3. QED
      BY <2>3, <3>2, HeldWhereNext DEF HeldByPlace, Conversation
  <2>4. CASE Stage(r) = "open" /\ Stage(r)' = "told"
    BY <2>1, <2>4, <1>2, <1>3, <1>4, HoldsNone
  <2>5. CASE Stage(r) = "told" /\ Stage(r)' = "toldTwice"
    BY <2>2, <2>3, <2>5, <1>2, <1>3 DEF Conversation
  <2>6. QED
    BY <1>3, <2>4, <2>5
<1>6. \A v \in Workers \ {r} : Conversation(v)' /\ HeldMessages(v)' = HeldMessages(v)
  BY <1>1, <1>2, <1>3, SameConversation DEF worker, FarmTypeOK
<1>7. Control'
  BY <1>0, <1>1, <1>2 DEF Control, collected
<1>8. FarmTypeOK'
  <2>1. to' \in [Workers -> Seq(Messages)]
    BY <1>1, <1>2, <1>3, MessageTypes, ChannelTypes DEF FarmTypeOK
  <2>2. fpc' \in FarmerPoints
    BY <1>1 DEF FarmerPoints
  <2>3. QED
    BY <1>1, <1>2, <2>1, <2>2 DEF FarmTypeOK, collected, worker
<1>9. KeepsTasks
  BY <1>1, <1>4, <1>5, <1>6 DEF KeepsTasks, collected
<1>10. QED
  BY <1>3, <1>5, <1>6, <1>7, <1>8, <1>9 DEF GoodStep, TaskEffect

(* In phase 2 it hands out a task to the worker it has a result from.      *)
LEMMA AssignTaskStep == ASSUME FarmInv, AssignTask PROVE GoodStep
<1> USE FarmAssumption
<1>0. PICK w, t : w = message_src /\ t = next_task_id
  OBVIOUS
<1>1. /\ fpc = "assign" /\ fpc' = "send2" /\ t <= MAX_TASKS /\ next_task_id' = t + 1
      /\ to' = [to EXCEPT ![w] = Append(@, Message(t, t))]
      /\ UNCHANGED <<num_of_workers, worker_rank, collected, worker, from>>
  BY <1>0 DEF AssignTask, SendTask, MoveTo, Deliver
<1>2. FarmTypeOK /\ Control /\ \A v \in Workers : Conversation(v)
  BY DEF FarmInv
<1>3. /\ w \in Workers /\ w <= num_of_workers /\ w <= MAX_TASKS /\ HeldMessages(w) = {}
      /\ t \in Tasks
  BY <1>0, <1>1, <1>2 DEF Control, FarmTypeOK, Workers, Tasks
<1>4. \A v \in Workers : Stage(v)' = Stage(v)
  BY <1>1, SameStages
<1>5. Stage(w) = "open"
  BY <1>1, <1>2, <1>3 DEF Stage, Workers, FarmTypeOK
<1>6. Has(w, {"recv", "send"}, << >>, << >>)
  BY <1>2, <1>3, <1>5, HoldsNone
<1>7. to'[w] = <<Message(t, t)>>
  BY <1>1, <1>2, <1>3, <1>6, ShortSequences DEF Has, FarmTypeOK
<1>8. Serving(w, t)'
  BY <1>1, <1>6, <1>7 DEF Serving, Has, worker
<1>9. HeldMessages(w)' = {t} /\ Conversation(w)'
  <2>1. HeldMessages(w)' = {t}
    BY <1>3, <1>8, HeldWhereNext DEF HeldByPlace
  <2>2. Stage(w)' = "open"
    BY <1>3, <1>4, <1>5
  <2>3. QED
    BY <1>3, <1>8, <2>1, <2>2 DEF Conversation
<1>10. \A v \in Workers \ {w} : Conversation(v)' /\ HeldMessages(v)' = HeldMessages(v)
  BY <1>1, <1>2, <1>4, SameConversation DEF worker, FarmTypeOK
<1>11. Control'
  BY <1>1, <1>2 DEF Control
<1>12. FarmTypeOK'
  <2>1. to' \in [Workers -> Seq(Messages)]
    BY <1>1, <1>2, <1>3, MessageTypes, ChannelTypes DEF FarmTypeOK
  <2>2. next_task_id' \in 1 .. MAX_TASKS + 1
    BY <1>1, <1>3 DEF Tasks
  <2>3. fpc' \in FarmerPoints
    BY <1>1 DEF FarmerPoints
  <2>4. QED
    BY <1>1, <1>2, <2>1, <2>2, <2>3 DEF FarmTypeOK, collected, worker
<1>13. HandsOut(w, t)
  BY <1>0, <1>1, <1>3, <1>9, <1>10 DEF HandsOut, OnlyHolderChanges, collected
<1>14. QED
  BY <1>3, <1>9, <1>10, <1>11, <1>12, <1>13 DEF GoodStep, TaskEffect

(* It receives the result of a task from the worker that holds it.         *)
LEMMA ReceiveResultStep ==
  ASSUME FarmInv, NEW w \in Workers, ReceiveResult(w) PROVE GoodStep
<1> USE FarmAssumption
<1>1. /\ fpc = "phase2" /\ fpc' = "assign" /\ completed_task_count < MAX_TASKS
      /\ from[w] # << >> /\ from' = [from EXCEPT ![w] = Tail(@)]
      /\ message_src' = w
      /\ result_data' = result_data \cup {<<Head(from[w]).tag, Head(from[w]).value>>}
      /\ completed_task_count' = completed_task_count + 1
      /\ UNCHANGED <<num_of_workers, worker_rank, next_task_id, worker, to>>
  BY DEF ReceiveResult, MoveTo
<1>2. FarmTypeOK /\ Control /\ \A v \in Workers : Conversation(v)
  BY DEF FarmInv
<1>3. \A v \in Workers : Stage(v)' = Stage(v)
  BY <1>1, SameStages
<1>4. Stage(w) \in {"absent", "open", "told"}
  BY <1>1, <1>2 DEF Stage
<1>5. PICK t \in Tasks : Serving(w, t)
  BY <1>1, <1>2, <1>4 DEF Conversation, Has
<1>6. Stage(w) = "open" /\ w <= num_of_workers /\ w <= MAX_TASKS
  <2>1. Stage(w) = "open"
    BY <1>1, <1>2, <1>4 DEF Conversation, Has
  <2>2. QED
    BY <2>1, <1>1, <1>2 DEF Stage, Workers, FarmTypeOK
<1>7. Has(w, {"recv", "send"}, << >>, <<Message(t, compute(t))>>)
  BY <1>1, <1>5 DEF Serving, Has
<1>8. /\ Head(from[w]).tag = t /\ Head(from[w]).value = compute(t)
      /\ from'[w] = << >>
  <2>1. Head(from[w]) = Message(t, compute(t)) /\ Tail(from[w]) = << >>
    BY <1>7, ShortSequences DEF Has
  <2>2. QED
    BY <2>1, <1>1, <1>2 DEF Message, FarmTypeOK
<1>9. Has(w, {"recv", "send"}, << >>, << >>)'
  BY <1>1, <1>7, <1>8 DEF Has, worker
<1>10. HeldMessages(w)' = {} /\ HeldMessages(w) = {t} /\ Conversation(w)'
  BY <1>3, <1>5, <1>6, <1>9, HeldWhere, HeldWhereNext DEF HeldByPlace, Conversation
<1>11. \A v \in Workers \ {w} : Conversation(v)' /\ HeldMessages(v)' = HeldMessages(v)
  BY <1>1, <1>2, <1>3, SameConversation DEF worker, FarmTypeOK
<1>12. Control'
  <2>1. w \in 1 .. num_of_workers'
    BY <1>1, <1>2, <1>6 DEF FarmTypeOK, Workers
  <2>2. QED
    BY <2>1, <1>1, <1>2, <1>6, <1>10 DEF Control
<1>13. FarmTypeOK'
  <2>1. from' \in [Workers -> Seq(Messages)]
    BY <1>1, <1>2, ChannelTypes DEF FarmTypeOK
  <2>2. result_data' \subseteq Tasks \X (0 .. compute(MAX_TASKS))
    <3>1. compute(t) \in 0 .. compute(MAX_TASKS)
      BY DEF compute, Tasks
    <3>2. <<t, compute(t)>> \in Tasks \X (0 .. compute(MAX_TASKS))
      BY <3>1
    <3>3. result_data' = result_data \cup {<<t, compute(t)>>}
      BY <1>1, <1>8
    <3>4. QED
      BY <1>2, <3>2, <3>3 DEF FarmTypeOK
  <2>3. fpc' \in FarmerPoints /\ completed_task_count' \in 0 .. MAX_TASKS
    BY <1>1, <1>2 DEF FarmerPoints, FarmTypeOK
  <2>4. QED
    BY <1>1, <1>2, <2>1, <2>2, <2>3 DEF FarmTypeOK, worker
<1>14. HandsIn(w, t)
  BY <1>1, <1>8, <1>10, <1>11 DEF HandsIn, OnlyHolderChanges
<1>15. QED
  BY <1>10, <1>11, <1>12, <1>13, <1>14 DEF GoodStep, TaskEffect

(* The steps of the farmer that send and receive nothing                   *)
LEMMA FarmerMoves ==
  ASSUME FarmInv,
         NothingToAssign \/ EndPhase1 \/ EndPhase2 \/ EndPhase3 \/ FarmerSent
  PROVE  GoodStep
<1> USE FarmAssumption
<1>1. UNCHANGED <<num_of_workers, next_task_id, collected, worker, to, from>>
  BY DEF NothingToAssign, EndPhase1, EndPhase2, EndPhase3, FarmerSent, Advance
<1>2. FarmTypeOK /\ Control /\ TaskAccounting /\ \A v \in Workers : Conversation(v)
  BY DEF FarmInv
<1>3. /\ worker_rank \in 1 .. num_of_workers + 1 /\ num_of_workers \in Int
      /\ next_task_id \in Int /\ completed_task_count \in Int /\ completed_task_count <= MAX_TASKS
  BY <1>2 DEF FarmTypeOK, Workers
<1>4. \/ fpc = "send1" /\ fpc' = "phase1" /\ worker_rank' = worker_rank + 1
      \/ fpc = "send3" /\ fpc' = "phase3" /\ worker_rank' = worker_rank + 1
      \/ fpc \in {"assign", "send2"} /\ fpc' = "phase2" /\ worker_rank' = worker_rank
      \/ fpc = "phase1" /\ fpc' = "phase2" /\ worker_rank > num_of_workers
           /\ worker_rank' = worker_rank
      \/ fpc = "phase2" /\ fpc' = "phase3" /\ worker_rank' = 1
           /\ completed_task_count >= MAX_TASKS
      \/ fpc = "phase3" /\ fpc' = "done" /\ worker_rank' = worker_rank
           /\ worker_rank > num_of_workers
  BY DEF NothingToAssign, EndPhase1, EndPhase2, EndPhase3, FarmerSent, Advance, MoveTo
<1>5. \A v \in Workers : Stage(v)' = Stage(v)
  BY <1>1, <1>4, SameStages
<1>6. \A v \in Workers : Conversation(v)' /\ HeldMessages(v)' = HeldMessages(v)
  BY <1>1, <1>2, <1>5, SameConversation DEF worker
<1>7. worker_rank' \in 1 .. num_of_workers + 1 /\ fpc' \in FarmerPoints
  BY <1>2, <1>3, <1>4 DEF Control, FarmerPoints
<1>8. FarmTypeOK'
  BY <1>1, <1>2, <1>7 DEF FarmTypeOK, collected, worker
<1>9. Control'
  BY <1>1, <1>2, <1>3, <1>4 DEF Control, collected
<1>10. KeepsTasks
  BY <1>1, <1>6 DEF KeepsTasks, collected
<1>11. QED
  BY <1>6, <1>8, <1>9, <1>10 DEF GoodStep, TaskEffect

(* A worker does nothing to its task but carry it along.                   *)
LEMMA WorkerMoves ==
  ASSUME FarmInv, NEW w \in Workers, UNCHANGED farmer, FarmTypeOK',
         \A v \in Workers \ {w} :
           /\ wpc'[v] = wpc[v] /\ to'[v] = to[v] /\ from'[v] = from[v]
           /\ message_tag'[v] = message_tag[v]
           /\ received_task_value'[v] = received_task_value[v],
         Stage(w)' = Stage(w) => Conversation(w)' /\ HeldMessages(w)' = HeldMessages(w)
  PROVE  GoodStep
<1>1. FarmTypeOK /\ Control /\ \A v \in Workers : Conversation(v)
  BY DEF FarmInv
<1>2. \A v \in Workers : Stage(v)' = Stage(v)
  BY SameStages DEF farmer
<1>3. \A v \in Workers : Conversation(v)' /\ HeldMessages(v)' = HeldMessages(v)
  BY <1>1, <1>2, SameConversation
<1>4. Control'
  <2>1. fpc = "assign" => message_src \in Workers
    BY <1>1 DEF Control, FarmTypeOK, Workers
  <2>2. QED
    BY <2>1, <1>1, <1>3 DEF Control, farmer, collected
<1>5. KeepsTasks
  BY <1>3 DEF KeepsTasks, farmer, collected
<1>6. QED
  BY <1>3, <1>4, <1>5 DEF GoodStep, TaskEffect

LEMMA ReceiveStep == ASSUME FarmInv, NEW w \in Workers, Receive(w) PROVE GoodStep
<1> USE FarmAssumption
<1> DEFINE m == Head(to[w])
<1>1. /\ wpc[w] = "recv" /\ to[w] # << >>
      /\ to' = [to EXCEPT ![w] = Tail(@)]
      /\ message_tag' = [message_tag EXCEPT ![w] = m.tag]
      /\ received_task_value' = [received_task_value EXCEPT ![w] = m.value]
      /\ wpc' = [wpc EXCEPT ![w] = IF m.tag # NO_MORE_TASKS THEN "compute" ELSE "exited"]
      /\ UNCHANGED <<farmer, from>>
  BY DEF Receive
<1>2. FarmTypeOK /\ Conversation(w)
  BY DEF FarmInv
<1>3. /\ to'[w] = Tail(to[w]) /\ message_tag'[w] = m.tag
      /\ received_task_value'[w] = m.value /\ from'[w] = from[w]
      /\ wpc'[w] = IF m.tag # NO_MORE_TASKS THEN "compute" ELSE "exited"
  BY <1>1, <1>2 DEF FarmTypeOK
<1>4. \/ \E t \in Tasks : to[w] = <<Message(t, t)>> /\ from[w] = << >> /\ Stage(w) = "open"
      \/ to[w] = <<Signal>> /\ from[w] = << >> /\ Stage(w) = "told"
      \/ to[w] = <<Signal, Signal>> /\ from[w] = << >> /\ Stage(w) = "toldTwice"
  <2>1. Stage(w) \in {"absent", "new", "open", "told", "toldTwice"}
    BY DEF Stage
  <2>2. QED
    BY <2>1, <1>1, <1>2 DEF Conversation, Serving, Has
<1>5. /\ m.tag \in Tags /\ m.value \in 0 .. MAX_TASKS
      /\ Stage(w)' = Stage(w) => Conversation(w)' /\ HeldMessages(w)' = HeldMessages(w)
  <2>1. ASSUME NEW t \in Tasks, to[w] = <<Message(t, t)>>, from[w] = << >>, Stage(w) = "open"
        PROVE  /\ m.tag \in Tags /\ m.value \in 0 .. MAX_TASKS
               /\ Stage(w)' = Stage(w) => Conversation(w)' /\ HeldMessages(w)' = HeldMessages(w)
    <3>1. m = Message(t, t) /\ Tail(to[w]) = << >>
      BY <2>1, ShortSequences
    <3>2. m.tag = t /\ m.value = t /\ t # NO_MORE_TASKS /\ t \in Tags /\ t \in 0 .. MAX_TASKS
      BY <3>1 DEF Message, Tasks, NO_MORE_TASKS, Tags
    <3>3. Serving(w, t)
      BY <2>1, <1>1 DEF Serving, Has
    <3>4. Serving(w, t)'
      BY <2>1, <3>1, <3>2, <1>3 DEF Serving, Has
    <3>5. HeldMessages(w) = {t} /\ HeldMessages(w)' = {t}
      BY <3>3, <3>4, HeldWhere, HeldWhereNext DEF HeldByPlace
    <3>6. QED
      BY <2>1, <3>2, <3>4, <3>5 DEF Conversation
  <2>2. ASSUME NEW rest, rest = << >> \/ rest = <<Signal>>,
               m = Signal, to'[w] = rest, from[w] = << >>,
               to[w] \in {<<Signal>>, <<Signal, Signal>>},
               Stage(w)' = Stage(w) => Stage(w)' = IF rest = << >> THEN "told" ELSE "toldTwice"
        PROVE  /\ m.tag \in Tags /\ m.value \in 0 .. MAX_TASKS
               /\ Stage(w)' = Stage(w) => Conversation(w)' /\ HeldMessages(w)' = HeldMessages(w)
    <3>1. m.tag = NO_MORE_TASKS /\ m.value = 0 /\ NO_MORE_TASKS \in Tags /\ 0 \in 0 .. MAX_TASKS
      BY <2>2, MessageTypes DEF Tags
    <3>2. Has(w, {"recv"}, to[w], << >>)
      BY <2>2, <1>1 DEF Has
    <3>3. Has(w, {"exited"}, rest, << >>)'
      BY <2>2, <3>1, <1>3 DEF Has
    <3>4. HeldMessages(w) = {} /\ HeldMessages(w)' = {}
      BY <2>2, <3>2, <3>3, HeldWhere, HeldWhereNext DEF HeldByPlace
    <3>5. QED
      BY <2>2, <3>1, <3>3, <3>4 DEF Conversation
  <2>3. CASE to[w] = <<Signal>> /\ from[w] = << >> /\ Stage(w) = "told"
    BY <2>2, <2>3, <1>3, ShortSequences
  <2>4. CASE to[w] = <<Signal, Signal>> /\ from[w] = << >> /\ Stage(w) = "toldTwice"
    BY <2>2, <2>4, <1>3, ShortSequences
  <2>5. QED
    BY <2>1, <2>3, <2>4, <1>4
<1>6. FarmTypeOK'
  <2>1. to' \in [Workers -> Seq(Messages)]
    BY <1>1, <1>2, ChannelTypes DEF FarmTypeOK
  <2>2. wpc' \in [Workers -> WorkerPoints]
    BY <1>1, <1>2 DEF FarmTypeOK, WorkerPoints
  <2>3. /\ message_tag' \in [Workers -> Tags \cup {0}]
        /\ received_task_value' \in [Workers -> 0 .. MAX_TASKS]
    BY <1>1, <1>2, <1>5 DEF FarmTypeOK
  <2>4. QED
    BY <2>1, <2>2, <2>3, <1>1, <1>2 DEF FarmTypeOK, farmer, collected
<1>7. QED
  BY <1>1, <1>2, <1>5, <1>6, WorkerMoves DEF FarmTypeOK

LEMMA AnswerStep == ASSUME FarmInv, NEW w \in Workers, Answer(w) PROVE GoodStep
<1> USE FarmAssumption
<1>1. /\ wpc[w] = "compute" /\ wpc' = [wpc EXCEPT ![w] = "send"]
      /\ from' = [from EXCEPT ![w] =
                    Append(@, Message(message_tag[w], compute(received_task_value[w])))]
      /\ UNCHANGED <<farmer, message_tag, received_task_value, to>>
  BY DEF Answer
<1>2. FarmTypeOK /\ Conversation(w)
  BY DEF FarmInv
<1>3. Stage(w) = "open" /\ \E t \in Tasks : Serving(w, t)
  <2>1. Stage(w) \in {"absent", "new", "open", "told", "toldTwice"}
    BY DEF Stage
  <2>2. QED
    BY <2>1, <1>1, <1>2 DEF Conversation, Has
<1>4. PICK t \in Tasks : Serving(w, t)
  BY <1>3
<1>5. Has(w, {"compute"}, << >>, << >>) /\ message_tag[w] = t /\ received_task_value[w] = t
  BY <1>1, <1>4 DEF Serving, Has
<1>6. from'[w] = <<Message(t, compute(t))>>
  BY <1>1, <1>2, <1>5, ShortSequences DEF Has, FarmTypeOK
<1>7. Serving(w, t)'
  BY <1>1, <1>2, <1>5, <1>6 DEF Serving, Has, FarmTypeOK
<1>8. Stage(w)' = Stage(w) => Conversation(w)' /\ HeldMessages(w)' = HeldMessages(w)
  BY <1>3, <1>4, <1>7, HeldWhere, HeldWhereNext DEF HeldByPlace, Conversation
<1>9. FarmTypeOK'
  <2>1. from' \in [Workers -> Seq(Messages)]
    BY <1>1, <1>2, <1>5, MessageTypes, ChannelTypes DEF FarmTypeOK
  <2>2. wpc' \in [Workers -> WorkerPoints]
    BY <1>1, <1>2 DEF FarmTypeOK, WorkerPoints
  <2>3. QED
    BY <2>1, <2>2, <1>1, <1>2 DEF FarmTypeOK, farmer, collected
<1>10. QED
  BY <1>1, <1>2, <1>8, <1>9, WorkerMoves DEF FarmTypeOK

LEMMA WorkerSentStep == ASSUME FarmInv, NEW w \in Workers, WorkerSent(w) PROVE GoodStep
<1>1. /\ wpc[w] = "send" /\ wpc' = [wpc EXCEPT ![w] = "recv"]
      /\ UNCHANGED <<farmer, message_tag, received_task_value, to, from>>
  BY DEF WorkerSent
<1>2. FarmTypeOK /\ Conversation(w)
  BY DEF FarmInv
<1>3. Stage(w) \in {"open", "told", "toldTwice"}
  <2>1. Stage(w) \in {"absent", "new", "open", "told", "toldTwice"}
    BY DEF Stage
  <2>2. QED
    BY <2>1, <1>1, <1>2 DEF Conversation, Has
<1>4. Stage(w)' = Stage(w) => Conversation(w)'
  BY <1>1, <1>2, <1>3 DEF Conversation, Serving, Has, FarmTypeOK
<1>5. HeldMessages(w)' = HeldMessages(w)
  BY <1>1, <1>2 DEF HeldMessages, InTransit, FarmTypeOK
<1>6. FarmTypeOK'
  BY <1>1, <1>2 DEF FarmTypeOK, farmer, collected, WorkerPoints
<1>7. QED
  BY <1>1, <1>2, <1>4, <1>5, <1>6, WorkerMoves DEF FarmTypeOK

-----------------------------------------------------------------------------
(* Whatever a step does to the tasks, the accounts still balance.          *)
LEMMA AccountingKept ==
  ASSUME FarmInv, FarmTypeOK', TaskEffect
  PROVE  TaskAccounting'
<1> DEFINE Answered == {r[1] : r \in result_data}
           AllHeld == UNION {HeldMessages(w) : w \in Workers}
<1> USE FarmAssumption
<1>1. FarmTypeOK /\ TaskAccounting
  BY DEF FarmInv
<1>2. /\ next_task_id \in Nat \ {0} /\ completed_task_count \in Nat
      /\ 1 .. next_task_id - 1 = Answered \cup AllHeld
  <2>1. next_task_id \in Nat \ {0} /\ completed_task_count \in Nat
    BY <1>1 DEF FarmTypeOK
  <2>2. 1 .. next_task_id - 1 = Answered \cup AllHeld
    BY <1>1 DEF TaskAccounting
  <2>3. QED
    BY <2>1, <2>2
<1>3. IsFiniteSet(result_data) /\ \A t : IsFiniteSet({t}) /\ Cardinality({t}) = 1
  <2>1. IsFiniteSet(Tasks \X (0 .. compute(MAX_TASKS)))
    <3>1. IsFiniteSet(Tasks)
      BY FS_Interval DEF Tasks
    <3>2. IsFiniteSet(0 .. compute(MAX_TASKS))
      BY FS_Interval DEF compute
    <3>3. QED
      BY <3>1, <3>2, FS_Product
  <2>2. QED
    BY <2>1, <1>1, FS_Subset, FS_Singleton DEF FarmTypeOK
<1>4. CASE KeepsTasks
  <2> USE <1>4 DEF KeepsTasks
  <2>1. Answered' = Answered /\ AllHeld' = AllHeld
    OBVIOUS
  <2>2. 1 .. next_task_id' - 1 = Answered' \cup AllHeld'
    BY <1>2, <2>1
  <2>3. QED
    BY <1>1, <2>2 DEF TaskAccounting
<1>5. ASSUME NEW w \in Workers, NEW t \in Tasks, HandsOut(w, t)
      PROVE  TaskAccounting'
  <2> USE <1>5 DEF HandsOut, OnlyHolderChanges
  <2>1. Answered' = Answered /\ AllHeld' = AllHeld \cup {t}
    OBVIOUS
  <2>2. 1 .. next_task_id' - 1 = (1 .. next_task_id - 1) \cup {t}
    BY <1>2
  <2>3. t \notin Answered /\ t \notin AllHeld
    BY <1>2
  <2>4. \A v \in Workers : t \notin HeldMessages(v) /\ \A r \in result_data : r[1] # t
    BY <2>3
  <2>5. 1 .. next_task_id' - 1 = Answered' \cup AllHeld'
    BY <1>2, <2>1, <2>2
  <2>6. ASSUME NEW v \in Workers
        PROVE  /\ \A r \in result_data : r[1] \notin HeldMessages(v)'
               /\ Cardinality(HeldMessages(v)') <= 1
    <3>1. CASE v = w
      BY <1>3, <2>4, <3>1
    <3>2. CASE v # w
      BY <1>1, <3>2 DEF TaskAccounting
    <3>3. QED
      BY <3>1, <3>2
  <2>7. \A v \in Workers : \A u \in Workers \ {v} : HeldMessages(v)' \cap HeldMessages(u)' = {}
    BY <1>1, <2>4 DEF TaskAccounting
  <2>8. QED
    BY <1>1, <2>5, <2>6, <2>7 DEF TaskAccounting
<1>6. ASSUME NEW w \in Workers, NEW t \in Tasks, HandsIn(w, t)
      PROVE  TaskAccounting'
  <2> USE <1>6 DEF HandsIn, OnlyHolderChanges
  <2> DEFINE p == <<t, compute(t)>>
  <2>1. p[1] = t /\ p[2] = compute(t)
    OBVIOUS
  <2>2. \A v \in Workers \ {w} : t \notin HeldMessages(v)
    BY <1>1 DEF TaskAccounting
  <2>3. Answered' \cup AllHeld' = Answered \cup AllHeld
    <3>1. Answered' = Answered \cup {t}
      BY <2>1
    <3>2. AllHeld = AllHeld' \cup {t}
      OBVIOUS
    <3>3. QED
      BY <3>1, <3>2
  <2>4. p \notin result_data
    BY <1>1, <2>1 DEF TaskAccounting
  <2>5. completed_task_count' = Cardinality(result_data')
    BY <1>1, <1>3, <2>4, FS_AddElement DEF TaskAccounting
  <2>6. Cardinality({}) = 0
    BY FS_EmptySet
  <2>7. 1 .. next_task_id' - 1 = Answered' \cup AllHeld'
    BY <1>2, <2>3
  <2>8. ASSUME NEW v \in Workers
        PROVE  /\ \A r \in result_data' : r[1] \notin HeldMessages(v)'
               /\ Cardinality(HeldMessages(v)') <= 1
    <3>1. CASE v = w
      BY <2>6, <3>1
    <3>2. CASE v # w
      BY <1>1, <2>1, <2>2, <3>2 DEF TaskAccounting
    <3>3. QED
      BY <3>1, <3>2
  <2>9. \A v \in Workers : \A u \in Workers \ {v} : HeldMessages(v)' \cap HeldMessages(u)' = {}
    BY <1>1 DEF TaskAccounting
  <2>10. \A r \in result_data' : r[2] = compute(r[1])
    BY <1>1, <2>1 DEF TaskAccounting
  <2>11. QED
    BY <2>5, <2>7, <2>8, <2>9, <2>10 DEF TaskAccounting
<1>7. QED
  BY <1>4, <1>5, <1>6 DEF TaskEffect

LEMMA FarmStart == FarmInit => FarmInv
<1> SUFFICES ASSUME FarmInit PROVE FarmInv
  OBVIOUS
<1> USE FarmAssumption DEF FarmInit
<1>1. FarmTypeOK
  <2>1. << >> \in Seq(Messages) /\ compute(MAX_TASKS) \in Nat
    BY EmptySeq DEF compute
  <2>2. num_of_workers \in Nat \ {0}
    BY DEF Workers
  <2>3. QED
    BY <2>1, <2>2 DEF FarmTypeOK, Workers, FarmerPoints, WorkerPoints, Tags
<1>2. \A w \in Workers :
        /\ Stage(w) = IF w > num_of_workers THEN "absent" ELSE "new"
        /\ Has(w, IF w > num_of_workers THEN {"absent"} ELSE {"recv"}, << >>, << >>)
  BY DEF Stage, Has, Workers
<1>3. \A w \in Workers : Conversation(w) /\ HeldMessages(w) = {}
  BY <1>2, HeldWhere DEF Conversation, HeldByPlace
<1>4. Control
  BY DEF Control, Workers
<1>5. TaskAccounting
  <2>1. Cardinality({}) = 0
    BY FS_EmptySet
  <2>2. UNION {HeldMessages(w) : w \in Workers} = {} /\ {r[1] : r \in result_data} = {}
    BY <1>3
  <2>3. 1 .. next_task_id - 1 = {}
    OBVIOUS
  <2>4. 1 .. next_task_id - 1
          = {r[1] : r \in result_data} \cup UNION {HeldMessages(w) : w \in Workers}
    BY <2>2, <2>3
  <2>5. \A w \in Workers :
          /\ \A r \in result_data : r[1] \notin HeldMessages(w)
          /\ \A v \in Workers \ {w} : HeldMessages(w) \cap HeldMessages(v) = {}
          /\ Cardinality(HeldMessages(w)) <= 1
    <3>1. \A w \in Workers : HeldMessages(w) = {} /\ Cardinality(HeldMessages(w)) = 0
      BY <1>3, <2>1
    <3>2. QED
      BY <3>1
  <2>6. completed_task_count = Cardinality(result_data)
    BY <2>1
  <2>7. \A r \in result_data : r[2] = compute(r[1])
    OBVIOUS
  <2>8. QED
    BY <2>4, <2>5, <2>6, <2>7 DEF TaskAccounting
<1>6. QED
  BY <1>1, <1>3, <1>4, <1>5 DEF FarmInv

LEMMA FarmStep == ASSUME FarmInv, [FarmNext]_farmvars PROVE FarmInv' /\ TaskEffect
<1>1. GoodStep
  <2>1. CASE UNCHANGED farmvars
    <3>1. \A w \in Workers : Stage(w)' = Stage(w) /\ HeldMessages(w)' = HeldMessages(w)
      BY <2>1 DEF Stage, HeldMessages, InTransit, farmvars, farmer, worker
    <3>2. \A w \in Workers : Conversation(w)'
      BY <2>1, <3>1, SameConversation DEF FarmInv, farmvars, worker
    <3>3. FarmTypeOK'
      BY <2>1 DEF FarmInv, FarmTypeOK, farmvars, farmer, worker, collected
    <3>4. Control'
      <4>1. HeldMessages(message_src)' = HeldMessages(message_src)
        BY <2>1 DEF HeldMessages, InTransit, farmvars, farmer, worker, collected
      <4>2. QED
        BY <2>1, <4>1 DEF FarmInv, Control, farmvars, farmer, collected
    <3>5. KeepsTasks
      BY <2>1, <3>1 DEF KeepsTasks, farmvars, farmer, collected
    <3>6. QED
      BY <3>2, <3>3, <3>4, <3>5 DEF GoodStep, TaskEffect
  <2>2. CASE FarmerStep
    BY <2>2, InitialTaskStep, NoInitialTaskStep, ReceiveResultStep, AssignTaskStep,
       TerminateWorkerStep, FarmerMoves DEF FarmerStep
  <2>3. CASE FarmerSent
    BY <2>3, FarmerMoves
  <2>4. CASE \E w \in Workers : WorkerStep(w) \/ WorkerSent(w)
    BY <2>4, ReceiveStep, AnswerStep, WorkerSentStep DEF WorkerStep
  <2>5. CASE FarmTerminated
    BY <2>1, <2>5 DEF FarmTerminated
  <2>6. QED
    BY <2>1, <2>2, <2>3, <2>4, <2>5 DEF FarmNext
<1>2. QED
  BY <1>1, AccountingKept DEF GoodStep, FarmInv

-----------------------------------------------------------------------------
(* The invariant of the farm, for every number of tasks and workers: each  *)
(* task that was handed out is with exactly one worker or answered, and    *)
(* the farmer and every worker are in step (mpi.cpp:68-138, 153-176).      *)
THEOREM FarmInvariant == FarmSafety => []FarmInv
<1>1. FarmInv /\ [FarmNext]_farmvars => FarmInv'
  BY FarmStep
<1>2. QED
  BY FarmStart, <1>1, PTL DEF FarmSafety

(* No worker ends while it holds a task, nor, if it ever had one, before   *)
(* all tasks are answered (mpi.cpp:70-90, 125-138, 153-176).               *)
THEOREM FarmSignalAfterLastTask == FarmSafety => []SignalAfterLastTask
<1>1. ASSUME FarmInv PROVE SignalAfterLastTask
  <2> SUFFICES ASSUME NEW w \in Workers, wpc[w] = "exited"
               PROVE  HeldMessages(w) = {} /\ (w > MAX_TASKS \/ completed_task_count = MAX_TASKS)
    BY DEF SignalAfterLastTask
  <2>1. Stage(w) \in {"told", "toldTwice"}
    <3>1. Stage(w) \in {"absent", "new", "open", "told", "toldTwice"}
      BY DEF Stage
    <3>2. QED
      BY <1>1, <3>1 DEF FarmInv, Conversation, Serving, Has
  <2>2. Has(w, {"exited"}, << >>, << >>) \/ Has(w, {"exited"}, <<Signal>>, << >>)
    BY <1>1, <2>1 DEF FarmInv, Conversation, Has
  <2>3. HeldMessages(w) = {}
    BY <2>2, HeldWhere DEF HeldByPlace
  <2>4. w > MAX_TASKS \/ completed_task_count = MAX_TASKS
    BY <1>1, <2>1, FarmAssumption DEF FarmInv, Control, Stage, Workers
  <2>5. QED
    BY <2>3, <2>4
<1>2. QED
  BY <1>1, FarmInvariant, PTL

(* A worker that has ended leaves no message unread but the second signal  *)
(* of one there was no task for (mpi.cpp:81-90, 129-138).                  *)
THEOREM FarmUnreadSignals == FarmSafety => []OnlySecondSignalsUnread
<1>1. ASSUME FarmInv PROVE OnlySecondSignalsUnread
  <2> SUFFICES ASSUME NEW w \in Workers, wpc[w] = "exited", to[w] # << >>
               PROVE  w > MAX_TASKS /\ to[w] = <<Signal>>
    BY DEF OnlySecondSignalsUnread, Signal
  <2>1. Stage(w) = "toldTwice" /\ to[w] = <<Signal>>
    <3>1. Stage(w) \in {"absent", "new", "open", "told", "toldTwice"}
      BY DEF Stage
    <3>2. QED
      BY <1>1, <3>1 DEF FarmInv, Conversation, Serving, Has
  <2>2. w > MAX_TASKS
    BY <1>1, <2>1, FarmAssumption DEF FarmInv, FarmTypeOK, Stage, Workers
  <2>3. QED
    BY <2>1, <2>2
<1>2. QED
  BY <1>1, FarmInvariant, PTL

(* The farm implements the bag of tasks: the steps that hand out a task    *)
(* take it from the bag, those that receive a result hand it in, and all   *)
(* others leave the bag as it is.                                          *)
THEOREM FarmRefinement == FarmSafety => Bag!Safety
<1>1. FarmInit => Bag!Init
  <2> SUFFICES ASSUME FarmInit PROVE Bag!Init
    OBVIOUS
  <2>1. \A w \in Workers : HeldMessages(w) = {}
    <3>1. \A w \in Workers : Has(w, {"absent", "recv"}, << >>, << >>)
      BY DEF FarmInit, Has
    <3>2. QED
      BY <3>1, HeldWhere DEF HeldByPlace
  <2>2. QED
    BY <2>1 DEF FarmInit, Bag!Init, Tasks
<1>2. ASSUME FarmInv, [FarmNext]_farmvars PROVE [Bag!Next]_(Bag!vars)
  <2>1. TaskEffect /\ FarmInv'
    BY <1>2, FarmStep
  <2>2. CASE KeepsTasks
    BY <2>2 DEF KeepsTasks, Bag!vars
  <2>3. ASSUME NEW w \in Workers, NEW t \in Tasks, HandsOut(w, t)
        PROVE  Bag!Take(w, t)
    <3> USE <2>3 DEF HandsOut, OnlyHolderChanges
    <3>1. t \in next_task_id .. MAX_TASKS /\ next_task_id \in Int
      BY <1>2, FarmAssumption DEF FarmInv, FarmTypeOK, Tasks
    <3>2. next_task_id' .. MAX_TASKS = (next_task_id .. MAX_TASKS) \ {t}
      BY <3>1, FarmAssumption
    <3>3. [v \in Workers |-> HeldMessages(v)]' = [[v \in Workers |-> HeldMessages(v)] EXCEPT ![w] = {t}]
      OBVIOUS
    <3>4. QED
      BY <3>1, <3>2, <3>3 DEF Bag!Take
  <2>4. ASSUME NEW w \in Workers, NEW t \in Tasks, HandsIn(w, t)
        PROVE  Bag!HandIn(w, t)
    <3> USE <2>4 DEF HandsIn, OnlyHolderChanges
    <3>1. [v \in Workers |-> HeldMessages(v)]' = [[v \in Workers |-> HeldMessages(v)] EXCEPT ![w] = {}]
      OBVIOUS
    <3>2. QED
      BY <3>1 DEF Bag!HandIn
  <2>5. QED
    BY <2>1, <2>2, <2>3, <2>4 DEF TaskEffect, Bag!Next
<1>3. QED
  BY <1>1, <1>2, FarmInvariant, PTL DEF FarmSafety, Bag!Safety

-----------------------------------------------------------------------------
(* The prime sieve                                                         *)
Elements(q) == {q[a] : a \in DOMAIN q}

(* Taking the first number of a sorted queue, which goes before the others *)
LEMMA TakeFirst ==
  ASSUME NEW q \in Seq(Int), q # << >>, Sorted(q)
  PROVE  /\ Head(q) \in Int /\ Tail(q) \in Seq(Int) /\ Sorted(Tail(q))
         /\ Elements(q) = {Head(q)} \cup Elements(Tail(q))
         /\ \A y \in Elements(Tail(q)) : Before(Head(q), y)
<1>1. /\ Head(q) = q[1] /\ Head(q) \in Int /\ Tail(q) \in Seq(Int)
      /\ Len(q) \in Nat /\ Len(q) >= 1 /\ DOMAIN q = 1 .. Len(q)
      /\ Len(Tail(q)) = Len(q) - 1 /\ DOMAIN Tail(q) = 1 .. Len(q) - 1
      /\ \A a \in 1 .. Len(q) - 1 : Tail(q)[a] = q[a + 1]
  <2>1. Head(q) \in Int /\ Tail(q) \in Seq(Int) /\ Len(Tail(q)) = Len(q) - 1
        /\ \A a \in 1 .. Len(Tail(q)) : Tail(q)[a] = q[a + 1]
    BY HeadTailProperties
  <2>2. Len(q) \in Nat /\ DOMAIN q = 1 .. Len(q) /\ DOMAIN Tail(q) = 1 .. Len(Tail(q))
    BY <2>1, LenProperties
  <2>3. Len(q) # 0
    BY EmptySeq
  <2>4. QED
    BY <2>1, <2>2, <2>3
<1>2. Sorted(Tail(q))
  <2>1. SUFFICES ASSUME NEW a \in 1 .. Len(q) - 1, NEW b \in 1 .. Len(q) - 1, a < b
                 PROVE  Before(Tail(q)[a], Tail(q)[b])
    BY <1>1 DEF Sorted
  <2>2. a + 1 \in DOMAIN q /\ b + 1 \in DOMAIN q /\ a + 1 < b + 1
    BY <1>1, <2>1
  <2>3. Before(q[a + 1], q[b + 1])
    BY <2>2 DEF Sorted
  <2>4. QED
    BY <1>1, <2>3
<1>3. \A y \in Elements(Tail(q)) : y \in Elements(q) /\ Before(Head(q), y)
  <2>1. SUFFICES ASSUME NEW a \in 1 .. Len(q) - 1
                 PROVE  Tail(q)[a] \in Elements(q) /\ Before(Head(q), Tail(q)[a])
    BY <1>1 DEF Elements
  <2>2. 1 \in DOMAIN q /\ a + 1 \in DOMAIN q /\ 1 < a + 1
    BY <1>1
  <2>3. Before(q[1], q[a + 1])
    BY <2>2 DEF Sorted
  <2>4. QED
    BY <1>1, <2>2, <2>3 DEF Elements
<1>4. \A a \in DOMAIN q : q[a] = Head(q) \/ q[a] \in Elements(Tail(q))
  <2>1. SUFFICES ASSUME NEW a \in DOMAIN q, a # 1 PROVE q[a] \in Elements(Tail(q))
    BY <1>1
  <2>2. a - 1 \in DOMAIN Tail(q) /\ Tail(q)[a - 1] = q[a]
    BY <1>1, <2>1
  <2>3. QED
    BY <2>2 DEF Elements
<1>5. Head(q) \in Elements(q)
  BY <1>1 DEF Elements
<1>6. Elements(q) = {Head(q)} \cup Elements(Tail(q))
  <2>1. \A y \in Elements(q) : y \in {Head(q)} \cup Elements(Tail(q))
    BY <1>4 DEF Elements
  <2>2. QED
    BY <1>3, <1>5, <2>1
<1>7. QED
  BY <1>1, <1>2, <1>3, <1>6

(* Adding a number that goes after all others                              *)
LEMMA AddLast ==
  ASSUME NEW q \in Seq(Int), Sorted(q), NEW x \in Int,
         \A y \in Elements(q) : Before(y, x)
  PROVE  /\ Append(q, x) \in Seq(Int) /\ Append(q, x) # << >> /\ Sorted(Append(q, x))
         /\ Elements(Append(q, x)) = Elements(q) \cup {x}
<1> DEFINE r == Append(q, x)
<1>1. /\ r \in Seq(Int) /\ Len(q) \in Nat /\ DOMAIN q = 1 .. Len(q)
      /\ DOMAIN r = 1 .. Len(q) + 1 /\ r[Len(q) + 1] = x
      /\ \A a \in 1 .. Len(q) : r[a] = q[a]
  <2>1. r \in Seq(Int) /\ Len(r) = Len(q) + 1 /\ r[Len(q) + 1] = x
        /\ \A a \in 1 .. Len(q) : r[a] = q[a]
    BY AppendProperties
  <2>2. QED
    BY <2>1, LenProperties
<1> HIDE DEF r
<1>2. r # << >>
  <2>1. Len(q) + 1 \in DOMAIN r
    BY <1>1
  <2>2. QED
    BY <2>1, EmptySeq
<1>3. Sorted(r)
  <2>1. SUFFICES ASSUME NEW a \in DOMAIN r, NEW b \in DOMAIN r, a < b PROVE Before(r[a], r[b])
    BY DEF Sorted
  <2>2. CASE b = Len(q) + 1
    <3>1. a \in DOMAIN q /\ r[a] = q[a] /\ r[b] = x
      BY <1>1, <2>1, <2>2
    <3>2. QED
      BY <3>1 DEF Elements
  <2>3. CASE b # Len(q) + 1
    <3>1. a \in DOMAIN q /\ b \in DOMAIN q /\ r[a] = q[a] /\ r[b] = q[b]
      BY <1>1, <2>1, <2>3
    <3>2. QED
      BY <2>1, <3>1 DEF Sorted
  <2>4. QED
    BY <2>2, <2>3
<1>4. \A a \in DOMAIN r : r[a] \in Elements(q) \cup {x}
  <2>1. SUFFICES ASSUME NEW a \in DOMAIN r, a # Len(q) + 1 PROVE r[a] \in Elements(q)
    BY <1>1
  <2>2. a \in DOMAIN q /\ r[a] = q[a]
    BY <1>1, <2>1
  <2>3. QED
    BY <2>2 DEF Elements
<1>5. \A a \in DOMAIN q : q[a] \in Elements(r)
  <2>1. SUFFICES ASSUME NEW a \in DOMAIN q PROVE q[a] \in Elements(r)
    OBVIOUS
  <2>2. a \in DOMAIN r /\ r[a] = q[a]
    BY <1>1
  <2>3. QED
    BY <2>2 DEF Elements
<1>6. x \in Elements(r)
  BY <1>1 DEF Elements
<1>7. Elements(r) = Elements(q) \cup {x}
  <2>1. Elements(r) \subseteq Elements(q) \cup {x}
    BY <1>4 DEF Elements
  <2>2. Elements(q) \subseteq Elements(r)
    BY <1>5 DEF Elements
  <2>3. QED
    BY <1>6, <2>1, <2>2
<1>8. QED
  BY <1>1, <1>2, <1>3, <1>7 DEF r

(* A number in front of a queue                                            *)
LEMMA InFront ==
  ASSUME NEW c \in Seq(Int), NEW t \in Int
  PROVE  /\ << >> \o c = c
         /\ <<t>> \o c \in Seq(Int) /\ <<t>> \o c # << >>
         /\ Head(<<t>> \o c) = t /\ Tail(<<t>> \o c) = c
         /\ \A x \in Int : Append(<<t>> \o c, x) = <<t>> \o Append(c, x)
<1>1. <<t>> \in Seq(Int) /\ Len(<<t>>) = 1 /\ <<t>>[1] = t
  OBVIOUS
<1>2. << >> \o c = c
  BY ConcatEmptySeq
<1>3. \A x \in Int : Append(<<t>> \o c, x) = <<t>> \o Append(c, x)
  OBVIOUS
<1>4. <<t>> \o c \in Seq(Int) /\ <<t>> \o c # << >>
      /\ Head(<<t>> \o c) = t /\ Tail(<<t>> \o c) = c
  OBVIOUS
<1>5. QED
  BY <1>2, <1>3, <1>4

LEMMA QueueTypes ==
  ASSUME SieveTypeOK
  PROVE  /\ Stop \in Int /\ N \in Nat
         /\ candidate \in Int /\ Upcoming \in Int
         /\ \A k \in Sievers : /\ k \in Int /\ pipe[k] \in Seq(Int) /\ Queue(k) \in Seq(Int)
                               /\ tested[k] \in Int /\ prime[k] \in Int
<1>1. N \in Nat \ {0} /\ Stop \in Int /\ candidate \in Int
  BY SieveAssumption DEF SieveTypeOK, Stop
<1>2. \A k \in Sievers : tested[k] \in Int /\ prime[k] \in Int /\ pipe[k] \in Seq(Int)
  <2>1. SUFFICES ASSUME NEW k \in Sievers
                 PROVE  tested[k] \in Int /\ prime[k] \in Int /\ pipe[k] \in Seq(Int)
    OBVIOUS
  <2>2. tested[k] \in Numbers /\ prime[k] \in Numbers
        /\ pipe[k] \in Seq(2 .. N - 1 \cup {Stop})
    BY DEF SieveTypeOK
  <2>3. Numbers \subseteq Int /\ 2 .. N - 1 \cup {Stop} \subseteq Int
    BY <1>1 DEF Numbers
  <2>4. QED
    BY <2>2, <2>3, SeqMonotonic
<1>3. \A k \in Sievers : Queue(k) \in Seq(Int)
  BY <1>2, InFront DEF Queue, Held
<1>4. QED
  BY <1>1, <1>2, <1>3 DEF Upcoming, Sievers

(* What the steps do to the queues: nothing, one more number at the end of *)
(* a queue, one less in front, or from one queue to the next               *)
NothingMoves == \A k \in Sievers : Queue(k)' = Queue(k)

Arrives(m, x) ==
  \A k \in Sievers : Queue(k)' = IF k = m THEN Append(Queue(k), x) ELSE Queue(k)

Leaves(m) ==
  \A k \in Sievers : Queue(k)' = IF k = m THEN Tail(Queue(k)) ELSE Queue(k)

GoesOn(m, x) ==
  \A k \in Sievers : Queue(k)' = IF k = m THEN Tail(Queue(k))
                                 ELSE IF k = m + 1 THEN Append(Queue(k), x) ELSE Queue(k)

LEMMA WaitingNow == ASSUME NEW k PROVE Waiting(k) = Elements(Queue(k))
BY DEF Waiting, Elements

LEMMA Ranges ==
  \A u, v \in Int :
    /\ u <= v => \A a \in Int : a .. u - 1 \subseteq a .. v - 1
    /\ \A n \in 2 .. v - 1 : n \in 2 .. u - 1 \/ n \in u .. v - 1
    /\ u = v => u .. v - 1 = {} /\ u <= v
OBVIOUS

LEMMA AtMostOneMore ==
  \A u, v \in Int : \A n \in u .. v - 1 : v = u \/ v = u + 1 => n = u /\ v = u + 1
OBVIOUS

(* The conditions for x to join the queue of stage m in a step             *)
MayJoin(m, x) ==
  /\ x # Stop => /\ x \in 2 .. Upcoming' - 1
                 /\ \A j \in Sievers : HasPrime(j) =>
                      x > prime[j] /\ (j < m => x % prime[j] # 0)
  /\ x = Stop => candidate' = Stop /\ \A j \in 1 .. m - 1 : Ended(j)'
  /\ \A j \in 1 .. m - 1 : \A y \in Waiting(j)' : Before(x, y)
  /\ \A k \in Sievers : k > m => \A y \in Waiting(k)' : Before(y, x)

(* In order and sifted remains what gets no new numbers but in order and   *)
(* sifted ones.                                                            *)
LEMMA StillSorted ==
  ASSUME PipelineInv, SieveTypeOK', NEW m \in Sievers, NEW X \in SUBSET Int,
         \A k \in Sievers : Sorted(Queue(k))',
         \A k \in Sievers : Waiting(k)' \subseteq Waiting(k) \cup (IF k = m THEN X ELSE {}),
         Upcoming <= Upcoming', candidate = Stop => candidate' = Stop,
         \A k \in Sievers : (HasPrime(k)' => HasPrime(k)) /\ (Ended(k) => Ended(k)'),
         UNCHANGED prime,
         \A x \in X : MayJoin(m, x)
  PROVE  SortedAndSifted'
<1>1. SortedAndSifted /\ SieveTypeOK
  BY DEF PipelineInv
<1>2. Upcoming \in Int /\ Upcoming' \in Int /\ N \in Nat
  <2>1. candidate \in Int /\ candidate' \in Int /\ N \in Nat
    BY <1>1, QueueTypes DEF SieveTypeOK, Stop
  <2>2. QED
    BY <2>1 DEF Upcoming
<1>3. ASSUME NEW k \in Sievers, NEW x \in Waiting(k)', x # Stop
      PROVE  /\ x \in 2 .. Upcoming' - 1
             /\ \A j \in Sievers : HasPrime(j)' => x > prime'[j] /\ (j < k => x % prime'[j] # 0)
  <2>1. CASE x \in Waiting(k)
    <3>1. /\ x \in 2 .. Upcoming - 1
          /\ \A j \in Sievers : HasPrime(j) => x > prime[j] /\ (j < k => x % prime[j] # 0)
      BY <1>1, <1>3, <2>1 DEF SortedAndSifted
    <3>2. 2 .. Upcoming - 1 \subseteq 2 .. Upcoming' - 1
      BY <1>2, Ranges
    <3>3. QED
      BY <1>3, <3>1, <3>2
  <2>2. CASE x \notin Waiting(k)
    <3>1. k = m /\ x \in X
      BY <2>2
    <3>2. QED
      BY <1>3, <3>1 DEF MayJoin
  <2>3. QED
    BY <2>1, <2>2
<1>4. ASSUME NEW k \in Sievers, NEW j \in 1 .. k - 1,
             NEW x \in Waiting(k)', NEW y \in Waiting(j)'
      PROVE  Before(x, y)
  <2>1. j \in Sievers /\ j < k
    BY <1>2 DEF Sievers
  <2>2. CASE x \in Waiting(k) /\ y \in Waiting(j)
    BY <1>1, <2>2 DEF SortedAndSifted
  <2>3. CASE x \notin Waiting(k)
    <3>1. k = m /\ x \in X
      BY <2>3
    <3>2. QED
      BY <3>1 DEF MayJoin
  <2>4. CASE y \notin Waiting(j)
    <3>1. j = m /\ y \in X
      BY <2>1, <2>4
    <3>2. QED
      BY <2>1, <3>1 DEF MayJoin
  <2>5. QED
    BY <2>2, <2>3, <2>4
<1>5. ASSUME NEW k \in Sievers, Stop \in Waiting(k)'
      PROVE  candidate' = Stop /\ \A j \in 1 .. k - 1 : Ended(j)'
  <2>1. CASE Stop \in Waiting(k)
    <3>1. candidate = Stop /\ \A j \in 1 .. k - 1 : Ended(j)
      BY <1>1, <2>1 DEF SortedAndSifted
    <3>2. \A j \in 1 .. k - 1 : j \in Sievers
      BY <1>2 DEF Sievers
    <3>3. QED
      BY <3>1, <3>2
  <2>2. CASE Stop \notin Waiting(k)
    <3>1. k = m /\ Stop \in X
      BY <1>5, <2>2
    <3>2. QED
      BY <3>1 DEF MayJoin
  <2>3. QED
    BY <2>1, <2>2
<1>6. QED
  BY <1>3, <1>4, <1>5 DEF SortedAndSifted

LEMMA StillPrinted ==
  ASSUME PipelineInv, SieveTypeOK', UNCHANGED <<prime, primes>>, Upcoming <= Upcoming',
         \A k \in Sievers : HasPrime(k)' <=> HasPrime(k)
  PROVE  PrimesPrinted'
<1>1. PrimesPrinted /\ SieveTypeOK
  BY DEF PipelineInv
<1>2. Upcoming \in Int /\ Upcoming' \in Int
  <2>1. candidate \in Int /\ candidate' \in Int /\ N \in Nat
    BY <1>1, QueueTypes DEF SieveTypeOK, Stop
  <2>2. QED
    BY <2>1 DEF Upcoming
<1>3. DOMAIN primes' = {k \in Sievers : HasPrime(k)'}
  BY <1>1 DEF PrimesPrinted
<1>4. ASSUME NEW k \in Sievers, HasPrime(k)
      PROVE  /\ primes[k] = prime[k] /\ prime[k] \in k + 1 .. Upcoming' - 1
             /\ \A j \in 1 .. k - 1 : HasPrime(j)' /\ prime[j] < prime[k]
  <2>1. /\ primes[k] = prime[k] /\ prime[k] \in k + 1 .. Upcoming - 1
        /\ \A j \in 1 .. k - 1 : HasPrime(j) /\ prime[j] < prime[k]
    BY <1>1, <1>4 DEF PrimesPrinted
  <2>2. k + 1 .. Upcoming - 1 \subseteq k + 1 .. Upcoming' - 1
    <3>1. k + 1 \in Int
      BY SieveAssumption DEF Sievers
    <3>2. QED
      BY <1>2, <3>1, Ranges
  <2>3. \A j \in 1 .. k - 1 : j \in Sievers
    BY SieveAssumption DEF Sievers
  <2>4. QED
    BY <2>1, <2>2, <2>3
<1>5. \A k \in Sievers : ~HasPrime(k) => prime[k] = 0
  BY <1>1 DEF PrimesPrinted
<1>6. QED
  BY <1>3, <1>4, <1>5 DEF PrimesPrinted

LEMMA StillAccounted ==
  ASSUME NoCandidateLost, UNCHANGED prime, Upcoming \in Int, Upcoming' \in Int,
         \A k \in Sievers : HasPrime(k) => HasPrime(k)',
         \A k \in Sievers : \A x \in Waiting(k) \ {Stop} :
           \E j \in Sievers : x \in Waiting(j)' \/ (HasPrime(j)' /\ x % prime[j] = 0),
         \A n \in Upcoming .. Upcoming' - 1 : \E j \in Sievers : n \in Waiting(j)'
  PROVE  NoCandidateLost'
<1>1. SUFFICES ASSUME NEW n \in 2 .. Upcoming' - 1
               PROVE  \E k \in Sievers : (HasPrime(k)' /\ n % prime[k] = 0) \/ n \in Waiting(k)'
  BY DEF NoCandidateLost
<1>2. CASE n \in 2 .. Upcoming - 1
  <2>1. PICK k \in Sievers : (HasPrime(k) /\ n % prime[k] = 0) \/ n \in Waiting(k)
    BY <1>2 DEF NoCandidateLost
  <2>2. n # Stop
    BY <1>2 DEF Stop
  <2>3. QED
    BY <2>1, <2>2
<1>3. CASE n \in Upcoming .. Upcoming' - 1
  BY <1>3
<1>4. n \in 2 .. Upcoming - 1 \/ n \in Upcoming .. Upcoming' - 1
  BY <1>1, Ranges
<1>5. QED
  BY <1>2, <1>3, <1>4

SieveInv == PipelineInv /\ NoCandidateLost

(* A stage that has a prime is not the last of the Sievers.                *)
LEMMA StageFacts ==
  ASSUME PipelineInv
  PROVE  /\ SieveTypeOK /\ SortedAndSifted /\ Stages /\ PrimesPrinted
         /\ N \in Nat /\ Stop = -1 /\ Upcoming \in Int /\ Upcoming <= N
         /\ \A k \in Sievers : k \in 1 .. N
         /\ \A k \in Sievers : HasPrime(k) =>
              /\ k + 1 \in Sievers /\ prime[k] \in k + 1 .. Upcoming - 1
              /\ \A j \in 1 .. k - 1 : HasPrime(j) /\ prime[j] < prime[k]
<1>1. SieveTypeOK /\ SortedAndSifted /\ Stages /\ PrimesPrinted /\ N \in Nat
  BY SieveAssumption DEF PipelineInv
<1>2. Upcoming \in Int /\ Upcoming <= N
  BY <1>1 DEF Upcoming, Stages, GeneratorInOrder, SieveTypeOK
<1>3. ASSUME NEW k \in Sievers, HasPrime(k)
      PROVE  /\ k + 1 \in Sievers /\ prime[k] \in k + 1 .. Upcoming - 1
             /\ \A j \in 1 .. k - 1 : HasPrime(j) /\ prime[j] < prime[k]
  <2>1. prime[k] \in k + 1 .. Upcoming - 1
        /\ \A j \in 1 .. k - 1 : HasPrime(j) /\ prime[j] < prime[k]
    BY <1>1, <1>3 DEF PrimesPrinted
  <2>2. k + 1 \in Sievers
    BY <1>1, <1>2, <2>1 DEF Sievers
  <2>3. QED
    BY <2>1, <2>2
<1>4. QED
  BY <1>1, <1>2, <1>3 DEF Stop, Sievers

LEMMA Quietly ==
  ASSUME SieveInv, SieveTypeOK', Stages', NothingMoves, UNCHANGED <<prime, primes>>,
         Upcoming' = Upcoming, candidate = Stop => candidate' = Stop,
         \A k \in Sievers : (HasPrime(k)' <=> HasPrime(k)) /\ (Ended(k) => Ended(k)')
  PROVE  SieveInv'
<1>1. PipelineInv /\ NoCandidateLost /\ Upcoming \in Int /\ 1 \in Sievers /\ SortedAndSifted
  BY StageFacts, SieveAssumption DEF SieveInv, Sievers
<1>2. \A k \in Sievers : Waiting(k)' = Waiting(k) /\ (Sorted(Queue(k))' <=> Sorted(Queue(k)))
  BY DEF NothingMoves, Waiting, Sorted
<1>3. SortedAndSifted'
  <2>1. \A k \in Sievers : Sorted(Queue(k))'
    BY <1>1, <1>2 DEF SortedAndSifted
  <2>2. {} \in SUBSET Int /\ Upcoming <= Upcoming'
        /\ \A k \in Sievers : Waiting(k)' \subseteq Waiting(k) \cup (IF k = 1 THEN {} ELSE {})
    BY <1>1, <1>2, Ranges
  <2>3. QED
    BY <1>1, <1>2, <2>1, <2>2, StillSorted
<1>4. PrimesPrinted'
  BY <1>1, Ranges, StillPrinted
<1>5. NoCandidateLost'
  <2>1. \A n \in Upcoming .. Upcoming' - 1 : \E j \in Sievers : n \in Waiting(j)'
    BY <1>1, Ranges
  <2>2. QED
    BY <1>1, <1>2, <2>1, StillAccounted
<1>6. QED
  BY <1>3, <1>4, <1>5 DEF SieveInv, PipelineInv

LEMMA SpawnFirstStep == ASSUME SieveInv, N > 2, SpawnFirst PROVE SieveInv'
<1>1. /\ SieveTypeOK /\ Stages /\ N \in Nat /\ Stop = -1 /\ 1 \in Sievers
      /\ \A k \in Sievers : k \in 1 .. N
  BY StageFacts, SieveAssumption DEF SieveInv, Sievers
<1>2. /\ gpc = "spawn" /\ gpc' = "loop" /\ candidate = 2 /\ spc[1] = "unborn" /\ pipe[1] = << >>
      /\ \A k \in Sievers : spc'[k] = IF k = 1 THEN "first" ELSE spc[k]
      /\ UNCHANGED <<candidate, prime, tested, first_output, pipe, primes>>
  BY <1>1 DEF SpawnFirst, Stages, GeneratorInOrder, SieverInOrder, SieveTypeOK
<1>3. SieveTypeOK'
  BY <1>1, <1>2 DEF SieveTypeOK, SpawnFirst
<1>4. NothingMoves
  <2>1. \A k \in Sievers : spc'[k] \in {"test", "output"} <=> spc[k] \in {"test", "output"}
    BY <1>2
  <2>2. QED
    BY <1>2, <2>1 DEF NothingMoves, Queue, Held
<1>5. \A k \in Sievers : (HasPrime(k)' <=> HasPrime(k)) /\ (Ended(k)' <=> Ended(k))
  BY <1>2 DEF HasPrime, Ended
<1>6. ASSUME NEW k \in Sievers PROVE SieverInOrder(k)'
  <2>1. SieverInOrder(k)
    BY <1>1 DEF Stages
  <2>2. CASE k = 1
    <3>1. first_output[1] /\ \A j \in 2 .. N : spc[j] = "unborn" /\ j \in Sievers /\ j # 1
      BY <1>1, <1>2, <2>1, <2>2 DEF SieverInOrder, HasPrime, Sievers
    <3>2. \A j \in 1 + 1 .. N : spc'[j] = "unborn"
      BY <1>2, <3>1
    <3>3. /\ spc'[1] = "first" /\ pipe'[1] = << >> /\ first_output'[1]
          /\ gpc' = "loop" /\ candidate' = 2
      BY <1>1, <1>2, <3>1
    <3>4. QED
      BY <2>2, <3>1, <3>2, <3>3 DEF SieverInOrder, HasPrime, Ended
  <2>3. CASE k # 1
    <3>1. spc[k] # "first" /\ spc[k] # "output" /\ ~Ended(k)
      BY <1>1, <1>2, <2>3 DEF Stages, SieverInOrder, HasPrime, Ended
    <3>2. QED
      BY <1>1, <1>2, <1>5, <2>1, <2>3, <3>1 DEF SieverInOrder, Sievers
  <2>4. QED
    BY <2>2, <2>3
<1>7. Stages'
  BY <1>1, <1>2, <1>6 DEF Stages, GeneratorInOrder
<1>8. QED
  BY <1>2, <1>3, <1>4, <1>5, <1>7, Quietly DEF Upcoming

LEMMA GeneratorSentStep == ASSUME SieveInv, N > 2, GeneratorSent PROVE SieveInv'
<1>1. /\ SieveTypeOK /\ Stages /\ N \in Nat /\ Stop = -1
      /\ \A k \in Sievers : k \in 1 .. N
  BY StageFacts DEF SieveInv
<1>2. /\ \/ gpc = "send" /\ gpc' = "loop" /\ candidate' = candidate + 1 /\ candidate \in 2 .. N - 1
         \/ gpc = "sendStop" /\ gpc' = "finalize" /\ candidate' = candidate /\ candidate = Stop
      /\ UNCHANGED <<spc, prime, tested, first_output, pipe, primes>>
  BY <1>1 DEF GeneratorSent, SentAndNext, Stages, GeneratorInOrder, svars
<1>3. SieveTypeOK'
  BY <1>1, <1>2 DEF SieveTypeOK, GeneratorSent, SentAndNext
<1>4. NothingMoves
  BY <1>2 DEF NothingMoves, Queue, Held
<1>5. \A k \in Sievers : (HasPrime(k)' <=> HasPrime(k)) /\ (Ended(k)' <=> Ended(k))
  BY <1>2 DEF HasPrime, Ended
<1>6. candidate = Stop => candidate' = Stop
  BY <1>1, <1>2
<1>7. ASSUME NEW k \in Sievers PROVE SieverInOrder(k)'
  <2>1. SieverInOrder(k)
    BY <1>1 DEF Stages
  <2>2. QED
    BY <1>1, <1>2, <1>5, <1>6, <2>1 DEF SieverInOrder, Divisible, Ended
<1>8. Stages'
  BY <1>1, <1>2, <1>7 DEF Stages, GeneratorInOrder
<1>9. Upcoming' = Upcoming
  BY <1>1, <1>2 DEF Upcoming
<1>10. QED
  BY <1>2, <1>3, <1>4, <1>5, <1>6, <1>8, <1>9, Quietly

LEMMA SieverSentStep ==
  ASSUME SieveInv, NEW i \in Sievers, SieverSent(i) PROVE SieveInv'
<1>1. /\ SieveTypeOK /\ Stages /\ N \in Nat
      /\ \A k \in Sievers : k \in 1 .. N
  BY StageFacts DEF SieveInv
<1>2. /\ \/ spc[i] = "send" /\ spc'[i] = "recv"
         \/ spc[i] = "sendStop" /\ spc'[i] = "finalize"
      /\ \A k \in Sievers \ {i} : spc'[k] = spc[k]
      /\ UNCHANGED <<gpc, candidate, prime, tested, first_output, pipe, primes>>
  BY <1>1 DEF SieverSent, SieveTypeOK, gvars
<1>3. SieveTypeOK'
  BY <1>1, <1>2 DEF SieveTypeOK, SieverSent
<1>4. \A k \in Sievers : /\ spc'[k] = "unborn" <=> spc[k] = "unborn"
                         /\ spc'[k] = "first" <=> spc[k] = "first"
                         /\ spc'[k] = "output" <=> spc[k] = "output"
                         /\ spc'[k] = "test" <=> spc[k] = "test"
                         /\ HasPrime(k)' <=> HasPrime(k)
                         /\ Ended(k)' <=> Ended(k)
  BY <1>2 DEF HasPrime, Ended
<1>5. NothingMoves
  BY <1>2, <1>4 DEF NothingMoves, Queue, Held
<1>6. ASSUME NEW k \in Sievers PROVE SieverInOrder(k)'
  <2>1. SieverInOrder(k)
    BY <1>1 DEF Stages
  <2>2. (\A j \in k + 1 .. N : j \in Sievers) /\ (\A j \in 1 .. k - 1 : j \in Sievers)
        /\ (k # 1 => k - 1 \in Sievers)
    BY <1>1 DEF Sievers
  <2>3. QED
    BY <1>2, <1>4, <2>1, <2>2 DEF SieverInOrder, Divisible
<1>7. Stages'
  BY <1>1, <1>2, <1>6 DEF Stages, GeneratorInOrder
<1>8. QED
  BY <1>2, <1>3, <1>4, <1>5, <1>7, Quietly DEF Upcoming

LEMMA ReceiveCandidateStep ==
  ASSUME SieveInv, NEW i \in Sievers, ReceiveCandidate(i) PROVE SieveInv'
<1>1. /\ SieveTypeOK /\ Stages /\ N \in Nat
      /\ \A k \in Sievers : k \in 1 .. N
  BY StageFacts DEF SieveInv
<1>2. /\ spc[i] = "recv" /\ spc'[i] = "test" /\ tested'[i] = Head(pipe[i])
      /\ pipe[i] # << >> /\ pipe'[i] = Tail(pipe[i])
      /\ \A k \in Sievers \ {i} : spc'[k] = spc[k] /\ tested'[k] = tested[k] /\ pipe'[k] = pipe[k]
      /\ UNCHANGED <<gpc, candidate, prime, first_output, primes>>
  BY <1>1 DEF ReceiveCandidate, Get, SieveTypeOK, gvars
<1>3. SieveTypeOK'
  <2>1. pipe[i] \in Seq(2 .. N - 1 \cup {Stop})
    BY <1>1 DEF SieveTypeOK
  <2>2. /\ Head(pipe[i]) \in 2 .. N - 1 \cup {Stop}
        /\ Tail(pipe[i]) \in Seq(2 .. N - 1 \cup {Stop})
    BY <1>2, <2>1, HeadTailProperties
  <2>3. Head(pipe[i]) \in Numbers
    BY <1>1, <2>2 DEF Numbers
  <2>4. QED
    BY <1>1, <1>2, <2>2, <2>3 DEF SieveTypeOK, ReceiveCandidate, Get
<1>4. NothingMoves
  <2>1. Queue(i)' = Queue(i)
    <3>1. pipe[i] \in Seq(Int)
      BY <1>1, QueueTypes
    <3>2. << >> \o pipe[i] = pipe[i]
      BY <3>1, InFront
    <3>3. <<Head(pipe[i])>> \o Tail(pipe[i]) = pipe[i]
      BY <1>2, <3>1
    <3>4. Queue(i) = pipe[i]
      BY <1>2, <3>2 DEF Queue, Held
    <3>5. Queue(i)' = <<Head(pipe[i])>> \o Tail(pipe[i])
      BY <1>2 DEF Queue, Held
    <3>6. QED
      BY <3>3, <3>4, <3>5
  <2>2. ASSUME NEW k \in Sievers, k # i PROVE Queue(k)' = Queue(k)
    <3>1. spc'[k] = spc[k] /\ tested'[k] = tested[k] /\ pipe'[k] = pipe[k]
      BY <1>2, <2>2
    <3>2. QED
      BY <3>1 DEF Queue, Held
  <2>3. QED
    BY <2>1, <2>2 DEF NothingMoves
<1>5. \A k \in Sievers : /\ spc'[k] = "unborn" <=> spc[k] = "unborn"
                         /\ spc'[k] = "first" <=> spc[k] = "first"
                         /\ spc'[k] = "output" <=> spc[k] = "output"
                         /\ HasPrime(k)' <=> HasPrime(k)
                         /\ Ended(k)' <=> Ended(k)
  BY <1>2 DEF HasPrime, Ended
<1>6. ASSUME NEW k \in Sievers PROVE SieverInOrder(k)'
  <2>1. SieverInOrder(k)
    BY <1>1 DEF Stages
  <2>2. (\A j \in k + 1 .. N : j \in Sievers) /\ (\A j \in 1 .. k - 1 : j \in Sievers)
        /\ (k # 1 => k - 1 \in Sievers)
    BY <1>1 DEF Sievers
  <2>3. CASE k = i
    BY <1>2, <1>5, <2>1, <2>2, <2>3 DEF SieverInOrder, HasPrime, Ended
  <2>4. CASE k # i
    BY <1>2, <1>5, <2>1, <2>2, <2>4 DEF SieverInOrder, Divisible
  <2>5. QED
    BY <2>3, <2>4
<1>7. Stages'
  BY <1>1, <1>2, <1>6 DEF Stages, GeneratorInOrder
<1>8. QED
  BY <1>2, <1>3, <1>4, <1>5, <1>7, Quietly DEF Upcoming

LEMMA KeepStep ==
  ASSUME SieveInv, NEW i \in Sievers, Keep(i) PROVE SieveInv'
<1>1. /\ SieveTypeOK /\ Stages /\ N \in Nat
      /\ \A k \in Sievers : k \in 1 .. N
  BY StageFacts DEF SieveInv
<1>2. /\ spc[i] = "test" /\ spc'[i] = "output" /\ i + 1 \in Sievers /\ i + 1 # i
      /\ tested[i] # Stop /\ ~Divisible(i) /\ HasPrime(i)
      /\ \A k \in Sievers : spc'[k] = IF k = i THEN "output"
                                      ELSE IF k = i + 1 /\ first_output[i] THEN "first"
                                      ELSE spc[k]
      /\ \A k \in Sievers : first_output'[k] = IF k = i THEN FALSE ELSE first_output[k]
      /\ UNCHANGED <<gpc, candidate, prime, tested, pipe, primes>>
  <2>1. spc[i] = "test" /\ HasPrime(i)
    BY DEF Keep, KeepThen, HasPrime
  <2>2. i + 1 \in Sievers /\ i + 1 # i
    BY <1>1, <2>1, StageFacts DEF SieveInv
  <2>3. QED
    BY <1>1, <2>1, <2>2 DEF Keep, KeepThen, SieveTypeOK, gvars
<1>3. first_output[i] =>
        /\ spc[i + 1] = "unborn" /\ pipe[i + 1] = << >> /\ first_output[i + 1]
        /\ \A k \in Sievers : k > i => spc[k] = "unborn"
  <2>1. SUFFICES ASSUME first_output[i]
                 PROVE  /\ spc[i + 1] = "unborn" /\ pipe[i + 1] = << >> /\ first_output[i + 1]
                        /\ \A k \in Sievers : k > i => spc[k] = "unborn"
    OBVIOUS
  <2>2. SieverInOrder(i + 1) /\ i + 1 # 1 /\ (i + 1) - 1 = i
    BY <1>1, <1>2 DEF Stages
  <2>3. spc[i + 1] = "unborn" /\ pipe[i + 1] = << >>
    BY <2>1, <2>2 DEF SieverInOrder
  <2>4. first_output[i + 1] /\ \A j \in i + 1 + 1 .. N : spc[j] = "unborn"
    BY <2>2, <2>3 DEF SieverInOrder, HasPrime
  <2>5. QED
    BY <1>1, <2>3, <2>4
<1>4. SieveTypeOK'
  <2>1. spc' \in [Sievers -> {"unborn", "first", "recv", "test", "output", "send",
                              "sendStop", "finalize"}]
    BY <1>1, <1>2 DEF SieveTypeOK, Keep, KeepThen
  <2>2. first_output' \in [Sievers -> BOOLEAN]
    BY <1>1 DEF Keep, KeepThen, SieveTypeOK
  <2>3. QED
    BY <1>1, <1>2, <2>1, <2>2 DEF SieveTypeOK
<1>5. \A k \in Sievers : /\ spc'[k] \in {"test", "output"} <=> spc[k] \in {"test", "output"}
                         /\ HasPrime(k)' <=> HasPrime(k)
                         /\ Ended(k)' <=> Ended(k)
  BY <1>2, <1>3 DEF HasPrime, Ended
<1>6. NothingMoves
  BY <1>2, <1>5 DEF NothingMoves, Queue, Held
<1>7. ASSUME NEW k \in Sievers PROVE SieverInOrder(k)'
  <2>1. SieverInOrder(k)
    BY <1>1 DEF Stages
  <2>2. /\ \A j \in k + 1 .. N : j \in Sievers
        /\ \A j \in 1 .. k - 1 : j \in Sievers
        /\ k # 1 => k - 1 \in Sievers
        /\ k = i + 1 <=> k - 1 = i
        /\ k = i + 1 => k # 1 /\ k # i
    BY <1>1 DEF Sievers
  <2>3. CASE k = i
    BY <1>2, <1>5, <2>1, <2>2, <2>3 DEF SieverInOrder, Divisible, HasPrime, Ended
  <2>4. CASE k = i + 1 /\ first_output[i]
    <3>1. spc'[k] = "first" /\ pipe'[k] = << >> /\ spc'[i] = "output" /\ first_output'[k]
          /\ ~first_output'[i] /\ ~HasPrime(k)' /\ ~Ended(k)'
      BY <1>2, <1>3, <2>2, <2>4 DEF HasPrime, Ended
    <3>2. \A j \in k + 1 .. N : spc'[j] = "unborn"
      <4>1. \A j \in k + 1 .. N : j \in Sievers /\ j > i /\ j # i /\ j # i + 1
        BY <1>1, <2>4 DEF Sievers
      <4>2. QED
        BY <1>2, <1>3, <2>4, <4>1
    <3>3. QED
      BY <2>2, <2>4, <3>1, <3>2 DEF SieverInOrder
  <2>5. CASE k # i /\ ~(k = i + 1 /\ first_output[i])
    <3>1. /\ spc'[k] = spc[k] /\ pipe'[k] = pipe[k] /\ first_output'[k] = first_output[k]
          /\ k = i + 1 => spc[k] # "unborn" /\ ~first_output'[i]
          /\ k # 1 /\ spc[k - 1] = "output" => spc'[k - 1] = "output"
          /\ k # 1 /\ k # i + 1 => first_output'[k - 1] = first_output[k - 1]
      <4>1. k = i + 1 => spc[k] # "unborn"
        BY <2>1, <2>2, <2>5 DEF SieverInOrder
      <4>2. k # 1 /\ spc[k - 1] = "output" => spc'[k - 1] = "output"
        <5>1. SUFFICES ASSUME k # 1, spc[k - 1] = "output" PROVE spc'[k - 1] = "output"
          OBVIOUS
        <5>2. ~(k - 1 = i + 1 /\ first_output[i])
          BY <1>3, <5>1
        <5>3. QED
          BY <1>2, <2>2, <5>1, <5>2
      <4>3. QED
        BY <1>2, <2>2, <2>5, <4>1, <4>2
    <3>2. ~HasPrime(k) => k > i /\ \A j \in k + 1 .. N : spc'[j] = "unborn"
      <4>1. SUFFICES ASSUME ~HasPrime(k) PROVE k > i /\ \A j \in k + 1 .. N : spc'[j] = "unborn"
        OBVIOUS
      <4>2. k > i
        <5>1. \A j \in 1 .. i - 1 : HasPrime(j)
          BY <1>2, StageFacts DEF SieveInv
        <5>2. QED
          BY <1>1, <2>5, <4>1, <5>1
      <4>3. \A j \in k + 1 .. N : spc[j] = "unborn" /\ j \in Sievers /\ j # i /\ j # i + 1
        BY <1>1, <2>1, <2>2, <4>1, <4>2 DEF SieverInOrder
      <4>4. QED
        BY <1>2, <4>2, <4>3
    <3>3. Divisible(k)' = Divisible(k) /\ tested'[k] = tested[k]
      BY <1>2 DEF Divisible
    <3>4. QED
      BY <1>2, <1>5, <2>1, <2>2, <2>5, <3>1, <3>2, <3>3 DEF SieverInOrder
  <2>6. QED
    BY <2>3, <2>4, <2>5
<1>8. Stages'
  BY <1>1, <1>2, <1>7 DEF Stages, GeneratorInOrder
<1>9. QED
  BY <1>2, <1>4, <1>5, <1>6, <1>8, Quietly DEF Upcoming

(* The number in front of a queue goes before all others at its stage and  *)
(* at the stages before.                                                   *)
LEMMA Front ==
  ASSUME SieveInv, NEW i \in Sievers, Queue(i) # << >>
  PROVE  /\ Head(Queue(i)) \in Int /\ Sorted(Tail(Queue(i)))
         /\ Waiting(i) = {Head(Queue(i))} \cup Elements(Tail(Queue(i)))
         /\ \A y \in Elements(Tail(Queue(i))) : Before(Head(Queue(i)), y)
         /\ \A j \in 1 .. i - 1 : \A y \in Waiting(j) : Before(Head(Queue(i)), y)
<1>1. Sorted(Queue(i)) /\ Queue(i) \in Seq(Int)
  BY StageFacts, QueueTypes DEF SieveInv, SortedAndSifted
<1>2. /\ Head(Queue(i)) \in Int /\ Sorted(Tail(Queue(i)))
      /\ Elements(Queue(i)) = {Head(Queue(i))} \cup Elements(Tail(Queue(i)))
      /\ \A y \in Elements(Tail(Queue(i))) : Before(Head(Queue(i)), y)
  BY <1>1, TakeFirst
<1>3. Waiting(i) = Elements(Queue(i))
  BY WaitingNow
<1>4. Head(Queue(i)) \in Waiting(i)
  BY <1>2, <1>3
<1>5. \A j \in 1 .. i - 1 : \A y \in Waiting(j) : Before(Head(Queue(i)), y)
  BY <1>4, StageFacts DEF SieveInv, SortedAndSifted
<1>6. QED
  BY <1>2, <1>3, <1>5

(* A stage drops a number that its prime divides, or Stop.                 *)
LEMMA Dropped ==
  ASSUME SieveInv, SieveTypeOK', Stages', UNCHANGED <<prime, primes>>,
         Upcoming' = Upcoming, candidate = Stop => candidate' = Stop,
         \A k \in Sievers : (HasPrime(k)' <=> HasPrime(k)) /\ (Ended(k) => Ended(k)'),
         NEW i \in Sievers, Leaves(i), Queue(i) # << >>, HasPrime(i),
         Head(Queue(i)) = Stop \/ Head(Queue(i)) % prime[i] = 0
  PROVE  SieveInv'
<1>1. PipelineInv /\ NoCandidateLost /\ Upcoming \in Int /\ 1 \in Sievers /\ SortedAndSifted
  BY StageFacts, SieveAssumption DEF SieveInv, Sievers
<1>2. /\ \A k \in Sievers \ {i} : Queue(k)' = Queue(k)
      /\ Queue(i)' = Tail(Queue(i))
  BY DEF Leaves
<1>3. /\ \A k \in Sievers \ {i} : Waiting(k)' = Waiting(k)
      /\ Waiting(i)' = Elements(Tail(Queue(i)))
  BY <1>2 DEF Waiting, Elements
<1>4. Waiting(i) = {Head(Queue(i))} \cup Waiting(i)' /\ Sorted(Tail(Queue(i)))
  BY <1>3, Front
<1>5. SortedAndSifted'
  <2>1. \A k \in Sievers : Sorted(Queue(k))'
    BY <1>1, <1>2, <1>4 DEF SortedAndSifted, Sorted
  <2>2. {} \in SUBSET Int /\ Upcoming <= Upcoming'
        /\ \A k \in Sievers : Waiting(k)' \subseteq Waiting(k) \cup (IF k = 1 THEN {} ELSE {})
    BY <1>1, <1>3, <1>4, Ranges
  <2>3. QED
    BY <1>1, <2>1, <2>2, StillSorted
<1>6. PrimesPrinted'
  BY <1>1, Ranges, StillPrinted
<1>7. NoCandidateLost'
  <2>1. \A n \in Upcoming .. Upcoming' - 1 : \E j \in Sievers : n \in Waiting(j)'
    BY <1>1, Ranges
  <2>2. ASSUME NEW k \in Sievers, NEW x \in Waiting(k) \ {Stop}
        PROVE  \E j \in Sievers : x \in Waiting(j)' \/ (HasPrime(j)' /\ x % prime[j] = 0)
    BY <1>3, <1>4
  <2>3. QED
    BY <1>1, <2>1, <2>2, StillAccounted
<1>8. QED
  BY <1>5, <1>6, <1>7 DEF SieveInv, PipelineInv

(* A stage passes on a number that its prime does not divide, or Stop.     *)
LEMMA Passed ==
  ASSUME SieveInv, SieveTypeOK', Stages', UNCHANGED <<prime, primes>>,
         Upcoming' = Upcoming, candidate = Stop => candidate' = Stop,
         \A k \in Sievers : (HasPrime(k)' <=> HasPrime(k)) /\ (Ended(k) => Ended(k)'),
         NEW i \in Sievers, GoesOn(i, Head(Queue(i))), Queue(i) # << >>, HasPrime(i),
         IF Head(Queue(i)) = Stop THEN Ended(i)' ELSE Head(Queue(i)) % prime[i] # 0
  PROVE  SieveInv'
<1> DEFINE m == i + 1
<1>1. /\ PipelineInv /\ NoCandidateLost /\ Upcoming \in Int /\ SortedAndSifted
      /\ i \in Int /\ m \in Sievers /\ m # i /\ N \in Nat
  BY StageFacts DEF SieveInv
<1>2. PICK x \in Int : x = Head(Queue(i))
  BY Front
<1>3. /\ \A k \in Sievers \ {i, m} : Queue(k)' = Queue(k)
      /\ Queue(i)' = Tail(Queue(i)) /\ Queue(m)' = Append(Queue(m), x)
  BY <1>1, <1>2 DEF GoesOn
<1>4. x \in Waiting(i)
  BY <1>2, Front
<1>5. \A k \in Sievers : k > i => \A y \in Waiting(k) : Before(y, x)
  <2>1. SUFFICES ASSUME NEW k \in Sievers, k > i, NEW y \in Waiting(k) PROVE Before(y, x)
    OBVIOUS
  <2>2. i \in 1 .. k - 1
    BY <1>1, <2>1 DEF Sievers
  <2>3. QED
    BY <1>1, <1>4, <2>2 DEF SortedAndSifted
<1>6. /\ Append(Queue(m), x) \in Seq(Int) /\ Sorted(Append(Queue(m), x))
      /\ Elements(Append(Queue(m), x)) = Elements(Queue(m)) \cup {x}
  <2>1. Queue(m) \in Seq(Int) /\ Sorted(Queue(m)) /\ Waiting(m) = Elements(Queue(m))
    BY <1>1, StageFacts, QueueTypes, WaitingNow DEF SortedAndSifted
  <2>2. m > i
    BY <1>1
  <2>3. \A y \in Elements(Queue(m)) : Before(y, x)
    BY <1>1, <1>5, <2>1, <2>2
  <2>4. QED
    BY <1>2, <2>1, <2>3, AddLast
<1>7. /\ \A k \in Sievers \ {i, m} : Waiting(k)' = Waiting(k)
      /\ Waiting(i)' = Elements(Tail(Queue(i))) /\ Waiting(m)' = Waiting(m) \cup {x}
  <2>1. \A k \in Sievers \ {i, m} : Waiting(k)' = Waiting(k)
    BY <1>3 DEF Waiting
  <2>2. Waiting(i)' = Elements(Tail(Queue(i)))
    BY <1>3 DEF Waiting, Elements
  <2>3. Waiting(m)' = Elements(Append(Queue(m), x)) /\ Waiting(m) = Elements(Queue(m))
    BY <1>3 DEF Waiting, Elements
  <2>4. QED
    BY <1>6, <2>1, <2>2, <2>3
<1>8. /\ Waiting(i) = {x} \cup Waiting(i)' /\ Sorted(Tail(Queue(i)))
      /\ \A y \in Waiting(i)' : Before(x, y)
      /\ \A j \in 1 .. i - 1 : \A y \in Waiting(j) : Before(x, y)
  BY <1>2, <1>7, Front
<1>9. MayJoin(m, x)
  <2>1. ASSUME x # Stop
        PROVE  /\ x \in 2 .. Upcoming' - 1
               /\ \A j \in Sievers : HasPrime(j) => x > prime[j] /\ (j < m => x % prime[j] # 0)
    <3>1. /\ x \in 2 .. Upcoming - 1
          /\ \A j \in Sievers : HasPrime(j) => x > prime[j] /\ (j < i => x % prime[j] # 0)
      BY <1>1, <1>4, <2>1 DEF SortedAndSifted
    <3>2. x % prime[i] # 0
      BY <1>2, <2>1
    <3>3. \A j \in Sievers : j < m => j < i \/ j = i
      BY <1>1 DEF Sievers
    <3>4. QED
      BY <3>1, <3>2, <3>3
  <2>2. ASSUME x = Stop PROVE candidate' = Stop /\ \A j \in 1 .. m - 1 : Ended(j)'
    <3>1. candidate = Stop /\ \A j \in 1 .. i - 1 : Ended(j)
      BY <1>1, <1>4, <2>2 DEF SortedAndSifted
    <3>2. Ended(i)'
      BY <1>2, <2>2
    <3>3. \A j \in 1 .. m - 1 : j \in Sievers /\ (j \in 1 .. i - 1 \/ j = i)
      BY <1>1 DEF Sievers
    <3>4. QED
      BY <3>1, <3>2, <3>3
  <2>3. ASSUME NEW j \in 1 .. m - 1, NEW y \in Waiting(j)' PROVE Before(x, y)
    <3>1. j = i \/ (j \in 1 .. i - 1 /\ j \in Sievers \ {i, m})
      BY <1>1 DEF Sievers
    <3>2. QED
      BY <1>7, <1>8, <2>3, <3>1
  <2>4. ASSUME NEW k \in Sievers, k > m, NEW y \in Waiting(k)' PROVE Before(y, x)
    <3>1. k \in Sievers \ {i, m} /\ k > i
      BY <1>1, <2>4 DEF Sievers
    <3>2. QED
      BY <1>5, <1>7, <2>4, <3>1
  <2>5. QED
    BY <2>1, <2>2, <2>3, <2>4 DEF MayJoin
<1> HIDE DEF m
<1>10. SortedAndSifted'
  <2>1. \A k \in Sievers : Sorted(Queue(k))'
    BY <1>1, <1>3, <1>6, <1>8 DEF SortedAndSifted, Sorted
  <2>2. {x} \in SUBSET Int /\ Upcoming <= Upcoming'
        /\ \A k \in Sievers : Waiting(k)' \subseteq Waiting(k) \cup (IF k = m THEN {x} ELSE {})
    BY <1>1, <1>2, <1>7, <1>8, Ranges
  <2>3. QED
    BY <1>1, <1>9, <2>1, <2>2, StillSorted
<1>11. PrimesPrinted'
  BY <1>1, Ranges, StillPrinted
<1>12. NoCandidateLost'
  <2>1. \A n \in Upcoming .. Upcoming' - 1 : \E j \in Sievers : n \in Waiting(j)'
    BY <1>1, Ranges
  <2>2. ASSUME NEW k \in Sievers, NEW y \in Waiting(k) \ {Stop}
        PROVE  \E j \in Sievers : y \in Waiting(j)'
    BY <1>1, <1>7, <1>8
  <2>3. QED
    BY <1>1, <2>1, <2>2, StillAccounted
<1>13. QED
  BY <1>10, <1>11, <1>12 DEF SieveInv, PipelineInv

(* A stage with a candidate to look at holds it in front of its queue.     *)
LEMMA HeldFirst ==
  ASSUME SieveInv, NEW i \in Sievers, spc[i] \in {"test", "output"}
  PROVE  /\ Queue(i) = <<tested[i]>> \o pipe[i] /\ Queue(i) # << >>
         /\ Head(Queue(i)) = tested[i] /\ Tail(Queue(i)) = pipe[i]
         /\ tested[i] \in Int /\ pipe[i] \in Seq(Int) /\ HasPrime(i) /\ tested[i] \in Waiting(i)
<1>1. tested[i] \in Int /\ pipe[i] \in Seq(Int)
  BY StageFacts, QueueTypes DEF SieveInv
<1>2. Queue(i) = <<tested[i]>> \o pipe[i] /\ HasPrime(i)
  BY DEF Queue, Held, HasPrime
<1>3. Queue(i) # << >> /\ Head(Queue(i)) = tested[i] /\ Tail(Queue(i)) = pipe[i]
  <2>1. PICK t \in Int, c \in Seq(Int) : t = tested[i] /\ c = pipe[i]
    BY <1>1
  <2>2. <<t>> \o c # << >> /\ Head(<<t>> \o c) = t /\ Tail(<<t>> \o c) = c
    BY InFront
  <2>3. QED
    BY <1>2, <2>1, <2>2
<1>4. QED
  BY <1>1, <1>2, <1>3, Front

LEMMA DropStep == ASSUME SieveInv, NEW i \in Sievers, Drop(i) PROVE SieveInv'
<1>1. /\ SieveTypeOK /\ Stages /\ N \in Nat
      /\ \A k \in Sievers : k \in 1 .. N
  BY StageFacts DEF SieveInv
<1>2. /\ spc[i] = "test" /\ spc'[i] = "recv" /\ tested[i] % prime[i] = 0
      /\ \A k \in Sievers \ {i} : spc'[k] = spc[k]
      /\ UNCHANGED <<gpc, candidate, prime, tested, first_output, pipe, primes>>
  BY <1>1 DEF Drop, Divisible, SieveTypeOK, gvars
<1>3. SieveTypeOK'
  BY <1>1, <1>2 DEF SieveTypeOK, Drop
<1>4. \A k \in Sievers : /\ spc'[k] = "unborn" <=> spc[k] = "unborn"
                         /\ spc'[k] = "first" <=> spc[k] = "first"
                         /\ spc'[k] = "output" <=> spc[k] = "output"
                         /\ HasPrime(k)' <=> HasPrime(k)
                         /\ Ended(k)' <=> Ended(k)
  BY <1>2 DEF HasPrime, Ended
<1>5. ASSUME NEW k \in Sievers PROVE SieverInOrder(k)'
  <2>1. SieverInOrder(k)
    BY <1>1 DEF Stages
  <2>2. (\A j \in k + 1 .. N : j \in Sievers) /\ (\A j \in 1 .. k - 1 : j \in Sievers)
        /\ (k # 1 => k - 1 \in Sievers)
    BY <1>1 DEF Sievers
  <2>3. QED
    BY <1>2, <1>4, <2>1, <2>2 DEF SieverInOrder, Divisible
<1>6. Stages'
  BY <1>1, <1>2, <1>5 DEF Stages, GeneratorInOrder
<1>7. Leaves(i)
  <2>1. << >> \o pipe[i] = pipe[i] /\ Tail(Queue(i)) = pipe[i]
    BY <1>2, HeldFirst, InFront
  <2>2. Queue(i)' = Tail(Queue(i))
    BY <1>2, <2>1 DEF Queue, Held
  <2>3. \A k \in Sievers \ {i} : Queue(k)' = Queue(k)
    BY <1>2 DEF Queue, Held
  <2>4. QED
    BY <2>2, <2>3 DEF Leaves
<1>8. Queue(i) # << >> /\ HasPrime(i) /\ Head(Queue(i)) % prime[i] = 0
  BY <1>2, HeldFirst
<1>9. QED
  BY <1>2, <1>3, <1>4, <1>6, <1>7, <1>8, Dropped DEF Upcoming

(* When Stop is looked at, nothing else is left at this stage, all stages  *)
(* before have ended and a successor has its prime or the candidate for it.*)
LEMMA AtStop ==
  ASSUME SieveInv, NEW i \in Sievers, spc[i] = "test", tested[i] = Stop
  PROVE  /\ candidate = Stop /\ pipe[i] = << >>
         /\ \A j \in 1 .. i - 1 : Ended(j)
         /\ i + 1 \in Sievers
         /\ spc[i + 1] = "unborn" <=> first_output[i]
         /\ spc[i + 1] = "first" => pipe[i + 1] # << >>
<1>1. SortedAndSifted /\ Stages /\ HasPrime(i) /\ i + 1 \in Sievers /\ i \in Int
  <2>1. HasPrime(i)
    BY DEF HasPrime
  <2>2. QED
    BY <2>1, StageFacts DEF SieveInv
<1>2. Stop \in Waiting(i)
  BY HeldFirst
<1>3. candidate = Stop /\ \A j \in 1 .. i - 1 : Ended(j)
  BY <1>1, <1>2 DEF SortedAndSifted
<1>4. pipe[i] = << >>
  <2>1. \A y \in Elements(pipe[i]) : Before(Stop, y)
    BY HeldFirst, Front
  <2>2. Elements(pipe[i]) = {}
    BY <2>1 DEF Before
  <2>3. pipe[i] \in Seq(Int) /\ Len(pipe[i]) \in Nat /\ DOMAIN pipe[i] = 1 .. Len(pipe[i])
    BY HeldFirst, LenProperties
  <2>4. DOMAIN pipe[i] = {}
    BY <2>2 DEF Elements
  <2>5. Len(pipe[i]) = 0
    <3>1. 1 \notin 1 .. Len(pipe[i])
      BY <2>3, <2>4
    <3>2. QED
      BY <2>3, <3>1
  <2>6. QED
    BY <2>3, <2>5, EmptySeq
<1>5. SieverInOrder(i + 1) /\ i + 1 # 1 /\ (i + 1) - 1 = i
  BY <1>1 DEF Stages, Sievers
<1>6. QED
  BY <1>1, <1>3, <1>4, <1>5 DEF SieverInOrder

LEMMA LastSieverEndsStep ==
  ASSUME SieveInv, NEW i \in Sievers, LastSieverEnds(i) PROVE SieveInv'
<1>1. /\ SieveTypeOK /\ Stages /\ N \in Nat
      /\ \A k \in Sievers : k \in 1 .. N
  BY StageFacts DEF SieveInv
<1>2. /\ spc[i] = "test" /\ spc'[i] = "finalize" /\ tested[i] = Stop /\ first_output[i]
      /\ \A k \in Sievers \ {i} : spc'[k] = spc[k]
      /\ UNCHANGED <<gpc, candidate, prime, tested, first_output, pipe, primes>>
  BY <1>1 DEF LastSieverEnds, Stopping, SieveTypeOK, gvars
<1>3. SieveTypeOK'
  BY <1>1, <1>2 DEF SieveTypeOK, LastSieverEnds, Stopping
<1>4. \A k \in Sievers : /\ spc'[k] = "unborn" <=> spc[k] = "unborn"
                         /\ spc'[k] = "first" <=> spc[k] = "first"
                         /\ spc'[k] = "output" <=> spc[k] = "output"
                         /\ HasPrime(k)' <=> HasPrime(k)
                         /\ Ended(k)' <=> Ended(k) \/ k = i
  BY <1>2 DEF HasPrime, Ended
<1>5. ASSUME NEW k \in Sievers PROVE SieverInOrder(k)'
  <2>1. SieverInOrder(k)
    BY <1>1 DEF Stages
  <2>2. (\A j \in k + 1 .. N : j \in Sievers) /\ (\A j \in 1 .. k - 1 : j \in Sievers)
        /\ (k # 1 => k - 1 \in Sievers)
    BY <1>1 DEF Sievers
  <2>3. CASE k = i
    BY <1>2, <1>4, <2>1, <2>2, <2>3, AtStop DEF SieverInOrder, Divisible
  <2>4. CASE k # i
    BY <1>2, <1>4, <2>1, <2>2, <2>4 DEF SieverInOrder, Divisible
  <2>5. QED
    BY <2>3, <2>4
<1>6. Stages'
  BY <1>1, <1>2, <1>5 DEF Stages, GeneratorInOrder
<1>7. Leaves(i)
  <2>1. << >> \o pipe[i] = pipe[i] /\ Tail(Queue(i)) = pipe[i]
    BY <1>2, HeldFirst, InFront
  <2>2. Queue(i)' = Tail(Queue(i))
    BY <1>2, <2>1 DEF Queue, Held
  <2>3. \A k \in Sievers \ {i} : Queue(k)' = Queue(k)
    BY <1>2 DEF Queue, Held
  <2>4. QED
    BY <2>2, <2>3 DEF Leaves
<1>8. Queue(i) # << >> /\ HasPrime(i) /\ Head(Queue(i)) = Stop
  BY <1>2, HeldFirst
<1>9. QED
  BY <1>2, <1>3, <1>4, <1>6, <1>7, <1>8, Dropped DEF Upcoming

(* What a siever receives next does not change when a number is appended. *)
LEMMA FrontAfterAppend ==
  ASSUME NEW q \in Seq(Int), NEW x \in Int
  PROVE  /\ Append(q, x) # << >>
         /\ Head(Append(q, x)) = IF q = << >> THEN x ELSE Head(q)
<1>1. /\ Append(q, x) \in Seq(Int) /\ Len(Append(q, x)) = Len(q) + 1
      /\ Append(q, x)[Len(q) + 1] = x
      /\ \A k \in 1 .. Len(q) : Append(q, x)[k] = q[k]
  BY AppendProperties
<1>2. Len(q) \in Nat /\ (q = << >> <=> Len(q) = 0)
  BY EmptySeq, LenProperties
<1>3. Append(q, x) # << >>
  BY <1>1, <1>2, EmptySeq
<1>4. Head(Append(q, x)) = Append(q, x)[1]
  BY <1>1, <1>3, HeadTailProperties
<1>5. CASE q = << >>
  BY <1>1, <1>2, <1>3, <1>4, <1>5
<1>6. CASE q # << >>
  <2>1. Head(q) = q[1] /\ 1 \in 1 .. Len(q)
    BY <1>2, <1>6, HeadTailProperties
  <2>2. QED
    BY <1>1, <1>3, <1>4, <1>6, <2>1
<1>7. QED
  BY <1>5, <1>6

LEMMA PassOnStep == ASSUME SieveInv, NEW i \in Sievers, PassOn(i) PROVE SieveInv'
<1>1. /\ SieveTypeOK /\ Stages /\ SortedAndSifted /\ N \in Nat /\ Stop = -1
      /\ Upcoming \in Int /\ Upcoming <= N
      /\ \A k \in Sievers : k \in 1 .. N
  BY StageFacts DEF SieveInv
<1>2. /\ spc[i] = "output" /\ spc'[i] = "send" /\ i + 1 \in Sievers /\ i + 1 # i
      /\ HasPrime(i) /\ ~Ended(i)
      /\ \A k \in Sievers \ {i} : spc'[k] = spc[k]
      /\ \A k \in Sievers : pipe'[k] = IF k = i + 1 THEN Append(pipe[k], tested[i]) ELSE pipe[k]
      /\ UNCHANGED <<gpc, candidate, prime, tested, first_output, primes>>
  <2>1. spc[i] = "output" /\ HasPrime(i) /\ ~Ended(i)
    BY DEF PassOn, HasPrime, Ended
  <2>2. i + 1 \in Sievers /\ i + 1 # i
    BY <1>1, <2>1, StageFacts DEF SieveInv
  <2>3. QED
    BY <1>1, <2>1, <2>2 DEF PassOn, Put, SieveTypeOK, gvars
<1>3. tested[i] # Stop /\ tested[i] % prime[i] # 0 /\ ~first_output[i]
  BY <1>1, <1>2 DEF Stages, SieverInOrder, Divisible
<1>4. /\ tested[i] \in 2 .. N - 1 /\ Queue(i) # << >> /\ Head(Queue(i)) = tested[i]
      /\ Tail(Queue(i)) = pipe[i] /\ pipe[i] \in Seq(Int)
  <2>1. /\ tested[i] \in Waiting(i) /\ Queue(i) # << >> /\ Head(Queue(i)) = tested[i]
        /\ Tail(Queue(i)) = pipe[i] /\ pipe[i] \in Seq(Int)
    BY <1>2, HeldFirst
  <2>2. tested[i] \in 2 .. Upcoming - 1
    BY <1>1, <1>3, <2>1 DEF SortedAndSifted
  <2>3. 2 .. Upcoming - 1 \subseteq 2 .. N - 1
    BY <1>1, Ranges
  <2>4. QED
    BY <2>1, <2>2, <2>3
<1>5. SieveTypeOK'
  <2>1. \A k \in Sievers : pipe'[k] \in Seq(2 .. N - 1 \cup {Stop})
    <3>1. SUFFICES ASSUME NEW k \in Sievers PROVE pipe'[k] \in Seq(2 .. N - 1 \cup {Stop})
      OBVIOUS
    <3>2. pipe[k] \in Seq(2 .. N - 1 \cup {Stop}) /\ tested[i] \in 2 .. N - 1 \cup {Stop}
      BY <1>1, <1>4 DEF SieveTypeOK
    <3>3. Append(pipe[k], tested[i]) \in Seq(2 .. N - 1 \cup {Stop})
      BY <3>2, AppendProperties
    <3>4. QED
      BY <1>2, <3>2, <3>3
  <2>2. pipe' \in [Sievers -> Seq(2 .. N - 1 \cup {Stop})]
    BY <1>1, <2>1 DEF SieveTypeOK, PassOn, Put
  <2>3. spc' \in [Sievers -> {"unborn", "first", "recv", "test", "output", "send",
                              "sendStop", "finalize"}]
    BY <1>1, <1>2 DEF SieveTypeOK, PassOn
  <2>4. QED
    BY <1>1, <1>2, <2>2, <2>3 DEF SieveTypeOK
<1>6. \A k \in Sievers : /\ spc'[k] = "unborn" <=> spc[k] = "unborn"
                         /\ spc'[k] = "first" <=> spc[k] = "first"
                         /\ spc'[k] = "test" <=> spc[k] = "test"
                         /\ spc'[k] = "output" => spc[k] = "output"
                         /\ HasPrime(k)' <=> HasPrime(k)
                         /\ Ended(k)' <=> Ended(k)
  BY <1>2 DEF HasPrime, Ended
<1>7. ASSUME NEW k \in Sievers PROVE SieverInOrder(k)'
  <2>1. SieverInOrder(k)
    BY <1>1 DEF Stages
  <2>2. (\A j \in k + 1 .. N : j \in Sievers) /\ (\A j \in 1 .. k - 1 : j \in Sievers)
        /\ (k # 1 => k - 1 \in Sievers) /\ (k = i + 1 <=> k - 1 = i)
    BY <1>1 DEF Sievers
  <2>3. CASE k # i + 1
    <3>1. pipe'[k] = pipe[k] /\ (k # 1 /\ spc[k - 1] = "output" => spc'[k - 1] = "output")
      BY <1>2, <2>2, <2>3
    <3>2. QED
      BY <1>2, <1>6, <2>1, <2>2, <3>1 DEF SieverInOrder, Divisible
  <2>4. CASE k = i + 1
    <3>1. k # 1 /\ k - 1 = i /\ i \in 1 .. k - 1
      BY <1>1, <2>4
    <3>2. /\ pipe'[k] = Append(pipe[k], tested[i]) /\ pipe[k] \in Seq(Int) /\ tested[i] \in Int
      BY <1>1, <1>2, <2>4, QueueTypes
    <3>3. pipe'[k] # << >> /\ Head(pipe'[k]) = IF pipe[k] = << >> THEN tested[i] ELSE Head(pipe[k])
      BY <3>2, FrontAfterAppend
    <3>4. spc[k] # "unborn" /\ ~Ended(k)
      BY <1>2, <1>3, <2>1, <3>1 DEF SieverInOrder
    <3>5. QED
      BY <1>2, <1>3, <1>6, <2>1, <2>2, <3>1, <3>3, <3>4 DEF SieverInOrder, Divisible
  <2>5. QED
    BY <2>3, <2>4
<1>8. Stages'
  BY <1>1, <1>2, <1>7 DEF Stages, GeneratorInOrder
<1>9. GoesOn(i, Head(Queue(i)))
  <2>1. Queue(i)' = Tail(Queue(i))
    <3>1. << >> \o pipe[i] = pipe[i]
      BY <1>4, InFront
    <3>2. pipe'[i] = pipe[i]
      BY <1>2
    <3>3. QED
      BY <1>2, <1>4, <3>1, <3>2 DEF Queue, Held
  <2>2. Queue(i + 1)' = Append(Queue(i + 1), tested[i])
    <3>1. /\ pipe'[i + 1] = Append(pipe[i + 1], tested[i])
          /\ spc'[i + 1] = spc[i + 1] /\ tested'[i + 1] = tested[i + 1]
      BY <1>2
    <3>2. /\ pipe[i + 1] \in Seq(Int) /\ tested[i] \in Int /\ tested[i + 1] \in Int
          /\ Append(pipe[i + 1], tested[i]) \in Seq(Int)
      BY <1>1, <1>2, QueueTypes, AppendProperties
    <3>3. /\ Append(<<tested[i + 1]>> \o pipe[i + 1], tested[i])
               = <<tested[i + 1]>> \o Append(pipe[i + 1], tested[i])
          /\ << >> \o pipe[i + 1] = pipe[i + 1]
          /\ << >> \o Append(pipe[i + 1], tested[i]) = Append(pipe[i + 1], tested[i])
      BY <3>2, InFront
    <3>4. QED
      BY <3>1, <3>3 DEF Queue, Held
  <2>3. \A k \in Sievers \ {i, i + 1} : Queue(k)' = Queue(k)
    <3>1. ASSUME NEW k \in Sievers \ {i, i + 1} PROVE Queue(k)' = Queue(k)
      <4>1. spc'[k] = spc[k] /\ tested'[k] = tested[k] /\ pipe'[k] = pipe[k]
        BY <1>2
      <4>2. QED
        BY <4>1 DEF Queue, Held
    <3>2. QED
      BY <3>1
  <2>4. QED
    BY <1>2, <1>4, <2>1, <2>2, <2>3 DEF GoesOn
<1>10. QED
  BY <1>2, <1>3, <1>4, <1>5, <1>6, <1>8, <1>9, Passed DEF Upcoming

LEMMA PassStopStep == ASSUME SieveInv, NEW i \in Sievers, PassStop(i) PROVE SieveInv'
<1>1. /\ SieveTypeOK /\ Stages /\ N \in Nat /\ Stop = -1
      /\ \A k \in Sievers : k \in 1 .. N
  BY StageFacts DEF SieveInv
<1>2. /\ spc[i] = "test" /\ spc'[i] = "sendStop" /\ tested[i] = Stop /\ ~first_output[i]
      /\ HasPrime(i) /\ ~Ended(i) /\ i + 1 \in Sievers /\ i + 1 # i
      /\ \A k \in Sievers \ {i} : spc'[k] = spc[k]
      /\ \A k \in Sievers : pipe'[k] = IF k = i + 1 THEN Append(pipe[k], Stop) ELSE pipe[k]
      /\ UNCHANGED <<gpc, candidate, prime, tested, first_output, primes>>
  <2>1. spc[i] = "test" /\ HasPrime(i) /\ ~Ended(i)
    BY DEF PassStop, Stopping, HasPrime, Ended
  <2>2. i + 1 \in Sievers /\ i + 1 # i
    BY <1>1, <2>1, StageFacts DEF SieveInv
  <2>3. QED
    BY <1>1, <2>1, <2>2 DEF PassStop, Stopping, Put, SieveTypeOK, gvars
<1>3. /\ candidate = Stop /\ pipe[i] = << >> /\ \A j \in 1 .. i - 1 : Ended(j)
      /\ spc[i + 1] # "unborn" /\ (spc[i + 1] = "first" => pipe[i + 1] # << >>)
  BY <1>2, AtStop
<1>4. /\ Queue(i) # << >> /\ Head(Queue(i)) = tested[i]
      /\ Tail(Queue(i)) = pipe[i] /\ pipe[i] \in Seq(Int)
  BY <1>2, HeldFirst
<1>5. SieveTypeOK'
  <2>1. \A k \in Sievers : pipe'[k] \in Seq(2 .. N - 1 \cup {Stop})
    <3>1. SUFFICES ASSUME NEW k \in Sievers PROVE pipe'[k] \in Seq(2 .. N - 1 \cup {Stop})
      OBVIOUS
    <3>2. pipe[k] \in Seq(2 .. N - 1 \cup {Stop})
      BY <1>1 DEF SieveTypeOK
    <3>3. Append(pipe[k], Stop) \in Seq(2 .. N - 1 \cup {Stop})
      BY <3>2, AppendProperties
    <3>4. QED
      BY <1>2, <3>2, <3>3
  <2>2. pipe' \in [Sievers -> Seq(2 .. N - 1 \cup {Stop})]
    BY <1>1, <2>1 DEF SieveTypeOK, PassStop, Put
  <2>3. spc' \in [Sievers -> {"unborn", "first", "recv", "test", "output", "send",
                              "sendStop", "finalize"}]
    BY <1>1, <1>2 DEF SieveTypeOK, PassStop, Stopping
  <2>4. QED
    BY <1>1, <1>2, <2>2, <2>3 DEF SieveTypeOK
<1>6. \A k \in Sievers : /\ spc'[k] = "unborn" <=> spc[k] = "unborn"
                         /\ spc'[k] = "first" <=> spc[k] = "first"
                         /\ spc'[k] = "output" <=> spc[k] = "output"
                         /\ HasPrime(k)' <=> HasPrime(k)
                         /\ Ended(k)' <=> Ended(k) \/ k = i
  BY <1>2 DEF HasPrime, Ended
<1>7. ASSUME NEW k \in Sievers PROVE SieverInOrder(k)'
  <2>1. SieverInOrder(k)
    BY <1>1 DEF Stages
  <2>2. (\A j \in k + 1 .. N : j \in Sievers) /\ (\A j \in 1 .. k - 1 : j \in Sievers)
        /\ (k # 1 => k - 1 \in Sievers) /\ (k = i + 1 <=> k - 1 = i)
    BY <1>1 DEF Sievers
  <2>3. CASE k # i /\ k # i + 1
    <3>1. pipe'[k] = pipe[k] /\ spc'[k] = spc[k]
      BY <1>2, <2>2, <2>3
    <3>2. QED
      BY <1>2, <1>6, <2>1, <2>2, <2>3, <3>1 DEF SieverInOrder, Divisible
  <2>4. CASE k = i
    <3>1. pipe'[k] = pipe[k] /\ spc'[k] = "sendStop"
      BY <1>2, <2>4
    <3>2. QED
      BY <1>2, <1>3, <1>6, <2>1, <2>2, <2>4, <3>1 DEF SieverInOrder, Divisible, HasPrime
  <2>5. CASE k = i + 1
    <3>1. k # 1 /\ k # i /\ k - 1 = i /\ i \in 1 .. k - 1
      BY <1>1, <2>5
    <3>2. pipe'[k] = Append(pipe[k], Stop) /\ pipe[k] \in Seq(Int)
      BY <1>1, <1>2, <2>5, QueueTypes
    <3>3. pipe'[k] # << >> /\ (pipe[k] # << >> => Head(pipe'[k]) = Head(pipe[k]))
      <4>1. Stop \in Int
        BY <1>1
      <4>2. /\ Append(pipe[k], Stop) # << >>
            /\ Head(Append(pipe[k], Stop)) = IF pipe[k] = << >> THEN Stop ELSE Head(pipe[k])
        BY <3>2, <4>1, FrontAfterAppend
      <4>3. QED
        BY <3>2, <4>2
    <3>4. spc[k] # "unborn" /\ ~Ended(k) /\ (spc[k] = "first" => pipe[k] # << >>)
      BY <1>2, <1>3, <2>1, <2>5, <3>1 DEF SieverInOrder
    <3>5. QED
      BY <1>2, <1>6, <2>1, <2>2, <3>1, <3>3, <3>4 DEF SieverInOrder, Divisible
  <2>6. QED
    BY <2>3, <2>4, <2>5
<1>8. Stages'
  BY <1>1, <1>2, <1>7 DEF Stages, GeneratorInOrder
<1>9. GoesOn(i, Head(Queue(i)))
  <2>1. Queue(i)' = Tail(Queue(i))
    <3>1. << >> \o pipe[i] = pipe[i]
      BY <1>4, InFront
    <3>2. pipe'[i] = pipe[i]
      BY <1>2
    <3>3. QED
      BY <1>2, <1>4, <3>1, <3>2 DEF Queue, Held
  <2>2. Queue(i + 1)' = Append(Queue(i + 1), Stop)
    <3>1. /\ pipe'[i + 1] = Append(pipe[i + 1], Stop)
          /\ spc'[i + 1] = spc[i + 1] /\ tested'[i + 1] = tested[i + 1]
      BY <1>2
    <3>2. /\ pipe[i + 1] \in Seq(Int) /\ Stop \in Int /\ tested[i + 1] \in Int
          /\ Append(pipe[i + 1], Stop) \in Seq(Int)
      BY <1>1, <1>2, QueueTypes, AppendProperties
    <3>3. /\ Append(<<tested[i + 1]>> \o pipe[i + 1], Stop)
               = <<tested[i + 1]>> \o Append(pipe[i + 1], Stop)
          /\ << >> \o pipe[i + 1] = pipe[i + 1]
          /\ << >> \o Append(pipe[i + 1], Stop) = Append(pipe[i + 1], Stop)
      BY <3>2, InFront
    <3>4. QED
      BY <3>1, <3>3 DEF Queue, Held
  <2>3. \A k \in Sievers \ {i, i + 1} : Queue(k)' = Queue(k)
    <3>1. ASSUME NEW k \in Sievers \ {i, i + 1} PROVE Queue(k)' = Queue(k)
      <4>1. spc'[k] = spc[k] /\ tested'[k] = tested[k] /\ pipe'[k] = pipe[k]
        BY <1>2
      <4>2. QED
        BY <4>1 DEF Queue, Held
    <3>2. QED
      BY <3>1
  <2>4. QED
    BY <1>2, <1>4, <2>1, <2>2, <2>3 DEF GoesOn
<1>10. Ended(i)' /\ Head(Queue(i)) = Stop
  BY <1>2, <1>4, <1>6
<1>11. QED
  BY <1>2, <1>4, <1>5, <1>6, <1>8, <1>9, <1>10, Passed DEF Upcoming

(* The generator adds a number to the first queue.                         *)
LEMMA Added ==
  ASSUME SieveInv, SieveTypeOK', Stages', UNCHANGED <<prime, primes>>,
         Upcoming <= Upcoming', candidate # Stop,
         \A k \in Sievers : (HasPrime(k)' <=> HasPrime(k)) /\ (Ended(k) => Ended(k)'),
         NEW x \in Int, Arrives(1, x),
         IF x = Stop THEN candidate' = Stop /\ Upcoming' = Upcoming
         ELSE x = Upcoming /\ x >= 2 /\ Upcoming' = Upcoming + 1
  PROVE  SieveInv'
<1>1. /\ PipelineInv /\ NoCandidateLost /\ Upcoming \in Int /\ SortedAndSifted
      /\ 1 \in Sievers /\ N \in Nat /\ Stop = -1
  BY StageFacts, SieveAssumption DEF SieveInv, Sievers
<1>2. /\ \A k \in Sievers \ {1} : Queue(k)' = Queue(k)
      /\ Queue(1)' = Append(Queue(1), x)
  BY <1>1 DEF Arrives
<1>3. PICK u \in Int : u = Upcoming
  BY <1>1
<1>4. PICK v \in Int : v = Upcoming' /\ (v = u \/ v = u + 1)
  BY <1>3
<1>5. \A k \in Sievers : \A y \in Waiting(k) : Before(y, x)
  <2>1. SUFFICES ASSUME NEW k \in Sievers, NEW y \in Waiting(k) PROVE Before(y, x)
    OBVIOUS
  <2>2. y # Stop
    BY <1>1 DEF SortedAndSifted
  <2>3. y \in 2 .. u - 1
    BY <1>1, <1>3, <2>2 DEF SortedAndSifted
  <2>4. x = Stop \/ x = u
    BY <1>3
  <2>5. QED
    BY <2>2, <2>3, <2>4 DEF Before
<1>6. /\ Append(Queue(1), x) \in Seq(Int) /\ Sorted(Append(Queue(1), x))
      /\ Elements(Append(Queue(1), x)) = Elements(Queue(1)) \cup {x}
  <2>1. Queue(1) \in Seq(Int) /\ Sorted(Queue(1)) /\ Waiting(1) = Elements(Queue(1))
    BY <1>1, StageFacts, QueueTypes, WaitingNow DEF SortedAndSifted
  <2>2. \A y \in Elements(Queue(1)) : Before(y, x)
    BY <1>1, <1>5, <2>1
  <2>3. QED
    BY <2>1, <2>2, AddLast
<1>7. /\ \A k \in Sievers \ {1} : Waiting(k)' = Waiting(k)
      /\ Waiting(1)' = Waiting(1) \cup {x}
  <2>1. \A k \in Sievers \ {1} : Waiting(k)' = Waiting(k)
    BY <1>2 DEF Waiting
  <2>2. Waiting(1)' = Elements(Append(Queue(1), x)) /\ Waiting(1) = Elements(Queue(1))
    BY <1>2 DEF Waiting, Elements
  <2>3. QED
    BY <1>6, <2>1, <2>2
<1>8. MayJoin(1, x)
  <2>1. ASSUME x # Stop
        PROVE  /\ x \in 2 .. Upcoming' - 1
               /\ \A j \in Sievers : HasPrime(j) => x > prime[j] /\ (j < 1 => x % prime[j] # 0)
    <3>1. x = u /\ v = u + 1 /\ x >= 2
      BY <1>3, <1>4, <2>1
    <3>2. x \in 2 .. v - 1
      BY <3>1
    <3>3. ASSUME NEW j \in Sievers, HasPrime(j) PROVE x > prime[j] /\ ~(j < 1)
      <4>1. prime[j] \in j + 1 .. u - 1 /\ j \in 1 .. N
        BY <1>1, <1>3, <3>3, StageFacts
      <4>2. QED
        BY <1>1, <3>1, <4>1
    <3>4. QED
      BY <1>4, <3>2, <3>3
  <2>2. ASSUME x = Stop PROVE candidate' = Stop /\ \A j \in 1 .. 1 - 1 : Ended(j)'
    BY <2>2
  <2>3. \A j \in 1 .. 1 - 1 : \A y \in Waiting(j)' : Before(x, y)
    OBVIOUS
  <2>4. \A k \in Sievers : k > 1 => \A y \in Waiting(k)' : Before(y, x)
    BY <1>5, <1>7 DEF Sievers
  <2>5. QED
    BY <2>1, <2>2, <2>3, <2>4 DEF MayJoin
<1>9. SortedAndSifted'
  <2>1. \A k \in Sievers : Sorted(Queue(k))'
    BY <1>1, <1>2, <1>6 DEF SortedAndSifted, Sorted
  <2>2. {x} \in SUBSET Int
        /\ \A k \in Sievers : Waiting(k)' \subseteq Waiting(k) \cup (IF k = 1 THEN {x} ELSE {})
    BY <1>7
  <2>3. QED
    BY <1>1, <1>8, <2>1, <2>2, StillSorted
<1>10. PrimesPrinted'
  BY <1>1, StillPrinted
<1>11. NoCandidateLost'
  <2>1. \A n \in Upcoming .. Upcoming' - 1 : \E j \in Sievers : n \in Waiting(j)'
    <3>1. ASSUME NEW n \in u .. v - 1 PROVE n \in Waiting(1)'
      <4>1. n = u /\ v = u + 1
        BY <1>4, <3>1, AtMostOneMore
      <4>2. n = x
        BY <1>3, <1>4, <4>1
      <4>3. QED
        BY <1>7, <4>2
    <3>2. QED
      BY <1>1, <1>3, <1>4, <3>1
  <2>2. ASSUME NEW k \in Sievers, NEW y \in Waiting(k) \ {Stop}
        PROVE  \E j \in Sievers : y \in Waiting(j)'
    BY <1>1, <1>7
  <2>3. Upcoming' \in Int
    BY <1>4
  <2>4. QED
    BY <1>1, <2>1, <2>2, <2>3, StillAccounted
<1>12. QED
  BY <1>9, <1>10, <1>11 DEF SieveInv, PipelineInv

(* What the generator's two kinds of send have in common                   *)
LEMMA SendStep ==
  ASSUME SieveInv, NEW x \in 2 .. N - 1 \cup {Stop}, Put(1, x), UNCHANGED <<svars, primes>>,
         gpc = "loop", gpc' \in {"send", "sendStop"}, candidate' \in 2 .. N \cup {Stop},
         GeneratorInOrder', Upcoming <= Upcoming', candidate # Stop,
         spc[1] = "first" /\ pipe[1] = << >> => x # Stop,
         IF x = Stop THEN candidate' = Stop /\ Upcoming' = Upcoming
         ELSE x = Upcoming /\ x >= 2 /\ Upcoming' = Upcoming + 1
  PROVE  SieveInv'
<1>1. /\ SieveTypeOK /\ Stages /\ N \in Nat /\ Stop = -1 /\ 1 \in Sievers
      /\ \A k \in Sievers : k \in 1 .. N
  BY StageFacts, SieveAssumption DEF SieveInv, Sievers
<1>2. /\ \A k \in Sievers : pipe'[k] = IF k = 1 THEN Append(pipe[k], x) ELSE pipe[k]
      /\ UNCHANGED <<spc, prime, tested, first_output, primes>>
  BY <1>1 DEF Put, SieveTypeOK, svars
<1>3. SieveTypeOK'
  <2>1. \A k \in Sievers : pipe'[k] \in Seq(2 .. N - 1 \cup {Stop})
    <3>1. SUFFICES ASSUME NEW k \in Sievers PROVE pipe'[k] \in Seq(2 .. N - 1 \cup {Stop})
      OBVIOUS
    <3>2. pipe[k] \in Seq(2 .. N - 1 \cup {Stop})
      BY <1>1 DEF SieveTypeOK
    <3>3. Append(pipe[k], x) \in Seq(2 .. N - 1 \cup {Stop})
      BY <3>2, AppendProperties
    <3>4. QED
      BY <1>2, <3>2, <3>3
  <2>2. pipe' \in [Sievers -> Seq(2 .. N - 1 \cup {Stop})]
    BY <1>1, <2>1 DEF SieveTypeOK, Put
  <2>3. QED
    BY <1>1, <1>2, <2>2 DEF SieveTypeOK
<1>4. \A k \in Sievers : (HasPrime(k)' <=> HasPrime(k)) /\ (Ended(k)' <=> Ended(k))
  BY <1>2 DEF HasPrime, Ended
<1>5. \A k \in Sievers : ~Ended(k)
  BY <1>1 DEF Stages, SieverInOrder
<1>6. ASSUME NEW k \in Sievers PROVE SieverInOrder(k)'
  <2>1. SieverInOrder(k)
    BY <1>1 DEF Stages
  <2>2. CASE k # 1
    <3>1. pipe'[k] = pipe[k]
      BY <1>2, <2>2
    <3>2. QED
      BY <1>2, <1>4, <1>5, <2>1, <2>2, <3>1 DEF SieverInOrder, Divisible
  <2>3. CASE k = 1
    <3>1. pipe'[k] = Append(pipe[k], x) /\ pipe[k] \in Seq(Int) /\ x \in Int
      BY <1>1, <1>2, <2>3, QueueTypes
    <3>2. pipe'[k] # << >> /\ Head(pipe'[k]) = IF pipe[k] = << >> THEN x ELSE Head(pipe[k])
      BY <3>1, FrontAfterAppend
    <3>3. spc[k] # "unborn" /\ gpc' # "spawn"
      BY <2>1, <2>3 DEF SieverInOrder
    <3>4. QED
      BY <1>2, <1>4, <1>5, <2>1, <2>3, <3>2, <3>3 DEF SieverInOrder, Divisible
  <2>4. QED
    BY <2>2, <2>3
<1>7. Stages'
  BY <1>6 DEF Stages
<1>8. Arrives(1, x)
  <2>1. Queue(1)' = Append(Queue(1), x)
    <3>1. /\ pipe[1] \in Seq(Int) /\ x \in Int /\ tested[1] \in Int
          /\ Append(pipe[1], x) \in Seq(Int) /\ pipe'[1] = Append(pipe[1], x)
      BY <1>1, <1>2, QueueTypes, AppendProperties
    <3>2. /\ Append(<<tested[1]>> \o pipe[1], x) = <<tested[1]>> \o Append(pipe[1], x)
          /\ << >> \o pipe[1] = pipe[1] /\ << >> \o Append(pipe[1], x) = Append(pipe[1], x)
      BY <3>1, InFront
    <3>3. QED
      BY <1>2, <3>1, <3>2 DEF Queue, Held
  <2>2. ASSUME NEW k \in Sievers, k # 1 PROVE Queue(k)' = Queue(k)
    <3>1. spc'[k] = spc[k] /\ tested'[k] = tested[k] /\ pipe'[k] = pipe[k]
      BY <1>2, <2>2
    <3>2. QED
      BY <3>1 DEF Queue, Held
  <2>3. QED
    BY <2>1, <2>2 DEF Arrives
<1>9. x \in Int
  BY <1>1
<1>10. QED
  BY <1>2, <1>3, <1>4, <1>7, <1>8, <1>9, Added

LEMMA SendCandidateStep == ASSUME SieveInv, SendCandidate PROVE SieveInv'
<1>1. /\ gpc = "loop" /\ candidate < N /\ gpc' = "send" /\ candidate' = candidate
      /\ Put(1, candidate) /\ UNCHANGED <<svars, primes>>
  BY DEF SendCandidate
<1>2. N \in Nat /\ Stop = -1 /\ candidate \in 2 .. N
  BY <1>1, StageFacts DEF SieveInv, Stages, GeneratorInOrder
<1>3. candidate \in 2 .. N - 1 /\ candidate # Stop /\ candidate' \in 2 .. N
  BY <1>1, <1>2
<1>4. Upcoming = candidate /\ Upcoming' = candidate + 1 /\ Upcoming <= Upcoming'
  BY <1>1, <1>2 DEF Upcoming
<1>5. GeneratorInOrder'
  BY <1>1, <1>3 DEF GeneratorInOrder
<1>6. QED
  BY <1>1, <1>3, <1>4, <1>5, SendStep

LEMMA SendStopStep == ASSUME SieveInv, N > 2, SendStop PROVE SieveInv'
<1>1. /\ gpc = "loop" /\ candidate >= N /\ gpc' = "sendStop" /\ candidate' = Stop
      /\ Put(1, Stop) /\ UNCHANGED <<svars, primes>>
  BY DEF SendStop
<1>2. N \in Nat /\ Stop = -1 /\ candidate \in 2 .. N /\ 1 \in Sievers /\ Stages
  BY <1>1, StageFacts, SieveAssumption DEF SieveInv, Stages, GeneratorInOrder, Sievers
<1>3. candidate # Stop /\ candidate # 2
  BY <1>1, <1>2
<1>4. Upcoming = N /\ Upcoming' = N /\ Upcoming <= Upcoming' /\ Upcoming' = Upcoming
  BY <1>1, <1>2 DEF Upcoming
<1>5. GeneratorInOrder'
  BY <1>1 DEF GeneratorInOrder
<1>6. ~(spc[1] = "first" /\ pipe[1] = << >>)
  BY <1>2, <1>3 DEF Stages, SieverInOrder
<1>7. QED
  BY <1>1, <1>3, <1>4, <1>5, <1>6, SendStep

(* A stage takes its prime.                                                *)
LEMMA ReceivePrimeStep ==
  ASSUME SieveInv, NEW i \in Sievers, ReceivePrime(i)
  PROVE  SieveInv'
<1>1. /\ SieveTypeOK /\ Stages /\ SortedAndSifted /\ PrimesPrinted /\ NoCandidateLost
      /\ N \in Nat /\ Stop = -1 /\ Upcoming \in Int /\ Upcoming <= N
      /\ \A k \in Sievers : k \in 1 .. N
  BY StageFacts DEF SieveInv
<1>2. PICK x : x = Head(pipe[i])
  OBVIOUS
<1>3. /\ spc[i] = "first" /\ spc'[i] = "recv" /\ pipe[i] # << >> /\ pipe'[i] = Tail(pipe[i])
      /\ prime'[i] = x /\ primes' = Append(primes, x) /\ ~HasPrime(i)
      /\ \A k \in Sievers \ {i} : spc'[k] = spc[k] /\ pipe'[k] = pipe[k] /\ prime'[k] = prime[k]
      /\ UNCHANGED <<gpc, candidate, tested, first_output>>
  BY <1>1, <1>2 DEF ReceivePrime, Get, HasPrime, SieveTypeOK, gvars
<1>4. /\ pipe[i] \in Seq(2 .. N - 1 \cup {Stop}) /\ pipe[i] \in Seq(Int)
      /\ x \in 2 .. N - 1 \cup {Stop} /\ Tail(pipe[i]) \in Seq(2 .. N - 1 \cup {Stop})
      /\ Tail(pipe[i]) \in Seq(Int)
  <2>1. pipe[i] \in Seq(2 .. N - 1 \cup {Stop}) /\ pipe[i] \in Seq(Int)
    BY <1>1, QueueTypes DEF SieveTypeOK
  <2>2. QED
    BY <1>2, <1>3, <2>1, HeadTailProperties
<1>5. /\ Queue(i) = pipe[i] /\ Queue(i)' = Tail(pipe[i])
      /\ \A k \in Sievers \ {i} : Queue(k)' = Queue(k)
  <2>1. << >> \o pipe[i] = pipe[i] /\ << >> \o Tail(pipe[i]) = Tail(pipe[i])
    BY <1>4, InFront
  <2>2. QED
    BY <1>3, <2>1 DEF Queue, Held
<1>6. /\ Waiting(i)' = Elements(Tail(Queue(i))) /\ Waiting(i) = {x} \cup Waiting(i)'
      /\ Sorted(Queue(i))' /\ \A y \in Waiting(i)' : Before(x, y)
      /\ \A j \in 1 .. i - 1 : \A y \in Waiting(j) : Before(x, y)
  <2>1. /\ Sorted(Tail(Queue(i))) /\ Waiting(i) = {x} \cup Elements(Tail(Queue(i)))
        /\ \A y \in Elements(Tail(Queue(i))) : Before(x, y)
        /\ \A j \in 1 .. i - 1 : \A y \in Waiting(j) : Before(x, y)
    BY <1>2, <1>3, <1>5, Front
  <2>2. Waiting(i)' = Elements(Tail(Queue(i))) /\ (Sorted(Queue(i))' <=> Sorted(Tail(Queue(i))))
    BY <1>5 DEF Waiting, Elements, Sorted
  <2>3. QED
    BY <2>1, <2>2
<1>7. \A k \in Sievers \ {i} : Waiting(k)' = Waiting(k) /\ (Sorted(Queue(k))' <=> Sorted(Queue(k)))
  BY <1>5 DEF Waiting, Sorted
<1>8. /\ \A j \in 1 .. i - 1 : j \in Sievers /\ j # i /\ HasPrime(j)
      /\ \A j \in Sievers : j > i => ~HasPrime(j) /\ Waiting(j) = {}
  <2>1. SieverInOrder(i)
    BY <1>1 DEF Stages
  <2>2. ASSUME NEW j \in 1 .. i - 1 PROVE j \in Sievers /\ j # i /\ HasPrime(j)
    <3>1. j \in Sievers /\ j # i /\ i \in j + 1 .. N
      BY <1>1 DEF Sievers
    <3>2. SieverInOrder(j)
      BY <1>1, <3>1 DEF Stages
    <3>3. QED
      BY <1>3, <3>1, <3>2 DEF SieverInOrder
  <2>3. ASSUME NEW j \in Sievers, j > i PROVE ~HasPrime(j) /\ Waiting(j) = {}
    <3>1. j \in i + 1 .. N
      BY <1>1, <2>3
    <3>2. spc[j] = "unborn"
      BY <1>3, <2>1, <3>1 DEF SieverInOrder
    <3>3. pipe[j] = << >>
      BY <1>1, <3>2 DEF Stages, SieverInOrder
    <3>4. Queue(j) = << >> \o << >>
      BY <3>2, <3>3 DEF Queue, Held
    <3>5. Queue(j) = << >> /\ DOMAIN << >> = {}
      BY <3>4, EmptySeq, InFront
    <3>6. QED
      BY <3>2, <3>5 DEF HasPrime, Waiting
  <2>4. QED
    BY <2>2, <2>3
<1>9. /\ \A k \in Sievers : HasPrime(k)' <=> HasPrime(k) \/ k = i
      /\ \A k \in Sievers : Ended(k)' <=> Ended(k)
      /\ \A k \in Sievers : /\ spc'[k] = "unborn" <=> spc[k] = "unborn"
                            /\ spc'[k] = "output" <=> spc[k] = "output"
                            /\ spc'[k] = "first" => spc[k] = "first" /\ k # i
  BY <1>3 DEF HasPrime, Ended
<1>10. x # Stop /\ x \in i + 1 .. Upcoming - 1 /\ \A j \in 1 .. i - 1 : prime[j] < x
  <2>1. x # Stop
    BY <1>1, <1>2, <1>3 DEF Stages, SieverInOrder
  <2>2. x \in 2 .. Upcoming - 1 /\ \A j \in Sievers : HasPrime(j) => x > prime[j]
    BY <1>1, <1>6, <2>1 DEF SortedAndSifted
  <2>3. \A j \in 1 .. i - 1 : prime[j] < x /\ prime[j] \in j + 1 .. Upcoming - 1
    BY <1>8, <2>2, StageFacts DEF SieveInv
  <2>4. x >= i + 1
    <3>1. CASE i = 1
      BY <2>2, <3>1
    <3>2. CASE i # 1
      <4>1. i - 1 \in 1 .. i - 1
        BY <1>1, <3>2
      <4>2. prime[i - 1] < x /\ prime[i - 1] \in (i - 1) + 1 .. Upcoming - 1
        BY <2>3, <4>1
      <4>3. QED
        BY <1>1, <2>2, <4>2
    <3>3. QED
      BY <3>1, <3>2
  <2>5. QED
    BY <1>1, <2>1, <2>2, <2>3, <2>4
<1>11. Upcoming' = Upcoming
  BY <1>3 DEF Upcoming
<1>12. SieveTypeOK'
  <2>1. x \in Numbers
    BY <1>1, <1>4 DEF Numbers
  <2>2. primes' \in Seq(Numbers)
    BY <1>1, <1>3, <2>1, AppendProperties DEF SieveTypeOK
  <2>3. /\ pipe' \in [Sievers -> Seq(2 .. N - 1 \cup {Stop})]
        /\ prime' \in [Sievers -> Numbers]
    BY <1>1, <1>2, <1>4, <2>1 DEF SieveTypeOK, ReceivePrime, Get
  <2>4. spc' \in [Sievers -> {"unborn", "first", "recv", "test", "output", "send",
                              "sendStop", "finalize"}]
    BY <1>1 DEF SieveTypeOK, ReceivePrime
  <2>5. QED
    BY <1>1, <1>3, <2>2, <2>3, <2>4 DEF SieveTypeOK
<1>13. SortedAndSifted'
  <2>1. \A k \in Sievers : Waiting(k)' \subseteq Waiting(k) /\ Sorted(Queue(k))'
    BY <1>1, <1>6, <1>7 DEF SortedAndSifted
  <2>2. ASSUME NEW k \in Sievers, NEW y \in Waiting(k)', y # Stop
        PROVE  /\ y \in 2 .. Upcoming' - 1
               /\ \A j \in Sievers : HasPrime(j)' =>
                    y > prime'[j] /\ (j < k => y % prime'[j] # 0)
    <3>1. /\ y \in 2 .. Upcoming - 1
          /\ \A j \in Sievers : HasPrime(j) => y > prime[j] /\ (j < k => y % prime[j] # 0)
      BY <1>1, <2>1, <2>2 DEF SortedAndSifted
    <3>2. y > x /\ ~(i < k)
      <4>1. ~(k > i)
        BY <1>8, <2>1
      <4>2. k = i \/ k \in 1 .. i - 1
        BY <1>1, <4>1
      <4>3. Before(x, y)
        BY <1>6, <2>1, <4>2
      <4>4. QED
        BY <1>1, <1>10, <2>2, <3>1, <4>1, <4>3 DEF Before
    <3>3. QED
      BY <1>3, <1>9, <1>11, <3>1, <3>2
  <2>3. ASSUME NEW k \in Sievers, NEW j \in 1 .. k - 1
        PROVE  /\ \A y \in Waiting(k)', z \in Waiting(j)' : Before(y, z)
               /\ Stop \in Waiting(k)' => Ended(j)'
    <3>1. j \in Sievers
      BY <1>1 DEF Sievers
    <3>2. QED
      BY <1>1, <1>9, <2>1, <3>1 DEF SortedAndSifted
  <2>4. \A k \in Sievers : Stop \in Waiting(k)' => candidate' = Stop
    BY <1>1, <1>3, <2>1 DEF SortedAndSifted
  <2>5. QED
    BY <2>1, <2>2, <2>3, <2>4 DEF SortedAndSifted
<1>14. Stages'
  <2>1. ASSUME NEW k \in Sievers PROVE SieverInOrder(k)'
    <3>1. SieverInOrder(k)
      BY <1>1 DEF Stages
    <3>2. (\A j \in k + 1 .. N : j \in Sievers) /\ (\A j \in 1 .. k - 1 : j \in Sievers)
          /\ (k # 1 => k - 1 \in Sievers)
      BY <1>1 DEF Sievers
    <3>3. CASE k = i
      BY <1>3, <1>9, <3>1, <3>2, <3>3 DEF SieverInOrder, HasPrime, Ended
    <3>4. CASE k # i
      <4>1. prime'[k] = prime[k] /\ pipe'[k] = pipe[k] /\ tested'[k] = tested[k]
        BY <1>3, <3>4
      <4>2. QED
        BY <1>3, <1>9, <3>1, <3>2, <3>4, <4>1 DEF SieverInOrder, Divisible
    <3>5. QED
      BY <3>3, <3>4
  <2>2. QED
    BY <1>1, <1>3, <2>1 DEF Stages, GeneratorInOrder
<1>15. PrimesPrinted'
  <2>1. /\ primes \in Seq(Numbers) /\ Len(primes) \in Nat /\ DOMAIN primes = 1 .. Len(primes)
        /\ DOMAIN primes = {k \in Sievers : HasPrime(k)}
    BY <1>1, LenProperties DEF SieveTypeOK, PrimesPrinted
  <2>2. \A k \in Sievers : HasPrime(k) <=> k \in 1 .. i - 1
    BY <1>1, <1>3, <1>8
  <2>3. Len(primes) = i - 1
    <3>1. 1 .. Len(primes) = 1 .. i - 1
      <4>1. 1 .. i - 1 \subseteq Sievers
        BY <1>8
      <4>2. QED
        BY <2>1, <2>2, <4>1
    <3>2. QED
      BY <1>1, <2>1, <3>1
  <2>4. /\ DOMAIN primes' = 1 .. i /\ primes'[i] = x
        /\ \A k \in 1 .. i - 1 : primes'[k] = primes[k]
    <3>1. x \in Numbers
      BY <1>1, <1>4 DEF Numbers
    <3>2. /\ Append(primes, x) \in Seq(Numbers) /\ Len(Append(primes, x)) = i
          /\ Append(primes, x)[i] = x
          /\ \A k \in 1 .. i - 1 : Append(primes, x)[k] = primes[k]
      BY <1>1, <2>1, <2>3, <3>1, AppendProperties
    <3>3. QED
      BY <1>3, <3>2, LenProperties
  <2>5. DOMAIN primes' = {k \in Sievers : HasPrime(k)'}
    <3>1. \A k \in Sievers : HasPrime(k)' <=> k \in 1 .. i
      BY <1>1, <1>9, <2>2
    <3>2. 1 .. i \subseteq Sievers
      BY <1>1 DEF Sievers
    <3>3. QED
      BY <2>4, <3>1, <3>2
  <2>6. ASSUME NEW k \in Sievers
        PROVE  IF HasPrime(k)'
               THEN /\ primes'[k] = prime'[k] /\ prime'[k] \in k + 1 .. Upcoming' - 1
                    /\ \A j \in 1 .. k - 1 : HasPrime(j)' /\ prime'[j] < prime'[k]
               ELSE prime'[k] = 0
    <3>1. CASE k = i
      BY <1>3, <1>8, <1>9, <1>10, <1>11, <2>4, <3>1
    <3>2. CASE k \in 1 .. i - 1
      <4>1. /\ primes[k] = prime[k] /\ prime[k] \in k + 1 .. Upcoming - 1
            /\ \A j \in 1 .. k - 1 : HasPrime(j) /\ prime[j] < prime[k]
            /\ HasPrime(k)
        BY <1>1, <2>2, <3>2 DEF PrimesPrinted
      <4>2. k # i /\ \A j \in 1 .. k - 1 : j \in Sievers /\ j # i
        BY <1>1, <3>2 DEF Sievers
      <4>3. QED
        BY <1>3, <1>9, <1>11, <2>4, <3>2, <4>1, <4>2
    <3>3. CASE k > i
      <4>1. ~HasPrime(k) /\ k # i
        BY <1>1, <1>8, <3>3
      <4>2. prime[k] = 0
        BY <1>1, <4>1 DEF PrimesPrinted
      <4>3. QED
        BY <1>3, <1>9, <4>1, <4>2
    <3>4. QED
      BY <1>1, <3>1, <3>2, <3>3
  <2>7. QED
    BY <2>5, <2>6 DEF PrimesPrinted
<1>16. NoCandidateLost'
  <2>1. SUFFICES ASSUME NEW n \in 2 .. Upcoming - 1
                 PROVE  \E k \in Sievers : (HasPrime(k)' /\ n % prime'[k] = 0) \/ n \in Waiting(k)'
    BY <1>11 DEF NoCandidateLost
  <2>2. PICK k \in Sievers : (HasPrime(k) /\ n % prime[k] = 0) \/ n \in Waiting(k)
    BY <1>1 DEF NoCandidateLost
  <2>3. CASE HasPrime(k) /\ n % prime[k] = 0
    BY <1>3, <1>9, <2>3
  <2>4. CASE n \in Waiting(k) /\ (k # i \/ n # x)
    BY <1>6, <1>7, <2>4
  <2>5. CASE n = x /\ k = i
    <3>1. n % n = 0
      BY <1>1
    <3>2. HasPrime(i)' /\ n % prime'[i] = 0
      BY <1>3, <1>9, <2>5, <3>1
    <3>3. QED
      BY <3>2
  <2>6. QED
    BY <2>2, <2>3, <2>4, <2>5
<1>17. QED
  BY <1>12, <1>13, <1>14, <1>15, <1>16 DEF SieveInv, PipelineInv

LEMMA SieveStart == ASSUME N > 2, SieveInit PROVE SieveInv
<1>1. /\ N \in Nat \ {0} /\ Stop = -1 /\ 1 \in Sievers /\ (\A k \in Sievers : k \in 1 .. N)
      /\ << >> \in Seq(2 .. N - 1 \cup {Stop}) /\ << >> \in Seq(Numbers) /\ << >> \in Seq(Int)
      /\ DOMAIN << >> = {}
  BY SieveAssumption, EmptySeq DEF Stop, Sievers
<1>2. SieveTypeOK
  <2>1. 0 \in Numbers
    BY <1>1 DEF Numbers
  <2>2. QED
    BY <1>1, <2>1 DEF SieveInit, SieveTypeOK
<1>3. \A k \in Sievers : ~HasPrime(k) /\ ~Ended(k) /\ Queue(k) = << >>
  <2>1. << >> \o << >> = << >>
    BY <1>1, InFront
  <2>2. QED
    BY <2>1 DEF SieveInit, HasPrime, Ended, Queue, Held
<1>4. \A k \in Sievers : Waiting(k) = {} /\ Sorted(Queue(k))
  BY <1>1, <1>3 DEF Waiting, Sorted
<1>5. SortedAndSifted
  <2>1. \A k \in Sievers : \A j \in 1 .. k - 1 : j \in Sievers
    BY <1>1 DEF Sievers
  <2>2. QED
    BY <1>4, <2>1 DEF SortedAndSifted
<1>6. GeneratorInOrder
  BY <1>1 DEF SieveInit, GeneratorInOrder
<1>7. ASSUME NEW k \in Sievers PROVE SieverInOrder(k)
  <2>1. \A j \in k + 1 .. N : j \in Sievers
    BY <1>1 DEF Sievers
  <2>2. k # 1 => k - 1 \in Sievers
    BY <1>1 DEF Sievers
  <2>3. spc[k] = "unborn" /\ pipe[k] = << >> /\ first_output[k]
        /\ \A j \in k + 1 .. N : spc[j] = "unborn"
    BY <2>1 DEF SieveInit
  <2>4. spc[k] = "unborn" <=> IF k = 1 THEN gpc = "spawn" ELSE first_output[k - 1]
    BY <2>2, <2>3 DEF SieveInit
  <2>5. QED
    BY <1>3, <2>3, <2>4 DEF SieverInOrder
<1>8. PrimesPrinted
  BY <1>1, <1>3 DEF SieveInit, PrimesPrinted
<1>9. NoCandidateLost
  BY DEF SieveInit, Upcoming, NoCandidateLost
<1>10. QED
  BY <1>2, <1>5, <1>6, <1>7, <1>8, <1>9 DEF SieveInv, PipelineInv, Stages

LEMMA SieveStutter == ASSUME SieveInv, UNCHANGED sievevars PROVE SieveInv'
<1>1. UNCHANGED <<gpc, candidate, spc, prime, tested, first_output, pipe, primes>>
  BY DEF sievevars, gvars, svars
<1>2. SieveTypeOK' /\ Stages' /\ NothingMoves
  BY <1>1 DEF SieveInv, PipelineInv, SieveTypeOK, Stages, GeneratorInOrder, SieverInOrder,
              Divisible, HasPrime, Ended, NothingMoves, Queue, Held
<1>3. \A k \in Sievers : (HasPrime(k)' <=> HasPrime(k)) /\ (Ended(k) => Ended(k)')
  BY <1>1 DEF HasPrime, Ended
<1>4. QED
  BY <1>1, <1>2, <1>3, Quietly DEF Upcoming

LEMMA SieveStep == ASSUME N > 2, SieveInv, [SieveNext]_sievevars PROVE SieveInv'
BY SpawnFirstStep, SendCandidateStep, SendStopStep, GeneratorSentStep, ReceivePrimeStep,
   ReceiveCandidateStep, DropStep, KeepStep, PassOnStep, PassStopStep, LastSieverEndsStep,
   SieverSentStep, SieveStutter
   DEF SieveNext, GeneratorStep, SieverStep, SieveTerminated

LEMMA SieveInvariant == ASSUME N > 2 PROVE SieveSafety => []SieveInv
<1>1. SieveInit => SieveInv
  BY SieveStart
<1>2. SieveInv /\ [SieveNext]_sievevars => SieveInv'
  BY SieveStep
<1>3. QED
  BY <1>1, <1>2, PTL DEF SieveSafety

(* Candidates stay in order on their way through the pipeline and are      *)
(* sifted by all stages before (siever.cpp:15-50), if there are any: the   *)
(* generator started with N <= 2 sends its signal to a siever that takes   *)
(* it for its prime.                                                       *)
THEOREM PipelineInvariant ==
  ASSUME N > 2 PROVE SieveSafety => []PipelineInv
BY SieveInvariant, PTL DEF SieveInv

(* No candidate that was sent disappears: it is waiting, or divisible by a *)
(* prime found before it or by itself (generator.cpp:15-21,                *)
(* siever.cpp:26-37).                                                      *)
THEOREM SieveLosesNoCandidate ==
  ASSUME N > 2 PROVE SieveSafety => []NoCandidateLost
BY SieveInvariant, PTL DEF SieveInv

-----------------------------------------------------------------------------
(* Divisibility                                                            *)
LEMMA Quotient ==
  ASSUME NEW a \in Nat, NEW b \in Nat \ {0}, a % b = 0
  PROVE  a \div b \in Nat /\ a = b * (a \div b)
OBVIOUS

LEMMA Multiple ==
  ASSUME NEW c \in Nat \ {0}, NEW k \in Nat
  PROVE  (c * k) % c = 0
<1>1. c * k \in Nat
  OBVIOUS
<1>2. QED
  BY <1>1

LEMMA DivisorsDivisor ==
  ASSUME NEW a \in Nat, NEW b \in Nat \ {0}, NEW c \in Nat \ {0}, a % b = 0, b % c = 0
  PROVE  a % c = 0
<1>1. PICK m \in Nat : a = b * m
  BY Quotient
<1>2. PICK n \in Nat : b = c * n
  BY Quotient
<1>3. a = (c * n) * m
  BY <1>1, <1>2
<1>4. (c * n) * m = c * (n * m) /\ n * m \in Nat
  OBVIOUS
<1>5. QED
  BY <1>3, <1>4, Multiple

LEMMA DivisorAtMost ==
  ASSUME NEW a \in Nat \ {0}, NEW b \in Nat \ {0}, a % b = 0
  PROVE  b <= a
OBVIOUS

(* What a stage takes for its prime is the least prime not yet printed: a  *)
(* divisor of it, or a smaller prime, would still be waiting behind it or  *)
(* be divisible by a prime found before, and so would it.                  *)
LEMMA PrintsNextPrime ==
  ASSUME SieveInv, NEW i \in Sievers, ReceivePrime(i)
  PROVE  List!Next
<1>1. /\ SieveTypeOK /\ Stages /\ SortedAndSifted /\ PrimesPrinted /\ NoCandidateLost
      /\ N \in Nat /\ Stop = -1 /\ Upcoming \in Int /\ Upcoming <= N
      /\ \A k \in Sievers : k \in 1 .. N
  BY StageFacts DEF SieveInv
<1>2. PICK x : x = Head(pipe[i])
  OBVIOUS
<1>3. spc[i] = "first" /\ pipe[i] # << >> /\ primes' = Append(primes, x) /\ ~HasPrime(i)
  BY <1>2 DEF ReceivePrime, Get, HasPrime
<1>4. Queue(i) = pipe[i] /\ Queue(i) # << >> /\ Head(Queue(i)) = x
  <2>1. pipe[i] \in Seq(Int)
    BY <1>1, QueueTypes
  <2>2. << >> \o pipe[i] = pipe[i]
    BY <2>1, InFront
  <2>3. QED
    BY <1>2, <1>3, <2>2 DEF Queue, Held
<1>5. x \in Waiting(i) /\ x # Stop
  BY <1>1, <1>2, <1>3, <1>4, Front DEF Stages, SieverInOrder
<1>6. /\ x \in 2 .. Upcoming - 1
      /\ \A j \in Sievers : HasPrime(j) => x > prime[j] /\ (j < i => x % prime[j] # 0)
  BY <1>1, <1>5 DEF SortedAndSifted
<1>7. \A j \in Sievers : HasPrime(j) => j < i
  <2>1. SUFFICES ASSUME NEW j \in Sievers, HasPrime(j), ~(j < i) PROVE FALSE
    OBVIOUS
  <2>2. j = i \/ i \in 1 .. j - 1
    BY <1>1, <2>1
  <2>3. QED
    BY <1>3, <2>1, <2>2, StageFacts DEF SieveInv
<1>8. ASSUME NEW k \in Sievers, NEW y \in Waiting(k) PROVE y = x \/ Before(x, y)
  <2>1. CASE k > i
    <3>1. SieverInOrder(i) /\ k \in i + 1 .. N
      BY <1>1, <2>1 DEF Stages
    <3>2. spc[k] = "unborn"
      BY <1>3, <3>1 DEF SieverInOrder
    <3>3. pipe[k] = << >>
      BY <1>1, <3>2 DEF Stages, SieverInOrder
    <3>4. Queue(k) = << >> \o << >>
      BY <3>2, <3>3 DEF Queue, Held
    <3>5. Queue(k) = << >> /\ DOMAIN << >> = {}
      BY <3>4, EmptySeq, InFront
    <3>6. QED
      BY <1>8, <3>5 DEF Waiting
  <2>2. CASE k = i
    BY <1>4, <1>8, <2>2, Front
  <2>3. CASE k < i
    <3>1. k \in 1 .. i - 1
      BY <1>1, <2>3
    <3>2. QED
      BY <1>4, <1>8, <3>1, Front
  <2>4. QED
    BY <1>1, <2>1, <2>2, <2>3
<1>9. ASSUME NEW d \in 2 .. x - 1
      PROVE  \E j \in Sievers : HasPrime(j) /\ prime[j] \in Nat /\ prime[j] >= 2
                                /\ d % prime[j] = 0 /\ x % prime[j] # 0 /\ x > prime[j]
  <2>1. d \in 2 .. Upcoming - 1
    BY <1>1, <1>6
  <2>2. PICK k \in Sievers : (HasPrime(k) /\ d % prime[k] = 0) \/ d \in Waiting(k)
    BY <1>1, <2>1 DEF NoCandidateLost
  <2>3. d \notin Waiting(k)
    <3>1. SUFFICES ASSUME d \in Waiting(k) PROVE FALSE
      OBVIOUS
    <3>2. d = x \/ Before(x, d)
      BY <1>8, <3>1
    <3>3. QED
      BY <1>1, <1>6, <3>2 DEF Before
  <2>4. HasPrime(k) /\ prime[k] \in k + 1 .. Upcoming - 1 /\ d % prime[k] = 0
    BY <2>2, <2>3, StageFacts DEF SieveInv
  <2>5. prime[k] \in Nat /\ prime[k] >= 2
    BY <1>1, <2>4
  <2>6. QED
    BY <1>6, <1>7, <2>4, <2>5
<1>10. x \in List!Primes
  <2>1. ASSUME NEW d \in 2 .. x - 1, x % d = 0 PROVE FALSE
    <3>1. PICK j \in Sievers : HasPrime(j) /\ prime[j] \in Nat /\ prime[j] >= 2
                               /\ d % prime[j] = 0 /\ x % prime[j] # 0
      BY <1>9
    <3>2. x \in Nat /\ d \in Nat \ {0} /\ prime[j] \in Nat \ {0}
      BY <1>1, <1>6, <3>1
    <3>3. QED
      BY <2>1, <3>1, <3>2, DivisorsDivisor
  <2>2. x \in 2 .. N - 1
    BY <1>1, <1>6
  <2>3. QED
    BY <2>1, <2>2 DEF List!Primes, List!IsPrime
<1>11. \A q \in List!Listed : \E j \in Sievers : HasPrime(j) /\ q = prime[j]
  BY <1>1 DEF List!Listed, PrimesPrinted
<1>12. \A j \in Sievers : HasPrime(j) => prime[j] \in List!Listed
  BY <1>1 DEF List!Listed, PrimesPrinted
<1>13. x \notin List!Listed
  <2>1. SUFFICES ASSUME x \in List!Listed PROVE FALSE
    OBVIOUS
  <2>2. PICK j \in Sievers : HasPrime(j) /\ x = prime[j]
    BY <1>11, <2>1
  <2>3. QED
    BY <1>6, <2>2
<1>14. ASSUME NEW q \in List!Primes \ List!Listed PROVE x <= q
  <2>1. /\ q \in 2 .. N - 1 /\ \A d \in 2 .. q - 1 : q % d # 0
    BY DEF List!Primes, List!IsPrime
  <2>2. SUFFICES ASSUME q < x PROVE FALSE
    BY <1>1, <1>6, <2>1
  <2>3. q \in 2 .. x - 1
    BY <1>1, <1>6, <2>1, <2>2
  <2>4. PICK j \in Sievers : HasPrime(j) /\ prime[j] \in Nat /\ prime[j] >= 2
                             /\ q % prime[j] = 0
    BY <1>9, <2>3
  <2>5. prime[j] <= q
    BY <1>1, <2>1, <2>4, DivisorAtMost
  <2>6. prime[j] # q
    BY <1>12, <1>14, <2>4
  <2>7. prime[j] \in 2 .. q - 1
    BY <1>1, <2>1, <2>4, <2>5, <2>6
  <2>8. QED
    BY <2>1, <2>4, <2>7
<1>15. List!PrintPrime(x)
  BY <1>3, <1>10, <1>13, <1>14 DEF List!PrintPrime
<1>16. x \in 2 .. N - 1
  BY <1>1, <1>6
<1>17. QED
  BY <1>15, <1>16 DEF List!Next

(* Every other step of the pipeline leaves what is printed alone.          *)
LEMMA SievePrintsInOrder == SieveInv /\ [SieveNext]_sievevars => [List!Next]_primes
<1>1. SUFFICES ASSUME SieveInv, [SieveNext]_sievevars, primes' # primes PROVE List!Next
  OBVIOUS
<1>2. PICK i \in Sievers : ReceivePrime(i)
  BY <1>1 DEF SieveNext, GeneratorStep, SpawnFirst, SendCandidate, SendStop, GeneratorSent,
              SentAndNext, SieverStep, ReceiveCandidate, Drop, Keep, KeepThen, PassOn,
              PassStop, LastSieverEnds, Stopping, SieverSent, SieveTerminated, sievevars
<1>3. QED
  BY <1>1, <1>2, PrintsNextPrime

(* For every N > 2 the pipeline prints nothing but the primes below N, in  *)
(* ascending order and leaving none out before a larger one, at any speed  *)
(* of its stages (siever.cpp:15-43).                                       *)
THEOREM SieveRefinement ==
  ASSUME N > 2 PROVE SieveSafety => List!Safety
<1>1. SieveInit => List!Init
  BY DEF SieveInit, List!Init
<1>2. QED
  BY <1>1, SievePrintsInOrder, SieveInvariant, PTL DEF SieveSafety, List!Safety

(* "is a prime number" is printed of primes only, for every N > 2          *)
(* (siever.cpp:17): the run prime_sieve_too_small shows that N = 2 is too  *)
(* small.                                                                  *)
THEOREM SievePrintsOnlyPrimes ==
  ASSUME N > 2 PROVE SieveSafety => []OnlyPrimesPrinted
<1>1. SieveInit => OnlyPrimesPrinted
  BY DEF SieveInit, OnlyPrimesPrinted
<1>2. ASSUME SieveInv, OnlyPrimesPrinted, [List!Next]_primes
      PROVE  OnlyPrimesPrinted'
  <2>1. CASE UNCHANGED primes
    BY <1>2, <2>1 DEF OnlyPrimesPrinted
  <2>2. CASE List!Next
    <3>1. PICK p \in 2 .. N - 1 : List!IsPrime(p) /\ primes' = Append(primes, p)
      BY <2>2 DEF List!Next, List!PrintPrime, List!Primes
    <3>2. primes \in Seq(Numbers)
      BY <1>2 DEF SieveInv, PipelineInv, SieveTypeOK
    <3>3. \A k \in DOMAIN primes' : IF k \in DOMAIN primes THEN primes'[k] = primes[k]
                                                          ELSE primes'[k] = p
      BY <3>1, <3>2
    <3>4. QED
      BY <1>2, <3>1, <3>3 DEF OnlyPrimesPrinted
  <2>3. QED
    BY <1>2, <2>1, <2>2
<1>3. SieveInv /\ OnlyPrimesPrinted /\ [List!Next]_primes => OnlyPrimesPrinted'
  BY <1>2
<1>4. QED
  BY <1>1, <1>3, SievePrintsInOrder, SieveInvariant, PTL DEF SieveSafety
-----------------------------------------------------------------------------
(***************************************************************************)
(* MpiJacobi: the reference                                                *)
(***************************************************************************)
(* Induction, as the principle that a set of numbers has a least element,  *)
(* for the three facts about recursion and about Max that are needed.      *)
LEMMA LeastNatural ==
  ASSUME NEW S, S \subseteq Nat, S # {}
  PROVE  \E m \in S : \A k \in S : m <= k
<1>1. \E m \in S : \A k \in S : <<k, m>> \notin OpToRel(<, Nat)
  BY NatLessThanWellFounded, WFMin
<1>2. ASSUME NEW k \in Nat, NEW m \in Nat, <<k, m>> \notin OpToRel(<, Nat)
      PROVE  m <= k
  <2>1. SUFFICES ASSUME k < m PROVE FALSE
    OBVIOUS
  <2>2. <<k, m>> \in Nat \X Nat /\ <<k, m>>[1] = k /\ <<k, m>>[2] = m
    OBVIOUS
  <2>3. <<k, m>> \in OpToRel(<, Nat)
    BY <2>1, <2>2 DEF OpToRel
  <2>4. QED
    BY <1>2, <2>3
<1>3. QED
  BY <1>1, <1>2

(* Two numbers have a common upper bound.                                  *)
LEMMA AboveBoth ==
  ASSUME NEW x \in Int, NEW y \in Int
  PROVE  \E m \in Int : x <= m /\ y <= m
<1>1. CASE x <= y
  BY <1>1
<1>2. CASE y <= x
  BY <1>2
<1>3. QED
  BY <1>1, <1>2

(* A function on an interval of numbers is bounded.                        *)
LEMMA Bounded ==
  ASSUME NEW a \in Int, NEW b \in Int, NEW f \in [a .. b -> Int]
  PROVE  \E m \in Int : \A k \in a .. b : f[k] <= m
<1> DEFINE Top(n) == \E m \in Int : \A k \in a .. b : k < a + n => f[k] <= m
           U == {n \in Nat : ~Top(n)}
<1>1. Top(0)
  OBVIOUS
<1>2. ASSUME NEW n \in Nat, Top(n) PROVE Top(n + 1)
  <2>1. PICK m \in Int : \A k \in a .. b : k < a + n => f[k] <= m
    BY <1>2
  <2>2. \A k \in a .. b : k < a + (n + 1) => k < a + n \/ k = a + n
    OBVIOUS
  <2>3. CASE a + n \in a .. b
    <3>1. f[a + n] \in Int
      BY <2>3
    <3>2. PICK t \in Int : m <= t /\ f[a + n] <= t
      BY <3>1, AboveBoth
    <3>3. \A k \in a .. b : k < a + (n + 1) => f[k] <= t
      <4>1. SUFFICES ASSUME NEW k \in a .. b, k < a + (n + 1) PROVE f[k] <= t
        OBVIOUS
      <4>2. CASE k = a + n
        BY <3>2, <4>2
      <4>3. CASE k < a + n
        <5>1. f[k] <= m /\ f[k] \in Int
          BY <2>1, <4>3
        <5>2. QED
          BY <3>2, <5>1
      <4>4. QED
        BY <2>2, <4>1, <4>2, <4>3
    <3>4. QED
      BY <3>3
  <2>4. CASE a + n \notin a .. b
    <3>1. \A k \in a .. b : k < a + (n + 1) => f[k] <= m
      BY <2>1, <2>2, <2>4
    <3>2. QED
      BY <3>1
  <2>5. QED
    BY <2>3, <2>4
<1> HIDE DEF Top
<1>3. \A n \in Nat : Top(n)
  <2>1. SUFFICES ASSUME U # {} PROVE FALSE
    OBVIOUS
  <2>2. PICK n \in U : \A j \in U : n <= j
    <3>1. U \subseteq Nat
      OBVIOUS
    <3>2. QED
      BY <2>1, <3>1, LeastNatural
  <2>3. n \in Nat /\ ~Top(n)
    BY <2>2
  <2>4. n # 0
    BY <1>1, <2>3
  <2>5. n - 1 \in Nat /\ (n - 1) + 1 = n /\ ~(n <= n - 1)
    BY <2>3, <2>4
  <2>6. Top(n - 1)
    BY <2>2, <2>5
  <2>7. Top((n - 1) + 1)
    BY <1>2, <2>5, <2>6
  <2>8. QED
    BY <2>3, <2>5, <2>7
<1>4. CASE b < a
  BY <1>4
<1>5. CASE a <= b
  <2>1. b + 1 - a \in Nat /\ \A k \in a .. b : k < a + (b + 1 - a)
    BY <1>5
  <2>2. Top(b + 1 - a)
    BY <1>3, <2>1
  <2>3. QED
    BY <2>1, <2>2 DEF Top
<1>6. QED
  BY <1>4, <1>5

(* An upper bound that is a member is the maximum.                         *)
LEMMA MaxIs ==
  ASSUME NEW S, S \subseteq Int, NEW x \in S, \A y \in S : y <= x
  PROVE  Max(S) = x
<1>1. \A y \in S : x >= y
  OBVIOUS
<1>2. Max(S) \in S /\ \A y \in S : Max(S) >= y
  BY <1>1 DEF Max
<1>3. Max(S) \in Int /\ x \in Int /\ Max(S) >= x /\ Max(S) <= x
  BY <1>2
<1>4. QED
  BY <1>3

(* A bounded set of numbers has a maximum.                                 *)
LEMMA MaxExists ==
  ASSUME NEW S, S \subseteq Int, S # {}, NEW m \in Int, \A x \in S : x <= m
  PROVE  Max(S) \in S /\ \A x \in S : x <= Max(S)
<1> DEFINE D == {m - x : x \in S}
<1>1. D \subseteq Nat /\ D # {}
  <2>1. \A x \in S : x \in Int /\ m - x \in Nat
    OBVIOUS
  <2>2. QED
    BY <2>1
<1>2. PICK d \in D : \A e \in D : d <= e
  BY <1>1, LeastNatural
<1>3. PICK x \in S : d = m - x
  BY <1>2
<1>4. \A y \in S : y <= x
  <2>1. SUFFICES ASSUME NEW y \in S PROVE y <= x
    OBVIOUS
  <2>2. m - y \in D
    OBVIOUS
  <2> HIDE DEF D
  <2>3. d <= m - y
    BY <1>2, <2>2
  <2>4. x \in Int /\ y \in Int
    OBVIOUS
  <2>5. QED
    BY <1>3, <2>3, <2>4
<1> HIDE DEF D
<1>5. Max(S) = x
  BY <1>4, MaxIs
<1>6. QED
  BY <1>4, <1>5

(* So does the image of an interval.                                       *)
LEMMA MaxOver ==
  ASSUME NEW a \in Int, NEW b \in Int, a <= b, NEW f \in [a .. b -> Int],
         NEW S, S = {f[k] : k \in a .. b}
  PROVE  /\ S \subseteq Int /\ Max(S) \in S /\ \A x \in S : x <= Max(S)
<1>1. PICK m \in Int : \A k \in a .. b : f[k] <= m
  BY Bounded
<1>2. S \subseteq Int /\ S # {} /\ \A x \in S : x <= m
  BY <1>1
<1>3. QED
  BY <1>2, MaxExists

(* One step of the recursion of Iterates, and the lists of n steps         *)
NextIterate(f) ==
  [c \in Cells |-> (f[(c + ARR_SIZE - 1) % ARR_SIZE] + f[(c + 1) % ARR_SIZE]) \div 2]

IteratesTo(w, n) ==
  {f \in [0 .. n -> [Cells -> Int]] :
     f[0] = w /\ \A m \in 1 .. n : f[m] = NextIterate(f[m - 1])}

(* The next iterate is an array of numbers, too.                           *)
LEMMA NextIterateType ==
  ASSUME NEW f \in [Cells -> Int]
  PROVE  NextIterate(f) \in [Cells -> Int]
<1>1. \A c \in Cells : (c + ARR_SIZE - 1) % ARR_SIZE \in Cells /\ (c + 1) % ARR_SIZE \in Cells
  BY JacobiAssumption DEF Cells
<1>2. QED
  BY <1>1 DEF NextIterate

(* There is a list of the first n iterates for every n.                    *)
LEMMA IteratesExist ==
  ASSUME NEW w \in [Cells -> Int], NEW n \in Nat
  PROVE  IteratesTo(w, n) # {}
<1> DEFINE U == {k \in Nat : IteratesTo(w, k) = {}}
<1>1. SUFFICES ASSUME U # {} PROVE FALSE
  OBVIOUS
<1>2. PICK k \in U : \A j \in U : k <= j
  <2>1. U \subseteq Nat
    OBVIOUS
  <2>2. QED
    BY <1>1, <2>1, LeastNatural
<1>3. k # 0
  <2>1. [j \in 0 .. 0 |-> w] \in IteratesTo(w, 0)
    BY DEF IteratesTo
  <2>2. QED
    BY <1>2, <2>1
<1>4. k - 1 \in Nat /\ k - 1 \notin U
  BY <1>2, <1>3
<1>5. PICK f : f \in IteratesTo(w, k - 1)
  BY <1>4
<1>6. /\ f \in [0 .. k - 1 -> [Cells -> Int]] /\ f[0] = w
      /\ \A m \in 1 .. k - 1 : f[m] = NextIterate(f[m - 1])
  BY <1>5 DEF IteratesTo
<1> DEFINE e == [j \in 0 .. k |-> IF j = k THEN NextIterate(f[k - 1]) ELSE f[j]]
<1>7. e \in [0 .. k -> [Cells -> Int]]
  <2>1. NextIterate(f[k - 1]) \in [Cells -> Int]
    BY <1>4, <1>6, NextIterateType
  <2>2. \A j \in 0 .. k : j = k \/ j \in 0 .. k - 1
    BY <1>4
  <2>3. QED
    BY <1>6, <2>1, <2>2
<1>8. e[0] = w
  BY <1>3, <1>4, <1>6
<1>9. \A m \in 1 .. k : e[m] = NextIterate(e[m - 1])
  <2>1. SUFFICES ASSUME NEW m \in 1 .. k PROVE e[m] = NextIterate(e[m - 1])
    OBVIOUS
  <2>2. m - 1 \in 0 .. k /\ m - 1 # k /\ m \in 0 .. k
    BY <1>4
  <2>3. e[m - 1] = f[m - 1]
    BY <2>2
  <2>4. CASE m = k
    BY <2>2, <2>3, <2>4
  <2>5. CASE m # k
    <3>1. m \in 1 .. k - 1
      BY <1>4, <2>5
    <3>2. e[m] = f[m]
      BY <2>2, <2>5
    <3>3. QED
      BY <1>6, <2>3, <3>1, <3>2
  <2>6. QED
    BY <2>4, <2>5
<1>10. e \in IteratesTo(w, k)
  BY <1>7, <1>8, <1>9 DEF IteratesTo
<1>11. QED
  BY <1>2, <1>10

(* The iterates of the reference satisfy their recursion.                  *)
LEMMA IteratesEquation ==
  ASSUME NEW w \in Inputs
  PROVE  /\ Iterates[w] \in [0 .. MAX_ITER + 1 -> [Cells -> Int]]
         /\ Iterates[w][0] = w
         /\ \A n \in 0 .. MAX_ITER : Iterates[w][n + 1] = NextIterate(Iterates[w][n])
<1> DEFINE Equation(g) ==
      g = [n \in 0 .. MAX_ITER + 1 |->
             IF n = 0 THEN w
             ELSE [c \in Cells |-> (g[n - 1][(c + ARR_SIZE - 1) % ARR_SIZE]
                                      + g[n - 1][(c + 1) % ARR_SIZE]) \div 2]]
<1>1. w \in [Cells -> Int] /\ MAX_ITER + 1 \in Nat
  BY JacobiAssumption
<1>2. PICK f : f \in IteratesTo(w, MAX_ITER + 1)
  BY <1>1, IteratesExist
<1>3. Equation(f)
  <2>1. /\ f \in [0 .. MAX_ITER + 1 -> [Cells -> Int]] /\ f[0] = w
        /\ \A m \in 1 .. MAX_ITER + 1 : f[m] = NextIterate(f[m - 1])
    BY <1>2 DEF IteratesTo
  <2>2. \A m \in 0 .. MAX_ITER + 1 : m = 0 \/ m \in 1 .. MAX_ITER + 1
    BY <1>1
  <2>3. \A m \in 0 .. MAX_ITER + 1 : f[m] = IF m = 0 THEN w ELSE NextIterate(f[m - 1])
    BY <2>1, <2>2
  <2>4. QED
    BY <2>1, <2>3 DEF NextIterate
<1>4. Equation(Iterates[w])
  <2>1. \E g : Equation(g)
    BY <1>3
  <2>2. QED
    BY <2>1 DEF Iterates
<1> HIDE DEF Equation
<1>5. Iterates[w] = [n \in 0 .. MAX_ITER + 1 |->
                       IF n = 0 THEN w ELSE NextIterate(Iterates[w][n - 1])]
  BY <1>4 DEF Equation, NextIterate
<1>6. /\ DOMAIN Iterates[w] = 0 .. MAX_ITER + 1
      /\ \A n \in 0 .. MAX_ITER + 1 :
           Iterates[w][n] = IF n = 0 THEN w ELSE NextIterate(Iterates[w][n - 1])
  BY <1>5
<1>7. Iterates[w][0] = w
  BY <1>1, <1>6
<1>8. ASSUME NEW n \in 0 .. MAX_ITER
      PROVE  Iterates[w][n + 1] = NextIterate(Iterates[w][n])
  <2>1. n + 1 \in 0 .. MAX_ITER + 1 /\ n + 1 # 0 /\ (n + 1) - 1 = n
    BY JacobiAssumption
  <2>2. QED
    BY <1>6, <2>1
<1>9. \A n \in 0 .. MAX_ITER + 1 : Iterates[w][n] \in [Cells -> Int]
  <2> DEFINE U == {n \in Nat : n <= MAX_ITER + 1 /\ Iterates[w][n] \notin [Cells -> Int]}
  <2>1. SUFFICES ASSUME U # {} PROVE FALSE
    BY <1>1
  <2>2. PICK k \in U : \A j \in U : k <= j
    <3>1. U \subseteq Nat
      OBVIOUS
    <3>2. QED
      BY <2>1, <3>1, LeastNatural
  <2>3. k # 0
    BY <1>1, <1>7, <2>2
  <2>4. k - 1 \in Nat /\ k - 1 \notin U /\ k - 1 <= MAX_ITER + 1 /\ k - 1 \in 0 .. MAX_ITER
    <3>1. k \in Nat /\ k <= MAX_ITER + 1 /\ MAX_ITER \in Nat
      BY <2>2, JacobiAssumption
    <3>2. k - 1 \in Nat /\ k - 1 <= MAX_ITER + 1 /\ k - 1 \in 0 .. MAX_ITER /\ ~(k <= k - 1)
      BY <2>3, <3>1
    <3>3. QED
      BY <2>2, <3>2
  <2>5. Iterates[w][k - 1] \in [Cells -> Int]
    BY <2>4
  <2>6. Iterates[w][(k - 1) + 1] \in [Cells -> Int]
    BY <1>8, <2>4, <2>5, NextIterateType
  <2>7. (k - 1) + 1 = k
    BY <2>2
  <2>8. QED
    BY <2>2, <2>6, <2>7
<1>10. Iterates[w] \in [0 .. MAX_ITER + 1 -> [Cells -> Int]]
  <2>1. Iterates[w] = [n \in 0 .. MAX_ITER + 1 |-> Iterates[w][n]]
    BY <1>5
  <2>2. QED
    BY <1>9, <2>1
<1>11. QED
  BY <1>7, <1>8, <1>10

-----------------------------------------------------------------------------
(* Where the cells of the parts are on the ring                            *)
LEMMA DivMod ==
  ASSUME NEW a \in Int, NEW n \in Int, n > 0
  PROVE  a \div n \in Int /\ a % n \in 0 .. n - 1 /\ a = n * (a \div n) + (a % n)
<1>1. a = n * (a \div n) + (a % n)
  BY SMTT(30)
<1>2. a \div n \in Int /\ a % n \in 0 .. n - 1
  OBVIOUS
<1>3. QED
  BY <1>1, <1>2

(* A number that n divides is n times the quotient.                        *)
LEMMA Divided ==
  ASSUME NEW a \in Nat \ {0}, NEW n \in Nat \ {0}, a % n = 0, NEW s, s = a \div n
  PROVE  s \in Nat \ {0} /\ n * s = a
<1>1. s \in Int /\ a = n * s + (a % n)
  BY DivMod
<1>2. n * s = a
  BY <1>1
<1>3. s > 0
  BY <1>1, <1>2
<1>4. QED
  BY <1>1, <1>2, <1>3

(* The parts of size s follow each other, n of them.                       *)
LEMMA PartBounds ==
  ASSUME NEW n \in Nat \ {0}, NEW s \in Nat \ {0}, NEW r \in 0 .. n - 1
  PROVE  /\ r * s \in Nat /\ r * s + s <= n * s
         /\ r + 1 < n => r * s + s < n * s /\ (r + 1) * s = r * s + s
         /\ r = n - 1 => r * s + s = n * s
         /\ r > 0 => r * s >= s /\ (r - 1) * s = r * s - s
         /\ r = 0 => r * s = 0
<1>1. (r + 1) * s = r * s + s /\ (r - 1) * s = r * s - s /\ r * s \in Nat /\ n * s \in Nat
  OBVIOUS
<1>2. (n - 1 - r) * s >= 0 /\ (n - 1 - r) * s = n * s - (r + 1) * s
  OBVIOUS
<1>3. r + 1 < n => (n - 1 - r) * s >= s
  <2>1. SUFFICES ASSUME r + 1 < n PROVE (n - 1 - r) * s >= s
    OBVIOUS
  <2>2. (n - 2 - r) * s >= 0 /\ (n - 1 - r) * s = (n - 2 - r) * s + s
    BY <2>1
  <2>3. (n - 2 - r) * s \in Int
    OBVIOUS
  <2>4. QED
    BY <2>2, <2>3
<1>4. r = n - 1 => (n - 1 - r) * s = 0
  OBVIOUS
<1>5. r > 0 => (r - 1) * s >= 0
  OBVIOUS
<1>6. (n - 1 - r) * s \in Int /\ (r - 1) * s \in Int
  OBVIOUS
<1>7. QED
  BY <1>1, <1>2, <1>3, <1>4, <1>5, <1>6

(* Around the end of the ring                                              *)
LEMMA Wrap ==
  ASSUME NEW a \in Nat \ {0}, NEW x \in Int
  PROVE  /\ x \in 0 .. a - 1 => (x + a) % a = x /\ x % a = x
         /\ x = a => (x + a) % a = 0 /\ x % a = 0
         /\ x = -1 => (x + a) % a = a - 1
<1>1. x \in 0 .. a - 1 => (x + a) % a = x /\ x % a = x
  OBVIOUS
<1>2. x = a => (x + a) % a = 0 /\ x % a = 0
  OBVIOUS
<1>3. x = -1 => (x + a) % a = a - 1
  OBVIOUS
<1>4. QED
  BY <1>1, <1>2, <1>3

(* Quotient and remainder locate a cell in its part.                       *)
LEMMA Quotients ==
  ASSUME NEW n \in Nat \ {0}, NEW s \in Nat \ {0}, NEW c \in 0 .. n * s - 1
  PROVE  c \div s \in 0 .. n - 1 /\ c % s \in 0 .. s - 1 /\ c = (c \div s) * s + (c % s)
<1>1. /\ c \in Int /\ c \div s \in Int /\ c % s \in 0 .. s - 1
      /\ c = s * (c \div s) + (c % s)
  <2>1. c \in Int /\ s \in Int /\ s > 0
    OBVIOUS
  <2>2. QED
    BY <2>1, DivMod
<1>2. PICK d \in Int : d = c \div s
  BY <1>1
<1>3. d * s = s * d /\ d * s \in Int
  OBVIOUS
<1>4. d >= 0
  <2>1. SUFFICES ASSUME d <= -1 PROVE FALSE
    OBVIOUS
  <2>2. (-1 - d) * s >= 0 /\ (-1 - d) * s = -s - d * s
    BY <2>1
  <2>3. QED
    BY <1>1, <1>2, <1>3, <2>2
<1>5. d <= n - 1
  <2>1. SUFFICES ASSUME d >= n PROVE FALSE
    OBVIOUS
  <2>2. (d - n) * s >= 0 /\ (d - n) * s = d * s - n * s /\ n * s \in Int
    BY <2>1
  <2>3. QED
    BY <1>1, <1>2, <1>3, <2>2
<1>6. QED
  BY <1>1, <1>2, <1>3, <1>4, <1>5

(* The processes form a ring.                                              *)
LEMMA Neighbours ==
  ASSUME np \in NPs, NEW r \in Ranks
  PROVE  /\ left_process(r) \in Ranks /\ right_process(r) \in Ranks
         /\ left_process(right_process(r)) = r /\ right_process(left_process(r)) = r
         /\ left_process(r) = IF r = 0 THEN np - 1 ELSE r - 1
         /\ right_process(r) = IF r = np - 1 THEN 0 ELSE r + 1
<1>1. np \in Nat \ {0} /\ r \in 0 .. np - 1
  BY JacobiAssumption DEF Ranks
<1>2. \A q \in 0 .. np - 1 : /\ (q + np - 1) % np = IF q = 0 THEN np - 1 ELSE q - 1
                             /\ (q + 1) % np = IF q = np - 1 THEN 0 ELSE q + 1
  <2>1. SUFFICES ASSUME NEW q \in 0 .. np - 1
                 PROVE  /\ (q + np - 1) % np = IF q = 0 THEN np - 1 ELSE q - 1
                        /\ (q + 1) % np = IF q = np - 1 THEN 0 ELSE q + 1
    OBVIOUS
  <2>2. (q + np - 1) = (q - 1) + np /\ q - 1 \in Int /\ q + 1 \in Int
    BY <1>1
  <2>3. ((q - 1) + np) % np = IF q = 0 THEN np - 1 ELSE q - 1
    <3>1. CASE q = 0
      BY <1>1, <2>2, <3>1, Wrap
    <3>2. CASE q # 0
      <4>1. q - 1 \in 0 .. np - 1
        BY <1>1, <2>1, <3>2
      <4>2. QED
        BY <1>1, <2>2, <3>2, <4>1, Wrap
    <3>3. QED
      BY <3>1, <3>2
  <2>4. (q + 1) % np = IF q = np - 1 THEN 0 ELSE q + 1
    <3>1. CASE q = np - 1
      <4>1. q + 1 = np
        BY <1>1, <3>1
      <4>2. QED
        BY <1>1, <2>2, <3>1, <4>1, Wrap
    <3>2. CASE q # np - 1
      <4>1. q + 1 \in 0 .. np - 1
        BY <1>1, <2>1, <3>2
      <4>2. QED
        BY <1>1, <2>2, <3>2, <4>1, Wrap
    <3>3. QED
      BY <3>1, <3>2
  <2>5. QED
    BY <2>2, <2>3, <2>4
<1>3. /\ left_process(r) = IF r = 0 THEN np - 1 ELSE r - 1
      /\ right_process(r) = IF r = np - 1 THEN 0 ELSE r + 1
  BY <1>1, <1>2 DEF left_process, right_process
<1>4. left_process(r) \in 0 .. np - 1 /\ right_process(r) \in 0 .. np - 1
  BY <1>1, <1>3
<1>5. left_process(right_process(r)) = r /\ right_process(left_process(r)) = r
  <2>1. \A q \in 0 .. np - 1 : /\ left_process(q) = IF q = 0 THEN np - 1 ELSE q - 1
                               /\ right_process(q) = IF q = np - 1 THEN 0 ELSE q + 1
    BY <1>2 DEF left_process, right_process
  <2>2. QED
    BY <1>1, <1>3, <1>4, <2>1
<1>6. QED
  BY <1>3, <1>4, <1>5 DEF Ranks

(* When np divides ARR_SIZE, the parts cover the ring.                     *)
LEMMA SizeFacts ==
  ASSUME np \in NPs, ARR_SIZE % np = 0
  PROVE  /\ np \in Nat \ {0} /\ size_per_process \in Nat \ {0}
         /\ np * size_per_process = ARR_SIZE
BY Divided, JacobiAssumption DEF size_per_process

(* The cells of a part are consecutive, its ghosts are cells of others.    *)
LEMMA Geometry ==
  ASSUME np \in NPs, ARR_SIZE % np = 0, NEW r \in Ranks
  PROVE  /\ Part(r) = RingCell(r, 1) .. RingCell(r, size_per_process)
         /\ RingCell(r, 1) <= RingCell(r, size_per_process)
         /\ \A k \in 1 .. size_per_process :
              /\ RingCell(r, k) = RingCell(r, 1) + (k - 1) /\ RingCell(r, k) \in Cells
              /\ RingCell(r, k - 1) = (RingCell(r, k) + ARR_SIZE - 1) % ARR_SIZE
              /\ RingCell(r, k + 1) = (RingCell(r, k) + 1) % ARR_SIZE
         /\ RingCell(r, size_per_process + 1) = RingCell(right_process(r), 1)
         /\ RingCell(r, 0) = RingCell(left_process(r), size_per_process)
<1>1. PICK n \in Nat \ {0} : n = np
  BY SizeFacts
<1>2. PICK s \in Nat \ {0} : s = size_per_process
  BY SizeFacts
<1>3. PICK a \in Nat \ {0} : a = ARR_SIZE
  BY JacobiAssumption
<1>4. n * s = a /\ r \in 0 .. n - 1
  BY <1>1, <1>2, <1>3, SizeFacts DEF Ranks
<1> DEFINE cell(q, k) == (q * s + k - 1 + a) % a
<1>5. ASSUME NEW q \in 0 .. n - 1
      PROVE  \A k \in 1 .. s : cell(q, k) = q * s + k - 1 /\ q * s + k - 1 \in 0 .. a - 1
  <2>1. q * s \in Nat /\ q * s + s <= n * s
    BY <1>5, PartBounds
  <2>2. SUFFICES ASSUME NEW k \in 1 .. s
                 PROVE  cell(q, k) = q * s + k - 1 /\ q * s + k - 1 \in 0 .. a - 1
    OBVIOUS
  <2>3. PICK x \in Int : x = q * s + k - 1
    BY <2>1
  <2>4. x \in 0 .. a - 1
    BY <1>4, <2>1, <2>3
  <2>5. (x + a) % a = x
    BY <2>4, Wrap
  <2>6. QED
    BY <2>3, <2>4, <2>5
<1>6. cell(r, s + 1) = IF r = n - 1 THEN 0 ELSE r * s + s
  <2>1. /\ r * s \in Nat /\ r * s + s <= n * s
        /\ r + 1 < n => r * s + s < n * s
        /\ r = n - 1 => r * s + s = n * s
    BY <1>4, PartBounds
  <2>2. PICK x \in Int : x = r * s + s
    BY <2>1
  <2>3. r * s + (s + 1) - 1 = x
    BY <2>1, <2>2
  <2>4. CASE r = n - 1
    <3>1. x = a
      BY <1>4, <2>1, <2>2, <2>4
    <3>2. (x + a) % a = 0
      BY <3>1, Wrap
    <3>3. QED
      BY <2>3, <2>4, <3>2
  <2>5. CASE r # n - 1
    <3>1. x \in 0 .. a - 1
      BY <1>4, <2>1, <2>2, <2>5
    <3>2. (x + a) % a = x
      BY <3>1, Wrap
    <3>3. QED
      BY <2>2, <2>3, <2>5, <3>2
  <2>6. QED
    BY <2>4, <2>5
<1>7. cell(r, 0) = IF r = 0 THEN a - 1 ELSE r * s - 1
  <2>1. r * s \in Nat /\ r * s + s <= n * s /\ (r > 0 => r * s >= s) /\ (r = 0 => r * s = 0)
    BY <1>4, PartBounds
  <2>2. PICK x \in Int : x = r * s - 1
    BY <2>1
  <2>3. r * s + 0 - 1 = x
    BY <2>1, <2>2
  <2>4. CASE r = 0
    <3>1. x = -1
      BY <2>1, <2>2, <2>4
    <3>2. (x + a) % a = a - 1
      BY <3>1, Wrap
    <3>3. QED
      BY <2>3, <2>4, <3>2
  <2>5. CASE r # 0
    <3>1. x \in 0 .. a - 1
      BY <1>4, <2>1, <2>2, <2>5
    <3>2. (x + a) % a = x
      BY <3>1, Wrap
    <3>3. QED
      BY <2>2, <2>3, <2>5, <3>2
  <2>6. QED
    BY <2>4, <2>5
<1> HIDE DEF cell
<1>8. \A q \in 0 .. n - 1 : \A k : RingCell(q, k) = cell(q, k)
  BY <1>1, <1>2, <1>3 DEF RingCell, cell
<1>9. PICK b \in Nat : b = r * s
  BY <1>4, PartBounds
<1>10. \A k \in 1 .. s : cell(r, k) = b + k - 1 /\ b + k - 1 \in 0 .. a - 1
  BY <1>4, <1>5, <1>9
<1>11. cell(r, 1) = b /\ cell(r, s) = b + s - 1 /\ Part(r) = b .. b + s - 1
  BY <1>2, <1>9, <1>10 DEF Part
<1>12. ASSUME NEW k \in 1 .. s
       PROVE  /\ cell(r, k - 1) = (cell(r, k) + a - 1) % a
              /\ cell(r, k + 1) = (cell(r, k) + 1) % a
  <2>1. PICK x \in 0 .. a - 1 : x = cell(r, k) /\ x = b + k - 1
    BY <1>10, <1>12
  <2>2. /\ x + a - 1 = b + (k - 1) - 1 + a
        /\ cell(r, k - 1) = (b + (k - 1) - 1 + a) % a
    BY <1>9, <2>1 DEF cell
  <2>3. cell(r, k + 1) = (x + 1) % a
    <3>1. cell(r, k + 1) = ((x + 1) + a) % a
      <4>1. b + (k + 1) - 1 + a = (x + 1) + a
        BY <2>1
      <4>2. QED
        BY <1>9, <4>1 DEF cell
    <3>2. PICK y \in Int : y = x + 1
      OBVIOUS
    <3>3. y \in 0 .. a - 1 \/ y = a
      BY <2>1, <3>2
    <3>4. (y + a) % a = y % a
      <4>1. y \in 0 .. a - 1 => (y + a) % a = y % a
        BY Wrap
      <4>2. y = a => (y + a) % a = y % a
        BY Wrap
      <4>3. QED
        BY <3>3, <4>1, <4>2
    <3>5. QED
      BY <3>1, <3>2, <3>4
  <2>4. QED
    BY <2>1, <2>2, <2>3
<1>13. cell(r, s + 1) = cell(right_process(r), 1)
  <2>1. PICK q \in 0 .. n - 1 : q = right_process(r) /\ q = IF r = n - 1 THEN 0 ELSE r + 1
    BY <1>1, <1>4, Neighbours DEF Ranks
  <2>2. cell(q, 1) = q * s + 1 - 1 /\ q * s \in Nat
    BY <1>5, PartBounds
  <2>3. CASE r = n - 1
    <3>1. q = 0 /\ q * s = 0
      BY <2>1, <2>3
    <3>2. QED
      BY <1>6, <2>1, <2>2, <2>3, <3>1
  <2>4. CASE r # n - 1
    <3>1. q = r + 1 /\ (r + 1) * s = r * s + s
      BY <1>4, <2>1, <2>4, PartBounds
    <3>2. QED
      BY <1>6, <2>1, <2>2, <2>4, <3>1
  <2>5. QED
    BY <2>3, <2>4
<1>14. cell(r, 0) = cell(left_process(r), s)
  <2>1. PICK q \in 0 .. n - 1 : q = left_process(r) /\ q = IF r = 0 THEN n - 1 ELSE r - 1
    BY <1>1, <1>4, Neighbours DEF Ranks
  <2>2. cell(q, s) = q * s + s - 1 /\ q * s \in Nat
    BY <1>5, PartBounds
  <2>3. CASE r = 0
    <3>1. q = n - 1 /\ q * s + s = n * s
      BY <2>1, <2>3, PartBounds
    <3>2. QED
      BY <1>4, <1>7, <2>1, <2>2, <2>3, <3>1
  <2>4. CASE r # 0
    <3>1. q = r - 1 /\ (r - 1) * s = r * s - s /\ r * s \in Nat
      BY <1>4, <2>1, <2>4, PartBounds
    <3>2. QED
      BY <1>7, <2>1, <2>2, <2>4, <3>1
  <2>5. QED
    BY <2>3, <2>4
<1>15. /\ left_process(r) \in 0 .. n - 1 /\ right_process(r) \in 0 .. n - 1
  BY <1>1, <1>4, Neighbours DEF Ranks
<1>16. \A k \in 1 .. s : RingCell(r, k) = RingCell(r, 1) + (k - 1) /\ RingCell(r, k) \in Cells
  <2>1. \A k \in 1 .. s : RingCell(r, k) = b + k - 1 /\ b + k - 1 \in 0 .. a - 1
    BY <1>4, <1>8, <1>10
  <2>2. RingCell(r, 1) = b
    BY <1>4, <1>8, <1>11
  <2>3. QED
    BY <1>3, <2>1, <2>2 DEF Cells
<1>17. \A k \in 1 .. s :
              /\ RingCell(r, k - 1) = (RingCell(r, k) + a - 1) % a
              /\ RingCell(r, k + 1) = (RingCell(r, k) + 1) % a
  BY <1>4, <1>8, <1>12
<1>18. Part(r) = RingCell(r, 1) .. RingCell(r, s) /\ RingCell(r, 1) <= RingCell(r, s)
  <2>1. RingCell(r, 1) = b /\ RingCell(r, s) = b + s - 1
    BY <1>4, <1>8, <1>11
  <2>2. QED
    BY <1>11, <2>1
<1>19. /\ RingCell(r, s + 1) = RingCell(right_process(r), 1)
       /\ RingCell(r, 0) = RingCell(left_process(r), s)
  BY <1>4, <1>8, <1>13, <1>14, <1>15
<1>20. QED
  BY <1>2, <1>3, <1>16, <1>17, <1>18, <1>19

(* Each cell is in one part, where MPI_Gather puts it.                     *)
LEMMA Locating ==
  ASSUME np \in NPs, ARR_SIZE % np = 0, NEW c \in Cells
  PROVE  /\ c \div size_per_process \in Ranks
         /\ 1 + (c % size_per_process) \in 1 .. size_per_process
         /\ RingCell(c \div size_per_process, 1 + (c % size_per_process)) = c
         /\ c \in Part(c \div size_per_process)
<1>1. PICK s \in Nat \ {0} : s = size_per_process
  BY SizeFacts
<1>2. np \in Nat \ {0} /\ np * s = ARR_SIZE /\ c \in 0 .. np * s - 1
  BY <1>1, SizeFacts DEF Cells
<1>3. PICK q \in 0 .. np - 1 : q = c \div s
  BY <1>2, Quotients
<1>4. PICK k \in 0 .. s - 1 : k = c % s
  BY <1>2, Quotients
<1>5. c = q * s + k /\ q * s \in Nat /\ c \in Int
  BY <1>2, <1>3, <1>4, Quotients, PartBounds
<1>6. q \in Ranks /\ 1 + k \in 1 .. s
  BY <1>3, <1>4 DEF Ranks
<1>7. c \in Part(q)
  BY <1>1, <1>5, <1>4 DEF Part
<1>8. RingCell(q, 1 + k) = c
  <2>1. RingCell(q, 1 + k) = RingCell(q, 1) + ((1 + k) - 1) /\ RingCell(q, 1) \in Int
    <3>1. /\ \A j \in 1 .. s : RingCell(q, j) = RingCell(q, 1) + (j - 1) /\ RingCell(q, j) \in Cells
      BY <1>1, <1>6, Geometry
    <3>2. 1 \in 1 .. s
      OBVIOUS
    <3>3. QED
      BY <1>6, <3>1, <3>2 DEF Cells
  <2>2. Part(q) = RingCell(q, 1) .. RingCell(q, s) /\ RingCell(q, 1) <= RingCell(q, s)
    BY <1>1, <1>6, Geometry
  <2>3. Part(q) = q * s .. q * s + s - 1
    BY <1>1 DEF Part
  <2>4. RingCell(q, s) \in Int
    <3>1. s \in 1 .. s /\ \A j \in 1 .. s : RingCell(q, j) \in Cells
      BY <1>1, <1>6, Geometry
    <3>2. QED
      BY <3>1 DEF Cells
  <2>5. RingCell(q, 1) = q * s
    <3>1. PICK x \in Int, y \in Int : x = RingCell(q, 1) /\ y = RingCell(q, s)
      BY <2>1, <2>4
    <3>2. PICK u \in Int : u = q * s
      BY <1>5
    <3>3. x .. y = u .. u + s - 1 /\ x <= y
      BY <2>2, <2>3, <3>1, <3>2
    <3>4. x \in u .. u + s - 1 /\ u \in x .. y
      <4>1. x \in x .. y /\ u \in u .. u + s - 1
        BY <3>3
      <4>2. QED
        BY <3>3, <4>1
    <3>5. QED
      BY <3>1, <3>2, <3>4
  <2>6. QED
    BY <1>4, <1>5, <2>1, <2>5
<1>9. QED
  BY <1>1, <1>3, <1>4, <1>6, <1>7, <1>8

-----------------------------------------------------------------------------
(* The change of an iteration, in a part and in the whole ring             *)
CellChange(w, n, c) == Abs(Iterates[w][n][c] - Iterates[w][n - 1][c])

(* Absolute values are natural numbers.                                    *)
LEMMA AbsType == ASSUME NEW x \in Int PROVE Abs(x) \in Nat
BY DEF Abs

(* Changes are natural numbers.                                            *)
LEMMA CellChangeType ==
  ASSUME NEW w \in Inputs, NEW n \in 1 .. MAX_ITER + 1, NEW c \in Cells
  PROVE  CellChange(w, n, c) \in Nat
<1>1. n \in 0 .. MAX_ITER + 1 /\ n - 1 \in 0 .. MAX_ITER + 1
  BY JacobiAssumption
<1>2. Iterates[w][n] \in [Cells -> Int] /\ Iterates[w][n - 1] \in [Cells -> Int]
  BY <1>1, IteratesEquation
<1>3. Iterates[w][n][c] - Iterates[w][n - 1][c] \in Int
  BY <1>2
<1>4. QED
  BY <1>3, AbsType DEF CellChange

(* The largest change in an interval of cells is the change of a cell.     *)
LEMMA ChangeOver ==
  ASSUME NEW w \in Inputs, NEW n \in 1 .. MAX_ITER + 1,
         NEW a \in Cells, NEW b \in Cells, a <= b
  PROVE  /\ ChangeIn(w, n, a .. b) \in Nat
         /\ \E c \in a .. b : ChangeIn(w, n, a .. b) = CellChange(w, n, c)
         /\ \A c \in a .. b : CellChange(w, n, c) <= ChangeIn(w, n, a .. b)
<1>1. a \in Int /\ b \in Int /\ \A c \in a .. b : c \in Cells
  BY JacobiAssumption DEF Cells
<1> DEFINE f == [c \in a .. b |-> CellChange(w, n, c)]
           S == {f[c] : c \in a .. b}
<1>2. \A c \in a .. b : f[c] = CellChange(w, n, c) /\ f[c] \in Nat
  BY <1>1, CellChangeType
<1>3. f \in [a .. b -> Int]
  BY <1>2
<1>4. Max(S) \in S /\ \A x \in S : x <= Max(S)
  BY <1>1, <1>3, MaxOver
<1>5. ChangeIn(w, n, a .. b) = Max(S)
  <2>1. S = {Abs(Iterates[w][n][c] - Iterates[w][n - 1][c]) : c \in a .. b}
    BY <1>2 DEF CellChange
  <2>2. QED
    BY <2>1 DEF ChangeIn
<1> HIDE DEF f
<1>6. QED
  BY <1>2, <1>4, <1>5

(* The same for the whole ring                                             *)
LEMMA ChangeFacts ==
  ASSUME NEW w \in Inputs, NEW n \in 1 .. MAX_ITER + 1
  PROVE  /\ Change[w][n] \in Nat
         /\ \E c \in Cells : Change[w][n] = CellChange(w, n, c)
         /\ \A c \in Cells : CellChange(w, n, c) <= Change[w][n]
<1>1. Change[w][n] = ChangeIn(w, n, Cells)
  BY DEF Change
<1>2. Cells = 0 .. ARR_SIZE - 1 /\ 0 \in Cells /\ ARR_SIZE - 1 \in Cells /\ 0 <= ARR_SIZE - 1
  BY JacobiAssumption DEF Cells
<1>3. QED
  BY <1>1, <1>2, ChangeOver

(* The same for a part                                                     *)
LEMMA PartChange ==
  ASSUME np \in NPs, ARR_SIZE % np = 0, NEW w \in Inputs, NEW n \in 1 .. MAX_ITER + 1,
         NEW r \in Ranks
  PROVE  /\ ChangeIn(w, n, Part(r)) \in Nat
         /\ \E c \in Cells : ChangeIn(w, n, Part(r)) = CellChange(w, n, c)
         /\ \A c \in Part(r) : CellChange(w, n, c) <= ChangeIn(w, n, Part(r))
<1>1. 1 \in 1 .. size_per_process /\ size_per_process \in 1 .. size_per_process
  BY SizeFacts
<1>2. /\ RingCell(r, 1) \in Cells /\ RingCell(r, size_per_process) \in Cells
      /\ Part(r) = RingCell(r, 1) .. RingCell(r, size_per_process)
      /\ RingCell(r, 1) <= RingCell(r, size_per_process)
  BY <1>1, Geometry
<1>3. \A c \in Part(r) : c \in Cells
  BY <1>2, JacobiAssumption DEF Cells
<1>4. QED
  BY <1>2, <1>3, ChangeOver

(* The largest of the errors of all parts is the error of the whole ring.  *)
LEMMA LargestError ==
  ASSUME np \in NPs, ARR_SIZE % np = 0, NEW w \in Inputs, NEW n \in 1 .. MAX_ITER + 1,
         NEW e, \A r \in Ranks : e[r] = ChangeIn(w, n, Part(r))
  PROVE  Max({e[r] : r \in Ranks}) = Change[w][n]
<1> DEFINE S == {e[r] : r \in Ranks}
<1>1. Change[w][n] \in Nat /\ \A c \in Cells : CellChange(w, n, c) <= Change[w][n]
  BY ChangeFacts
<1>2. \A r \in Ranks : e[r] \in Nat /\ e[r] <= Change[w][n]
  BY <1>1, PartChange
<1>3. PICK c \in Cells : Change[w][n] = CellChange(w, n, c)
  BY ChangeFacts
<1>4. PICK r \in Ranks : c \in Part(r)
  BY Locating
<1>5. Change[w][n] <= e[r] /\ e[r] \in Nat
  BY <1>2, <1>3, <1>4, PartChange
<1>6. e[r] = Change[w][n]
  BY <1>1, <1>2, <1>5
<1>7. S \subseteq Int /\ Change[w][n] \in S /\ \A y \in S : y <= Change[w][n]
  BY <1>2, <1>6
<1>8. QED
  BY <1>7, MaxIs

(* LastIteration is the first that one of the two tests of the loop ends.  *)
LEMMA LastIterationFacts ==
  ASSUME input \in Inputs
  PROVE  /\ LastIteration \in 1 .. MAX_ITER + 1
         /\ \A n \in 1 .. LastIteration :
              (n > MAX_ITER \/ Change[input][n] <= ACCEPTABLE) <=> n = LastIteration
<1> DEFINE Good == {n \in 1 .. MAX_ITER + 1 : Change[input][n] <= ACCEPTABLE}
           S == {MAX_ITER + 1} \cup Good
<1>1. MAX_ITER + 1 \in Nat /\ MAX_ITER \in Nat /\ MAX_ITER + 1 \in 1 .. MAX_ITER + 1
  BY JacobiAssumption
<1>2. S \subseteq 1 .. MAX_ITER + 1 /\ MAX_ITER + 1 \in S
  BY <1>1
<1>3. S \subseteq Nat /\ S # {}
  BY <1>2
<1>4. \E m \in S : \A k \in S : m <= k
  BY <1>3, LeastNatural
<1>5. LastIteration = CHOOSE m \in S : \A k \in S : m <= k
  BY DEF LastIteration, Min
<1>6. LastIteration \in S /\ \A k \in S : LastIteration <= k
  BY <1>4, <1>5
<1>7. LastIteration \in 1 .. MAX_ITER + 1
  BY <1>2, <1>6
<1>8. ASSUME NEW n \in 1 .. LastIteration
      PROVE  (n > MAX_ITER \/ Change[input][n] <= ACCEPTABLE) <=> n = LastIteration
  <2>1. n \in 1 .. MAX_ITER + 1 /\ n <= LastIteration
    BY <1>1, <1>7
  <2>2. ASSUME n > MAX_ITER PROVE n = LastIteration
    <3>1. n \in Int /\ LastIteration \in Int /\ LastIteration <= MAX_ITER + 1 /\ n <= LastIteration
      BY <1>1, <1>7, <2>1
    <3>2. QED
      BY <1>1, <2>2, <3>1
  <2>3. ASSUME Change[input][n] <= ACCEPTABLE PROVE n = LastIteration
    <3>1. n \in S
      BY <2>1, <2>3
    <3>2. LastIteration <= n
      BY <1>6, <3>1
    <3>3. QED
      BY <1>7, <2>1, <3>2
  <2>4. ASSUME n = LastIteration PROVE n > MAX_ITER \/ Change[input][n] <= ACCEPTABLE
    BY <1>1, <1>6, <2>4
  <2>5. QED
    BY <2>2, <2>3, <2>4
<1>9. QED
  BY <1>7, <1>8

(* What the invariant says about one process                               *)
LEMMA SameProblem ==
  ASSUME UNCHANGED problem
  PROVE  /\ np' = np /\ input' = input /\ Ranks' = Ranks
         /\ size_per_process' = size_per_process /\ LastIteration' = LastIteration
         /\ \A r : /\ left_process(r)' = left_process(r)
                   /\ right_process(r)' = right_process(r)
                   /\ Part(r)' = Part(r)
         /\ \A r, k : RingCell(r, k)' = RingCell(r, k)
<1>1. np' = np /\ input' = input
  BY DEF problem
<1>2. Ranks' = Ranks /\ size_per_process' = size_per_process
  BY <1>1 DEF Ranks, size_per_process
<1>3. LastIteration' = LastIteration
  BY <1>1 DEF LastIteration
<1>4. QED
  BY <1>1, <1>2, <1>3 DEF left_process, right_process, Part, RingCell

(* The counts of a process are natural numbers.                            *)
LEMMA RankFacts ==
  ASSUME ExchangeInv
  PROVE  /\ orchestrator \in Ranks /\ input \in Inputs /\ np \in NPs
         /\ \A r \in Ranks : pc[r] \in Points /\ Computed(r) \in Nat /\ iterations[r] \in Nat
<1>1. np \in Nat \ {0} /\ input \in Inputs
  BY JacobiAssumption DEF ExchangeInv, TypeOK
<1>2. 0 \in Ranks
  BY <1>1 DEF Ranks
<1>3. \A r \in Ranks : Computed(r) \in Nat
  BY DEF ExchangeInv, TypeOK, Computed
<1>4. QED
  BY <1>1, <1>2, <1>3 DEF ExchangeInv, TypeOK, orchestrator

(* After the broadcast the program is known not to have been aborted.      *)
LEMMA SizesDivide ==
  ASSUME ExchangeInv, NEW r \in Ranks, pc[r] \notin {"read", "bcast", "aborted"}
  PROVE  /\ pc[orchestrator] \notin {"read", "bcast", "aborted"}
         /\ \A q \in Ranks : pc[q] \notin {"read", "aborted"}
         /\ np \in NPs /\ ARR_SIZE % np = 0 /\ size_per_process \in Nat \ {0}
<1>1. orchestrator \in Ranks /\ np \in NPs
  BY RankFacts
<1>2. pc[orchestrator] \notin {"read", "bcast", "aborted"}
  BY <1>1 DEF ExchangeInv, Starting
<1>3. ARR_SIZE % np = 0
  BY <1>2 DEF ExchangeInv, Starting
<1>4. \A q \in Ranks : pc[q] \notin {"read", "aborted"}
  BY <1>1, <1>2 DEF ExchangeInv, Starting
<1>5. QED
  BY <1>1, <1>2, <1>3, <1>4, SizeFacts

(* How often the halves of the exchanges have been taken: nothing is more  *)
(* than one ahead of anything else.                                        *)
LEMMA CountFacts ==
  ASSUME ExchangeInv, NEW r \in Ranks
  PROVE  /\ Computed(r) \in Nat /\ ReceivedLeft(r) \in Nat /\ SentRight(r) \in Nat
         /\ ReceivedRight(r) \in Nat /\ SentLeft(r) \in Nat
         /\ iterations[r] <= Computed(r)
         /\ Computed(r) <= ReceivedLeft(r) /\ ReceivedLeft(r) <= SentRight(r)
         /\ SentRight(r) <= ReceivedRight(r) /\ ReceivedRight(r) <= SentLeft(r)
         /\ SentLeft(r) <= iterations[r] + 1
         /\ \A q \in Ranks : SentLeft(r) <= Computed(q) + 1
         /\ ReceivedRight(left_process(r)) <= SentLeft(r)
         /\ ReceivedLeft(right_process(r)) <= SentRight(r)
<1>1. Computed(r) \in Nat /\ iterations[r] \in Nat /\ \A q \in Ranks : Computed(q) \in Nat
  BY RankFacts
<1>2. /\ Computed(r) = iterations[r] + IF pc[r] = "reduce" THEN 1 ELSE 0
      /\ \A q \in Ranks : iterations[r] <= Computed(q)
  BY DEF ExchangeInv, InStep
<1>3. /\ ReceivedRight(left_process(r)) <= SentLeft(r)
      /\ ReceivedLeft(right_process(r)) <= SentRight(r)
  BY DEF ExchangeInv, MessagesInOrder
<1>4. /\ ReceivedLeft(r) \in Nat /\ SentRight(r) \in Nat
      /\ ReceivedRight(r) \in Nat /\ SentLeft(r) \in Nat
      /\ iterations[r] <= Computed(r)
      /\ Computed(r) <= ReceivedLeft(r) /\ ReceivedLeft(r) <= SentRight(r)
      /\ SentRight(r) <= ReceivedRight(r) /\ ReceivedRight(r) <= SentLeft(r)
      /\ SentLeft(r) <= iterations[r] + 1
  BY <1>1, <1>2 DEF ReceivedLeft, SentRight, ReceivedRight, SentLeft, Taken
<1>5. \A q \in Ranks : SentLeft(r) <= Computed(q) + 1
  BY <1>1, <1>2, <1>4
<1>6. QED
  BY <1>1, <1>3, <1>4, <1>5

-----------------------------------------------------------------------------
(* What a step keeps that leaves the counts of iterations alone            *)
LEMMA InStepKept ==
  ASSUME InStep, UNCHANGED <<problem, local_error, iterations>>,
         \A q \in Ranks : /\ pc'[q] = "reduce" <=> pc[q] = "reduce"
                          /\ pc'[q] \in {"gather", "done"} <=> pc[q] \in {"gather", "done"}
                          /\ Iterating(q) => Iterating(q)'
  PROVE  InStep'
<1>1. Ranks' = Ranks /\ LastIteration' = LastIteration
  BY SameProblem
<1>2. \A q \in Ranks : Computed(q)' = Computed(q) /\ iterations'[q] = iterations[q]
  BY DEF Computed
<1>3. QED
  BY <1>1, <1>2 DEF InStep

(* A step that adds no error keeps the errors.                             *)
LEMMA ErrorsKept ==
  ASSUME ErrorsOfIterates, UNCHANGED <<problem, local_error, iterations, global_error>>
  PROVE  ErrorsOfIterates'
<1>1. Ranks' = Ranks /\ input' = input /\ \A r : Part(r)' = Part(r)
  BY SameProblem
<1>2. \A q \in Ranks : Computed(q)' = Computed(q) /\ iterations'[q] = iterations[q]
  BY DEF Computed
<1>3. QED
  BY <1>1, <1>2 DEF ErrorsOfIterates

(* A step that nobody takes before the scatter keeps what is said of it.   *)
LEMMA StartingKept ==
  ASSUME ExchangeInv, UNCHANGED problem,
         \A q \in Ranks : pc[q] \in {"read", "bcast", "aborted"}
                            \/ pc'[q] \in {"read", "bcast", "aborted"} => pc'[q] = pc[q]
  PROVE  Starting'
<1>1. Ranks' = Ranks /\ np' = np /\ orchestrator \in Ranks
  BY SameProblem, RankFacts
<1>2. Starting
  BY DEF ExchangeInv
<1>3. QED
  BY <1>1, <1>2 DEF Starting, orchestrator

(* The steps of others keep the part of a process.                         *)
LEMMA PartKept ==
  ASSUME NEW q, HoldsPart(q), UNCHANGED problem, pc'[q] = pc[q], local'[q] = local[q],
         local_error'[q] = local_error[q]
  PROVE  HoldsPart(q)'
<1>1. input' = input /\ size_per_process' = size_per_process
      /\ \A k : RingCell(q, k)' = RingCell(q, k)
  BY SameProblem
<1>2. Computed(q)' = Computed(q) /\ (Iterating(q)' <=> Iterating(q))
  BY DEF Computed, Iterating
<1>3. QED
  BY <1>1, <1>2 DEF HoldsPart

(* While someone is not done, process 0 is not, either.                    *)
LEMMA GatheredKept ==
  ASSUME ExchangeInv, UNCHANGED problem, NEW r \in Ranks, pc[r] # "done",
         pc'[orchestrator] = "done" => pc[orchestrator] = "done"
  PROVE  Gathered'
<1>1. pc[orchestrator] # "done"
  BY DEF ExchangeInv, Gathered
<1>2. orchestrator' = orchestrator
  BY DEF orchestrator
<1>3. QED
  BY <1>1, <1>2 DEF Gathered

CountsKept(q) == /\ SentLeft(q)' = SentLeft(q) /\ ReceivedRight(q)' = ReceivedRight(q)
                 /\ SentRight(q)' = SentRight(q) /\ ReceivedLeft(q)' = ReceivedLeft(q)

(* A step that takes no half of an exchange keeps the counts.              *)
LEMMA CountsSame ==
  ASSUME NEW q, local_error'[q] = local_error[q],
         \A l \in {"left", "inner", "right", "compute"} : pc'[q] = l <=> pc[q] = l
  PROVE  CountsKept(q)
<1>1. Computed(q)' = Computed(q)
  BY DEF Computed
<1>2. QED
  BY <1>1 DEF CountsKept, SentLeft, ReceivedRight, SentRight, ReceivedLeft, Taken

(* The counts determine what is under way.                                 *)
LEMMA UnderWayKept ==
  ASSUME UNCHANGED problem, NEW p, NEW q,
         q = left_process(p) => /\ SentLeft(p)' = SentLeft(p)
                                /\ ReceivedRight(q)' = ReceivedRight(q),
         q = right_process(p) => /\ SentRight(p)' = SentRight(p)
                                 /\ ReceivedLeft(q)' = ReceivedLeft(q)
  PROVE  UnderWay(p, q)' = UnderWay(p, q)
<1>1. /\ input' = input /\ size_per_process' = size_per_process
      /\ left_process(p)' = left_process(p) /\ right_process(p)' = right_process(p)
      /\ \A k : RingCell(p, k)' = RingCell(p, k)
  BY SameProblem
<1>2. q = left_process(p) => ToLeft(p)' = ToLeft(p)
  BY <1>1 DEF ToLeft, InFlight
<1>3. q = right_process(p) => ToRight(p)' = ToRight(p)
  BY <1>1 DEF ToRight, InFlight
<1>4. QED
  BY <1>1, <1>2, <1>3 DEF UnderWay

(* The neighbours of a process stay the same.                              *)
LEMMA AtNeighbours ==
  ASSUME UNCHANGED problem, NEW p, NEW l, NEW m, l = left_process(p), m = right_process(p)
  PROVE  /\ ReceivedRight(left_process(p))' = ReceivedRight(l)'
         /\ ReceivedLeft(right_process(p))' = ReceivedLeft(m)'
<1>1. left_process(p)' = l /\ right_process(p)' = m
  BY SameProblem
<1>2. QED
  BY <1>1 DEF ReceivedRight, ReceivedLeft, Taken, Computed

(* If no count changes, the channels must not, either.                     *)
LEMMA MessagesKept ==
  ASSUME ExchangeInv, UNCHANGED <<problem, chan>>, \A q \in Ranks : CountsKept(q)
  PROVE  MessagesInOrder'
<1>1. /\ Ranks' = Ranks
      /\ \A p \in Ranks : /\ left_process(p)' = left_process(p)
                          /\ right_process(p)' = right_process(p)
                          /\ left_process(p) \in Ranks /\ right_process(p) \in Ranks
  BY SameProblem, RankFacts, Neighbours
<1>2. \A p, q \in Ranks : UnderWay(p, q)' = UnderWay(p, q)
  BY UnderWayKept DEF CountsKept
<1>3. ASSUME NEW p \in Ranks
      PROVE  /\ ReceivedRight(left_process(p))' <= SentLeft(p)'
             /\ ReceivedLeft(right_process(p))' <= SentRight(p)'
  <2>1. /\ ReceivedRight(left_process(p)) <= SentLeft(p)
        /\ ReceivedLeft(right_process(p)) <= SentRight(p)
    BY DEF ExchangeInv, MessagesInOrder
  <2>2. PICK l \in Ranks, m \in Ranks : l = left_process(p) /\ m = right_process(p)
    BY <1>1
  <2>3. /\ ReceivedRight(left_process(p))' = ReceivedRight(l)'
        /\ ReceivedLeft(right_process(p))' = ReceivedLeft(m)'
    BY <2>2, AtNeighbours
  <2>4. QED
    BY <2>1, <2>2, <2>3 DEF CountsKept
<1>4. MessagesInOrder
  BY DEF ExchangeInv
<1>5. QED
  BY <1>1, <1>2, <1>3, <1>4 DEF MessagesInOrder

(* Where a part begins                                                     *)
LEMMA FirstCell ==
  ASSUME np \in NPs, ARR_SIZE % np = 0, NEW r \in Ranks
  PROVE  RingCell(r, 1) = r * size_per_process /\ r * size_per_process \in Nat
<1>1. PICK s \in Nat \ {0} : s = size_per_process
  BY SizeFacts
<1>2. PICK n \in Nat \ {0} : n = np /\ n * s = ARR_SIZE
  BY <1>1, SizeFacts
<1>3. r \in 0 .. n - 1
  BY <1>2 DEF Ranks
<1>4. r * s \in Nat /\ r * s + s <= n * s
  BY <1>3, PartBounds
<1>5. PICK x \in Nat : x = r * s
  BY <1>4
<1>6. PICK a \in Nat \ {0} : a = ARR_SIZE
  BY JacobiAssumption
<1>7. (x + a) % a = x
  <2>1. x \in 0 .. a - 1 /\ x \in Int
    BY <1>2, <1>4, <1>5, <1>6
  <2>2. QED
    BY <2>1, Wrap
<1>8. RingCell(r, 1) = (x + a) % a
  <2>1. RingCell(r, 1) = (r * size_per_process + 1 - 1 + ARR_SIZE) % ARR_SIZE
    BY DEF RingCell
  <2>2. r * size_per_process = x
    BY <1>1, <1>5
  <2>3. x + 1 - 1 + a = x + a
    OBVIOUS
  <2>4. QED
    BY <1>6, <2>1, <2>2, <2>3
<1>9. QED
  BY <1>1, <1>5, <1>7, <1>8

-----------------------------------------------------------------------------
(* The steps before the loop (jacobi.cpp:46-76)                            *)
LEMMA TypeKept ==
  ASSUME ExchangeInv, UNCHANGED problem, pc' \in [Ranks -> Points],
         local' \in [Ranks -> [0 .. size_per_process + 1 -> Int]],
         local_error' \in [Ranks -> Seq(Nat)], global_error' \in [Ranks -> Nat],
         iterations' \in [Ranks -> 0 .. MAX_ITER + 1],
         chan' \in [Ranks -> [Ranks -> Seq(Int)]], work' \in [Cells -> Int],
         printed' \in Seq({"Warning", "Converged"})
  PROVE  TypeOK'
BY SameProblem DEF ExchangeInv, TypeOK

(* What Goto does to the points of all processes                           *)
LEMMA GotoStep ==
  ASSUME ExchangeInv, NEW r \in Ranks, NEW here, NEW there \in Points, Goto(r, here, there)
  PROVE  /\ pc[r] = here /\ pc'[r] = there /\ \A q \in Ranks \ {r} : pc'[q] = pc[q]
         /\ pc' \in [Ranks -> Points]
BY DEF ExchangeInv, TypeOK, Goto

(* Process 0 reads the problem, the others wait in the broadcast.          *)
LEMMA ReadProblemStep ==
  ASSUME ExchangeInv, NEW r \in Ranks, ReadProblem(r)
  PROVE  ExchangeInv'
<1>1. /\ pc[r] = "read" /\ pc'[r] = "bcast" /\ \A q \in Ranks \ {r} : pc'[q] = pc[q]
      /\ pc' \in [Ranks -> Points]
      /\ ARR_SIZE % np = 0 /\ UNCHANGED <<problem, local, progress, chan, output>>
  BY GotoStep DEF ReadProblem, Points
<1>2. UNCHANGED <<problem, local, local_error, global_error, iterations, chan, work, printed>>
  BY <1>1 DEF progress, output
<1>3. Ranks' = Ranks /\ np' = np /\ orchestrator \in Ranks
  BY <1>2, SameProblem, RankFacts
<1>4. TypeOK'
  BY <1>1, <1>2, TypeKept DEF ExchangeInv, TypeOK
<1>5. Starting'
  BY <1>1, <1>3 DEF ExchangeInv, Starting, orchestrator
<1>6. InStep'
  BY <1>1, <1>2, InStepKept DEF ExchangeInv, Iterating
<1>7. PartsOfIterates'
  <2>1. \A q \in Ranks : HoldsPart(q)'
    BY <1>1, <1>2, PartKept DEF ExchangeInv, PartsOfIterates, HoldsPart, Iterating
  <2>2. QED
    BY <1>3, <2>1 DEF PartsOfIterates
<1>8. MessagesInOrder'
  BY <1>1, <1>2, CountsSame, MessagesKept
<1>9. ErrorsOfIterates'
  BY <1>2, ErrorsKept DEF ExchangeInv
<1>10. Gathered'
  BY <1>1, <1>2, <1>3, GatheredKept
<1>11. QED
  BY <1>4, <1>5, <1>6, <1>7, <1>8, <1>9, <1>10 DEF ExchangeInv

(* Process 0 aborts all.                                                   *)
LEMMA AbortStep ==
  ASSUME ExchangeInv, NEW r \in Ranks, Abort(r)
  PROVE  ExchangeInv'
<1>1. /\ pc[r] = "read" /\ pc' = [q \in Ranks |-> "aborted"]
      /\ UNCHANGED <<problem, local, local_error, global_error, iterations, chan, work, printed>>
  BY DEF Abort, progress, output
<1>2. Ranks' = Ranks /\ np' = np /\ orchestrator \in Ranks /\ orchestrator' = orchestrator
  BY <1>1, SameProblem, RankFacts DEF orchestrator
<1>3. \A q \in Ranks : pc[q] \in {"read", "bcast"} /\ pc'[q] = "aborted"
  BY <1>1, <1>2 DEF ExchangeInv, Starting
<1>4. TypeOK'
  BY <1>1, TypeKept DEF ExchangeInv, TypeOK, Points
<1>5. Starting'
  BY <1>2, <1>3 DEF Starting
<1>6. InStep'
  BY <1>1, <1>3, InStepKept DEF ExchangeInv, Iterating
<1>7. PartsOfIterates'
  BY <1>2, <1>3 DEF PartsOfIterates, HoldsPart, Iterating
<1>8. MessagesInOrder'
  BY <1>1, <1>3, CountsSame, MessagesKept
<1>9. ErrorsOfIterates'
  BY <1>1, ErrorsKept DEF ExchangeInv
<1>10. Gathered'
  BY <1>1, <1>2, <1>3, GatheredKept
<1>11. QED
  BY <1>4, <1>5, <1>6, <1>7, <1>8, <1>9, <1>10 DEF ExchangeInv

(* A process leaves the broadcast.                                         *)
LEMMA BcastStep ==
  ASSUME ExchangeInv, NEW r \in Ranks, Bcast(r)
  PROVE  ExchangeInv'
<1>1. /\ pc[r] = "bcast" /\ pc'[r] = "scatter" /\ \A q \in Ranks \ {r} : pc'[q] = pc[q]
      /\ pc' \in [Ranks -> Points]
      /\ r # orchestrator => pc[orchestrator] \notin {"read", "bcast"}
      /\ UNCHANGED <<problem, local, progress, chan, output>>
  BY GotoStep DEF Bcast, Points
<1>2. UNCHANGED <<problem, local, local_error, global_error, iterations, chan, work, printed>>
  BY <1>1 DEF progress, output
<1>3. Ranks' = Ranks /\ np' = np /\ orchestrator \in Ranks /\ orchestrator' = orchestrator
  BY <1>2, SameProblem, RankFacts DEF orchestrator
<1>4. TypeOK'
  BY <1>1, <1>2, TypeKept DEF ExchangeInv, TypeOK
<1>5. Starting'
  <2>1. \A q \in Ranks : pc[q] # "aborted"
    BY <1>1 DEF ExchangeInv, Starting
  <2>2. QED
    BY <1>1, <1>3, <2>1 DEF ExchangeInv, Starting
<1>6. InStep'
  BY <1>1, <1>2, InStepKept DEF ExchangeInv, Iterating
<1>7. PartsOfIterates'
  <2>1. \A q \in Ranks : HoldsPart(q)'
    BY <1>1, <1>2, PartKept DEF ExchangeInv, PartsOfIterates, HoldsPart, Iterating
  <2>2. QED
    BY <1>3, <2>1 DEF PartsOfIterates
<1>8. MessagesInOrder'
  BY <1>1, <1>2, CountsSame, MessagesKept
<1>9. ErrorsOfIterates'
  BY <1>2, ErrorsKept DEF ExchangeInv
<1>10. Gathered'
  BY <1>1, <1>2, <1>3, GatheredKept
<1>11. QED
  BY <1>4, <1>5, <1>6, <1>7, <1>8, <1>9, <1>10 DEF ExchangeInv

(* A process has its part of the input, the iterate 0.                     *)
LEMMA ScatterStep ==
  ASSUME ExchangeInv, NEW r \in Ranks, Scatter(r)
  PROVE  ExchangeInv'
<1>1. /\ pc[r] = "scatter" /\ pc'[r] = "exchange" /\ \A q \in Ranks \ {r} : pc'[q] = pc[q]
      /\ pc' \in [Ranks -> Points]
      /\ UNCHANGED <<problem, progress, chan, output>>
  BY GotoStep DEF Scatter, Points
<1>2. UNCHANGED <<problem, local_error, global_error, iterations, chan, work, printed>>
  BY <1>1 DEF progress, output
<1>3. Ranks' = Ranks /\ np' = np /\ input' = input /\ orchestrator \in Ranks
      /\ size_per_process' = size_per_process
      /\ \A q, k : RingCell(q, k)' = RingCell(q, k)
  BY <1>2, SameProblem, RankFacts
<1>4. PICK s \in Nat \ {0} : s = size_per_process
  BY <1>1, SizesDivide
<1>5. local[r] \in [0 .. s + 1 -> Int] /\ local \in [Ranks -> [0 .. s + 1 -> Int]]
  BY <1>4 DEF ExchangeInv, TypeOK
<1>6. /\ \A q \in Ranks \ {r} : local'[q] = local[q]
      /\ local'[r] = [k \in 0 .. s + 1 |-> IF k \in 1 .. s THEN input[r * s + k - 1]
                                                         ELSE local[r][k]]
      /\ local' = [local EXCEPT ![r] = local'[r]]
  BY <1>4, <1>5 DEF Scatter
<1>7. \A k \in 1 .. s : RingCell(r, k) = r * s + k - 1 /\ RingCell(r, k) \in Cells
  <2>1. \A k \in 1 .. s : RingCell(r, k) = RingCell(r, 1) + (k - 1) /\ RingCell(r, k) \in Cells
    BY <1>1, <1>4, SizesDivide, Geometry
  <2>2. RingCell(r, 1) = r * s /\ r * s \in Int
    BY <1>1, <1>4, SizesDivide, FirstCell
  <2>3. QED
    BY <2>1, <2>2
<1>8. input \in [Cells -> Int] /\ input \in Inputs
  BY RankFacts, JacobiAssumption
<1>9. local'[r] \in [0 .. s + 1 -> Int]
  <2>1. \A k \in 1 .. s : input[r * s + k - 1] \in Int
    BY <1>7, <1>8
  <2>2. QED
    BY <1>5, <1>6, <2>1
<1>10. TypeOK'
  <2>1. local' \in [Ranks -> [0 .. s + 1 -> Int]]
    BY <1>5, <1>6, <1>9
  <2>2. QED
    BY <1>1, <1>2, <1>4, <2>1, TypeKept DEF ExchangeInv, TypeOK
<1>11. Starting'
  BY <1>1, <1>2, StartingKept
<1>12. InStep'
  BY <1>1, <1>2, InStepKept DEF ExchangeInv, Iterating
<1>13. HoldsPart(r)'
  <2>1. Computed(r)' = 0
    <3>1. Computed(r) = 0
      BY <1>1 DEF ExchangeInv, InStep, Iterating
    <3>2. QED
      BY <1>2, <3>1 DEF Computed
  <2>2. Iterates[input][0] = input
    BY <1>8, IteratesEquation
  <2>3. \A k \in 1 .. s : local'[r][k] = input[RingCell(r, k)]
    BY <1>6, <1>7
  <2>4. QED
    BY <1>1, <1>3, <1>4, <2>1, <2>2, <2>3 DEF HoldsPart
<1>14. PartsOfIterates'
  <2>1. \A q \in Ranks \ {r} : HoldsPart(q)'
    BY <1>1, <1>2, <1>6, PartKept DEF ExchangeInv, PartsOfIterates
  <2>2. QED
    BY <1>3, <1>13, <2>1 DEF PartsOfIterates
<1>15. MessagesInOrder'
  BY <1>1, <1>2, CountsSame, MessagesKept
<1>16. ErrorsOfIterates'
  BY <1>2, ErrorsKept DEF ExchangeInv
<1>17. Gathered'
  BY <1>1, <1>2, <1>3, GatheredKept
<1>18. QED
  BY <1>10, <1>11, <1>12, <1>14, <1>15, <1>16, <1>17 DEF ExchangeInv

-----------------------------------------------------------------------------
(* The exchange (jacobi.cpp:78-102)                                        *)
(* What is known of a process in the middle of an exchange                 *)
LEMMA InExchange ==
  ASSUME ExchangeInv, NEW r \in Ranks,
         pc[r] \in {"exchange", "left", "inner", "right", "compute"}
  PROVE  /\ Iterating(r) /\ np \in NPs /\ ARR_SIZE % np = 0
         /\ size_per_process \in Nat \ {0} /\ input \in Inputs
         /\ Computed(r) = iterations[r] /\ Computed(r) \in 0 .. MAX_ITER
         /\ \A q \in Ranks : iterations[r] <= Computed(q)
         /\ iterations[r] < LastIteration
<1>1. /\ Computed(r) = iterations[r] /\ iterations[r] < LastIteration
      /\ \A q \in Ranks : iterations[r] <= Computed(q)
  <2>1. /\ Computed(r) = iterations[r] + 0 /\ iterations[r] < LastIteration
        /\ \A q \in Ranks : iterations[r] <= Computed(q)
    BY DEF ExchangeInv, InStep
  <2>2. iterations[r] \in Nat
    BY RankFacts
  <2>3. QED
    BY <2>1, <2>2
<1>2. LastIteration \in 1 .. MAX_ITER + 1 /\ MAX_ITER \in Nat
  BY RankFacts, LastIterationFacts, JacobiAssumption
<1>3. Computed(r) \in Nat
  BY RankFacts
<1>4. QED
  BY <1>1, <1>2, <1>3, SizesDivide, RankFacts DEF Iterating

(* What the four halves of the exchanges have in common                    *)
LEMMA ExchangeMoves ==
  ASSUME ExchangeInv, NEW r \in Ranks,
         NEW here \in {"exchange", "left", "inner", "right"},
         NEW there \in {"left", "inner", "right", "compute"}, Goto(r, here, there),
         UNCHANGED <<problem, progress, output>>,
         local' \in [Ranks -> [0 .. size_per_process + 1 -> Int]],
         \A q \in Ranks \ {r} : local'[q] = local[q],
         chan' \in [Ranks -> [Ranks -> Seq(Int)]],
         HoldsPart(r)', MessagesInOrder'
  PROVE  ExchangeInv'
<1>1. /\ pc[r] = here /\ pc'[r] = there /\ \A q \in Ranks \ {r} : pc'[q] = pc[q]
      /\ pc' \in [Ranks -> Points]
  BY GotoStep DEF Points
<1>2. UNCHANGED <<problem, local_error, global_error, iterations, work, printed>>
  BY DEF progress, output
<1>3. Ranks' = Ranks /\ orchestrator \in Ranks
  BY <1>2, SameProblem, RankFacts
<1>4. TypeOK'
  BY <1>1, <1>2, TypeKept DEF ExchangeInv, TypeOK
<1>5. Starting'
  BY <1>1, <1>2, StartingKept
<1>6. InStep'
  BY <1>1, <1>2, InStepKept DEF ExchangeInv, Iterating
<1>7. PartsOfIterates'
  <2>1. \A q \in Ranks \ {r} : HoldsPart(q)'
    BY <1>1, <1>2, PartKept DEF ExchangeInv, PartsOfIterates
  <2>2. QED
    BY <1>3, <2>1 DEF PartsOfIterates
<1>8. ErrorsOfIterates'
  BY <1>2, ErrorsKept DEF ExchangeInv
<1>9. Gathered'
  BY <1>1, <1>2, <1>3, GatheredKept
<1>10. QED
  BY <1>4, <1>5, <1>6, <1>7, <1>8, <1>9 DEF ExchangeInv

LEMMA OneMessage ==
  ASSUME NEW x
  PROVE  /\ << >> \o << >> = << >> /\ <<x>> \o << >> = <<x>> /\ << >> \o <<x>> = <<x>>
         /\ Append(<< >>, x) = <<x>> /\ <<x>> # << >> /\ Head(<<x>>) = x /\ Tail(<<x>>) = << >>
<1>1. <<x>> \in Seq({x}) /\ << >> \in Seq({x})
  OBVIOUS
<1>2. <<x>> \o << >> = <<x>> /\ << >> \o <<x>> = <<x>> /\ << >> \o << >> = << >>
  BY <1>1, ConcatEmptySeq
<1>3. Append(<< >>, x) = <<x>> /\ <<x>> # << >> /\ Head(<<x>>) = x /\ Tail(<<x>>) = << >>
  OBVIOUS
<1>4. QED
  BY <1>2, <1>3

(* Sequences of two messages                                               *)
LEMMA TwoMessages ==
  ASSUME NEW x, NEW y
  PROVE  /\ <<x>> \o <<y>> = <<x, y>> /\ Append(<<x>>, y) = <<x, y>>
         /\ <<x, y>> # << >> /\ Head(<<x, y>>) = x /\ Tail(<<x, y>>) = <<y>>
<1>1. /\ <<x>> \in Seq({x, y}) /\ <<y>> \in Seq({x, y}) /\ <<x, y>> \in Seq({x, y})
      /\ Len(<<x>>) = 1 /\ Len(<<y>>) = 1 /\ Len(<<x, y>>) = 2 /\ y \in {x, y}
      /\ <<x>>[1] = x /\ <<y>>[1] = y /\ <<x, y>>[1] = x /\ <<x, y>>[2] = y
  OBVIOUS
<1>2. /\ Append(<<x>>, y) \in Seq({x, y}) /\ Len(Append(<<x>>, y)) = 2
      /\ Append(<<x>>, y)[1] = x /\ Append(<<x>>, y)[2] = y
  BY <1>1, AppendProperties
<1>3. /\ <<x>> \o <<y>> \in Seq({x, y}) /\ Len(<<x>> \o <<y>>) = 2
      /\ (<<x>> \o <<y>>)[1] = x /\ (<<x>> \o <<y>>)[2] = y
  BY <1>1, ConcatProperties
<1>4. \A k \in 1 .. 2 : k = 1 \/ k = 2
  OBVIOUS
<1>5. Append(<<x>>, y) = <<x, y>> /\ <<x>> \o <<y>> = <<x, y>>
  BY <1>1, <1>2, <1>3, <1>4, SeqEqual
<1>6. <<x, y>> # << >> /\ Head(<<x, y>>) = x /\ Tail(<<x, y>>) = <<y>>
  OBVIOUS
<1>7. QED
  BY <1>5, <1>6

(* What is under way from s to d, before and after a step                  *)
LEMMA UnderWayIs ==
  ASSUME NEW s, NEW d
  PROVE  UnderWay(s, d) =
           (IF d = left_process(s)
            THEN InFlight(SentLeft(s), ReceivedRight(d), RingCell(s, 1)) ELSE << >>)
           \o (IF d = right_process(s)
               THEN InFlight(SentRight(s), ReceivedLeft(d), RingCell(s, size_per_process))
               ELSE << >>)
BY DEF UnderWay, ToLeft, ToRight

(* The same after a step, with the counts after it                         *)
LEMMA UnderWayNext ==
  ASSUME UNCHANGED problem, NEW s, NEW d
  PROVE  UnderWay(s, d)' =
           (IF d = left_process(s)
            THEN InFlight(SentLeft(s)', ReceivedRight(d)', RingCell(s, 1)) ELSE << >>)
           \o (IF d = right_process(s)
               THEN InFlight(SentRight(s)', ReceivedLeft(d)', RingCell(s, size_per_process))
               ELSE << >>)
<1>1. /\ input' = input /\ size_per_process' = size_per_process
      /\ left_process(s)' = left_process(s) /\ right_process(s)' = right_process(s)
      /\ \A k : RingCell(s, k)' = RingCell(s, k)
  BY SameProblem
<1>2. PICK l, m : l = left_process(s) /\ m = right_process(s)
  OBVIOUS
<1>3. /\ ReceivedRight(left_process(s))' = ReceivedRight(l)'
      /\ ReceivedLeft(right_process(s))' = ReceivedLeft(m)'
  BY <1>2, AtNeighbours
<1>4. /\ ToLeft(s)' = InFlight(SentLeft(s)', ReceivedRight(l)', RingCell(s, 1))
      /\ ToRight(s)' = InFlight(SentRight(s)', ReceivedLeft(m)',
                                RingCell(s, size_per_process))
  BY <1>1, <1>3 DEF ToLeft, ToRight, InFlight
<1>5. QED
  BY <1>1, <1>2, <1>4 DEF UnderWay

(* A message is appended, and one count of its sender rises by one.        *)
LEMMA Sent ==
  ASSUME ExchangeInv, UNCHANGED problem, NEW r \in Ranks, NEW d \in Ranks, NEW v \in Int,
         chan' = [chan EXCEPT ![r][d] = Append(@, v)],
         UnderWay(r, d)' = Append(UnderWay(r, d), v),
         \A q \in Ranks :
           /\ ReceivedRight(q)' = ReceivedRight(q) /\ ReceivedLeft(q)' = ReceivedLeft(q)
           /\ SentLeft(q)' = SentLeft(q)
                \/ (q = r /\ d = left_process(q) /\ SentLeft(q)' = SentLeft(q) + 1)
           /\ SentRight(q)' = SentRight(q)
                \/ (q = r /\ d = right_process(q) /\ SentRight(q)' = SentRight(q) + 1)
  PROVE  MessagesInOrder' /\ chan' \in [Ranks -> [Ranks -> Seq(Int)]]
<1>1. chan \in [Ranks -> [Ranks -> Seq(Int)]] /\ \A p, q \in Ranks : chan[p][q] = UnderWay(p, q)
  BY DEF ExchangeInv, TypeOK, MessagesInOrder
<1>2. \A p, q \in Ranks : chan'[p][q] = IF p = r /\ q = d THEN Append(chan[p][q], v)
                                                       ELSE chan[p][q]
  BY <1>1
<1>3. chan' \in [Ranks -> [Ranks -> Seq(Int)]]
  <2>1. Append(chan[r][d], v) \in Seq(Int)
    BY <1>1, AppendProperties
  <2>2. QED
    BY <1>1, <2>1
<1>4. ASSUME NEW p \in Ranks, NEW q \in Ranks, p # r \/ q # d
      PROVE  UnderWay(p, q)' = UnderWay(p, q)
  BY <1>4, UnderWayKept
<1>5. ASSUME NEW p \in Ranks
      PROVE  /\ ReceivedRight(left_process(p))' <= SentLeft(p)'
             /\ ReceivedLeft(right_process(p))' <= SentRight(p)'
  <2>1. PICK l \in Ranks, m \in Ranks : l = left_process(p) /\ m = right_process(p)
    BY RankFacts, Neighbours
  <2>2. /\ ReceivedRight(left_process(p))' = ReceivedRight(l)
        /\ ReceivedLeft(right_process(p))' = ReceivedLeft(m)
    BY <2>1, AtNeighbours
  <2>3. /\ ReceivedRight(l) <= SentLeft(p) /\ ReceivedLeft(m) <= SentRight(p)
        /\ ReceivedRight(l) \in Nat /\ SentLeft(p) \in Nat
        /\ ReceivedLeft(m) \in Nat /\ SentRight(p) \in Nat
    BY <2>1, CountFacts
  <2>4. QED
    BY <2>2, <2>3
<1>6. chan'[r][d] = UnderWay(r, d)'
  BY <1>1, <1>2
<1>7. Ranks' = Ranks
  BY SameProblem
<1>8. ASSUME NEW p \in Ranks, NEW q \in Ranks
      PROVE  chan'[p][q] = UnderWay(p, q)'
  <2>1. CASE p = r /\ q = d
    BY <1>6, <2>1
  <2>2. CASE p # r \/ q # d
    <3>1. chan'[p][q] = chan[p][q]
      BY <1>2, <2>2
    <3>2. chan[p][q] = UnderWay(p, q)
      BY <1>1
    <3>3. UnderWay(p, q)' = UnderWay(p, q)
      BY <1>4, <2>2
    <3>4. QED
      BY <3>1, <3>2, <3>3
  <2>3. QED
    BY <2>1, <2>2
<1>9. MessagesInOrder'
  BY <1>5, <1>7, <1>8 DEF MessagesInOrder
<1>10. QED
  BY <1>3, <1>9

(* A message is removed, and one count of its receiver rises.              *)
LEMMA Received ==
  ASSUME ExchangeInv, UNCHANGED problem, NEW s \in Ranks, NEW r \in Ranks,
         chan' = [chan EXCEPT ![s][r] = Tail(@)],
         UnderWay(s, r) # << >>, UnderWay(s, r)' = Tail(UnderWay(s, r)),
         \A q \in Ranks :
           /\ SentLeft(q)' = SentLeft(q) /\ SentRight(q)' = SentRight(q)
           /\ ReceivedRight(q)' = ReceivedRight(q)
                \/ (q = r /\ s = right_process(q) /\ ReceivedRight(q)' <= SentLeft(s))
           /\ ReceivedLeft(q)' = ReceivedLeft(q)
                \/ (q = r /\ s = left_process(q) /\ ReceivedLeft(q)' <= SentRight(s))
  PROVE  MessagesInOrder' /\ chan' \in [Ranks -> [Ranks -> Seq(Int)]]
<1>1. chan \in [Ranks -> [Ranks -> Seq(Int)]] /\ \A p, q \in Ranks : chan[p][q] = UnderWay(p, q)
  BY DEF ExchangeInv, TypeOK, MessagesInOrder
<1>2. \A p, q \in Ranks : chan'[p][q] = IF p = s /\ q = r THEN Tail(chan[p][q])
                                                       ELSE chan[p][q]
  BY <1>1
<1>3. chan' \in [Ranks -> [Ranks -> Seq(Int)]]
  <2>1. Tail(chan[s][r]) \in Seq(Int)
    BY <1>1, HeadTailProperties
  <2>2. QED
    BY <1>1, <2>1
<1>4. \A q \in Ranks : /\ left_process(q) \in Ranks /\ right_process(q) \in Ranks
                       /\ left_process(right_process(q)) = q /\ right_process(left_process(q)) = q
  BY RankFacts, Neighbours
<1>5. ASSUME NEW p \in Ranks, NEW q \in Ranks, p # s \/ q # r
      PROVE  UnderWay(p, q)' = UnderWay(p, q)
  <2>1. q = left_process(p) => ReceivedRight(q)' = ReceivedRight(q)
    BY <1>4, <1>5
  <2>2. q = right_process(p) => ReceivedLeft(q)' = ReceivedLeft(q)
    BY <1>4, <1>5
  <2>3. QED
    BY <2>1, <2>2, UnderWayKept
<1>6. ASSUME NEW p \in Ranks
      PROVE  /\ ReceivedRight(left_process(p))' <= SentLeft(p)'
             /\ ReceivedLeft(right_process(p))' <= SentRight(p)'
  <2>1. PICK l \in Ranks, m \in Ranks : l = left_process(p) /\ m = right_process(p)
    BY <1>4
  <2>2. right_process(l) = p /\ left_process(m) = p
    BY <1>4, <2>1
  <2>3. ReceivedRight(l) <= SentLeft(p) /\ ReceivedLeft(m) <= SentRight(p)
    BY <2>1, CountFacts
  <2>4. ReceivedRight(l)' <= SentLeft(p) /\ ReceivedLeft(m)' <= SentRight(p)
    BY <2>2, <2>3
  <2>5. QED
    BY <2>1, <2>4, AtNeighbours
<1>7. Ranks' = Ranks
  BY SameProblem
<1>8. chan'[s][r] = UnderWay(s, r)'
  BY <1>1, <1>2
<1>9. ASSUME NEW p \in Ranks, NEW q \in Ranks
      PROVE  chan'[p][q] = UnderWay(p, q)'
  <2>1. CASE p = s /\ q = r
    BY <1>8, <2>1
  <2>2. CASE p # s \/ q # r
    <3>1. chan'[p][q] = chan[p][q]
      BY <1>2, <2>2
    <3>2. chan[p][q] = UnderWay(p, q)
      BY <1>1
    <3>3. UnderWay(p, q)' = UnderWay(p, q)
      BY <1>5, <2>2
    <3>4. QED
      BY <3>1, <3>2, <3>3
  <2>3. QED
    BY <2>1, <2>2
<1>10. MessagesInOrder'
  BY <1>6, <1>7, <1>9 DEF MessagesInOrder
<1>11. QED
  BY <1>3, <1>10

(* The first cell goes to the left when nothing is on its way there.       *)
LEMMA SendLeftStep ==
  ASSUME ExchangeInv, NEW r \in Ranks, SendLeft(r)
  PROVE  ExchangeInv'
<1>1. /\ Goto(r, "exchange", "left") /\ pc[r] = "exchange" /\ pc'[r] = "left"
      /\ \A q \in Ranks \ {r} : pc'[q] = pc[q]
      /\ UNCHANGED <<problem, local, progress, output>>
      /\ chan' = [chan EXCEPT ![r][left_process(r)] = Append(@, local[r][1])]
  BY GotoStep DEF SendLeft, Send, Points
<1>2. UNCHANGED <<problem, local, local_error>>
  BY <1>1 DEF progress
<1>3. /\ Iterating(r) /\ np \in NPs /\ ARR_SIZE % np = 0 /\ size_per_process \in Nat \ {0}
      /\ Computed(r) = iterations[r] /\ \A q \in Ranks : iterations[r] <= Computed(q)
  BY <1>1, InExchange
<1>4. PICK n \in Nat : n = Computed(r)
  BY RankFacts
<1>5. PICK d \in Ranks : d = left_process(r)
  BY <1>3, Neighbours
<1>6. PICK v \in Int : v = local[r][1] /\ v = Iterates[input][n][RingCell(r, 1)]
  <2>1. 1 \in 1 .. size_per_process /\ 1 \in 0 .. size_per_process + 1
    BY <1>3
  <2>2. HoldsPart(r) /\ local[r] \in [0 .. size_per_process + 1 -> Int]
    BY DEF ExchangeInv, PartsOfIterates, TypeOK
  <2>3. QED
    BY <1>3, <1>4, <2>1, <2>2 DEF HoldsPart
<1>7. \A q \in Ranks \ {r} : CountsKept(q)
  BY <1>1, <1>2, CountsSame
<1>8. /\ SentLeft(r) = n /\ SentLeft(r)' = n + 1 /\ SentRight(r) = n /\ SentRight(r)' = n
      /\ ReceivedRight(r)' = ReceivedRight(r) /\ ReceivedLeft(r)' = ReceivedLeft(r)
  <2>1. Computed(r)' = n /\ Computed(r) = n
    BY <1>2, <1>4 DEF Computed
  <2>2. QED
    BY <1>1, <2>1 DEF SentLeft, SentRight, ReceivedRight, ReceivedLeft, Taken
<1>9. ReceivedRight(d) = n /\ ReceivedLeft(d) \in Nat /\ n <= ReceivedLeft(d)
  <2>1. ReceivedRight(d) <= n /\ n <= Computed(d)
    BY <1>3, <1>4, <1>5, <1>8, CountFacts
  <2>2. /\ Computed(d) \in Nat /\ ReceivedLeft(d) \in Nat /\ SentRight(d) \in Nat
        /\ ReceivedRight(d) \in Nat
        /\ Computed(d) <= ReceivedLeft(d) /\ ReceivedLeft(d) <= SentRight(d)
        /\ SentRight(d) <= ReceivedRight(d)
    BY CountFacts
  <2>3. QED
    BY <2>1, <2>2
<1>10. ReceivedRight(d)' = ReceivedRight(d) /\ ReceivedLeft(d)' = ReceivedLeft(d)
  BY <1>7, <1>8 DEF CountsKept
<1>11. UnderWay(r, d) = << >> /\ UnderWay(r, d)' = <<v>>
  <2>1. /\ InFlight(n, n, RingCell(r, 1)) = << >>
        /\ InFlight(n + 1, n, RingCell(r, 1)) = <<v>>
        /\ InFlight(n, ReceivedLeft(d), RingCell(r, size_per_process)) = << >>
    BY <1>6, <1>9 DEF InFlight
  <2>2. UnderWay(r, d) = << >> \o << >>
    BY <1>5, <1>8, <1>9, <2>1, UnderWayIs
  <2>3. UnderWay(r, d)' = <<v>> \o << >>
    BY <1>2, <1>5, <1>8, <1>9, <1>10, <2>1, UnderWayNext
  <2>4. QED
    BY <2>2, <2>3, OneMessage
<1>12. MessagesInOrder' /\ chan' \in [Ranks -> [Ranks -> Seq(Int)]]
  <2>1. chan' = [chan EXCEPT ![r][d] = Append(@, v)]
    BY <1>1, <1>5, <1>6
  <2>2. UnderWay(r, d)' = Append(UnderWay(r, d), v)
    BY <1>11, OneMessage
  <2>3. QED
    BY <1>2, <1>5, <1>7, <1>8, <2>1, <2>2, Sent DEF CountsKept
<1>13. HoldsPart(r)'
  <2>1. /\ input' = input /\ size_per_process' = size_per_process
        /\ \A k : RingCell(r, k)' = RingCell(r, k)
    BY <1>2, SameProblem
  <2>2. Computed(r)' = Computed(r) /\ local' = local /\ HoldsPart(r)
    BY <1>2 DEF Computed, ExchangeInv, PartsOfIterates
  <2>3. QED
    BY <1>1, <1>3, <2>1, <2>2 DEF HoldsPart, Iterating
<1>14. local' \in [Ranks -> [0 .. size_per_process + 1 -> Int]]
  BY <1>2 DEF ExchangeInv, TypeOK
<1>15. QED
  BY <1>1, <1>2, <1>12, <1>13, <1>14, ExchangeMoves

(* The last cell goes to the right, behind at most one other message.      *)
LEMMA SendRightStep ==
  ASSUME ExchangeInv, NEW r \in Ranks, SendRight(r)
  PROVE  ExchangeInv'
<1>1. /\ Goto(r, "inner", "right") /\ pc[r] = "inner" /\ pc'[r] = "right"
      /\ \A q \in Ranks \ {r} : pc'[q] = pc[q]
      /\ UNCHANGED <<problem, local, progress, output>>
      /\ chan' = [chan EXCEPT ![r][right_process(r)] = Append(@, local[r][size_per_process])]
  BY GotoStep DEF SendRight, Send, Points
<1>2. UNCHANGED <<problem, local, local_error>>
  BY <1>1 DEF progress
<1>3. /\ Iterating(r) /\ np \in NPs /\ ARR_SIZE % np = 0 /\ size_per_process \in Nat \ {0}
      /\ Computed(r) = iterations[r] /\ \A q \in Ranks : iterations[r] <= Computed(q)
  BY <1>1, InExchange
<1>4. PICK n \in Nat : n = Computed(r)
  BY RankFacts
<1>5. PICK d \in Ranks : d = right_process(r)
  BY <1>3, Neighbours
<1>6. PICK v \in Int : /\ v = local[r][size_per_process]
                       /\ v = Iterates[input][n][RingCell(r, size_per_process)]
  <2>1. size_per_process \in 1 .. size_per_process /\ size_per_process \in 0 .. size_per_process + 1
    BY <1>3
  <2>2. HoldsPart(r) /\ local[r] \in [0 .. size_per_process + 1 -> Int]
    BY DEF ExchangeInv, PartsOfIterates, TypeOK
  <2>3. QED
    BY <1>3, <1>4, <2>1, <2>2 DEF HoldsPart
<1>7. \A q \in Ranks \ {r} : CountsKept(q)
  BY <1>1, <1>2, CountsSame
<1>8. /\ SentLeft(r)' = SentLeft(r) /\ SentRight(r) = n /\ SentRight(r)' = n + 1
      /\ ReceivedRight(r)' = ReceivedRight(r) /\ ReceivedLeft(r)' = ReceivedLeft(r)
  <2>1. Computed(r)' = n /\ Computed(r) = n
    BY <1>2, <1>4 DEF Computed
  <2>2. QED
    BY <1>1, <2>1 DEF SentLeft, SentRight, ReceivedRight, ReceivedLeft, Taken
<1>9. ReceivedLeft(d) = n
  <2>1. ReceivedLeft(d) <= n /\ n <= Computed(d)
    BY <1>3, <1>4, <1>5, <1>8, CountFacts
  <2>2. Computed(d) \in Nat /\ ReceivedLeft(d) \in Nat /\ Computed(d) <= ReceivedLeft(d)
    BY CountFacts
  <2>3. QED
    BY <2>1, <2>2
<1>10. ReceivedRight(d)' = ReceivedRight(d) /\ ReceivedLeft(d)' = ReceivedLeft(d)
  BY <1>7, <1>8 DEF CountsKept
<1>11. UnderWay(r, d)' = Append(UnderWay(r, d), v)
  <2>1. PICK X : X = IF d = left_process(r)
                     THEN InFlight(SentLeft(r), ReceivedRight(d), RingCell(r, 1)) ELSE << >>
    OBVIOUS
  <2>2. X = << >> \/ \E x : X = <<x>>
    BY <2>1 DEF InFlight
  <2>3. /\ InFlight(n, n, RingCell(r, size_per_process)) = << >>
        /\ InFlight(n + 1, n, RingCell(r, size_per_process)) = <<v>>
    BY <1>6 DEF InFlight
  <2>4. UnderWay(r, d) = X \o << >>
    BY <1>5, <1>8, <1>9, <2>1, <2>3, UnderWayIs
  <2>5. UnderWay(r, d)' = X \o <<v>>
    BY <1>2, <1>5, <1>8, <1>9, <1>10, <2>1, <2>3, UnderWayNext
  <2>6. QED
    BY <2>2, <2>4, <2>5, OneMessage, TwoMessages
<1>12. MessagesInOrder' /\ chan' \in [Ranks -> [Ranks -> Seq(Int)]]
  <2>1. chan' = [chan EXCEPT ![r][d] = Append(@, v)]
    BY <1>1, <1>5, <1>6
  <2>2. QED
    BY <1>2, <1>5, <1>7, <1>8, <1>11, <2>1, Sent DEF CountsKept
<1>13. HoldsPart(r)'
  <2>1. /\ input' = input /\ size_per_process' = size_per_process
        /\ \A k : RingCell(r, k)' = RingCell(r, k)
    BY <1>2, SameProblem
  <2>2. Computed(r)' = Computed(r) /\ local' = local /\ HoldsPart(r)
    BY <1>2 DEF Computed, ExchangeInv, PartsOfIterates
  <2>3. QED
    BY <1>1, <1>3, <2>1, <2>2 DEF HoldsPart, Iterating
<1>14. local' \in [Ranks -> [0 .. size_per_process + 1 -> Int]]
  BY <1>2 DEF ExchangeInv, TypeOK
<1>15. QED
  BY <1>1, <1>2, <1>12, <1>13, <1>14, ExchangeMoves

(* The right ghost cell becomes the first cell of the right neighbour.     *)
LEMMA RecvRightStep ==
  ASSUME ExchangeInv, NEW r \in Ranks, RecvRight(r)
  PROVE  ExchangeInv'
<1>1. /\ Goto(r, "left", "inner") /\ pc[r] = "left" /\ pc'[r] = "inner"
      /\ \A q \in Ranks \ {r} : pc'[q] = pc[q]
      /\ UNCHANGED <<problem, progress, output>>
  BY GotoStep DEF RecvRight, Recv, Points
<1>2. UNCHANGED <<problem, local_error>>
  BY <1>1 DEF progress
<1>3. /\ Iterating(r) /\ np \in NPs /\ ARR_SIZE % np = 0 /\ size_per_process \in Nat \ {0}
      /\ Computed(r) = iterations[r]
  BY <1>1, InExchange
<1>4. PICK n \in Nat : n = Computed(r)
  BY RankFacts
<1>5. PICK s \in Ranks : s = right_process(r) /\ r = left_process(s)
  BY <1>3, Neighbours
<1>6. \A q \in Ranks \ {r} : CountsKept(q)
  BY <1>1, <1>2, CountsSame
<1>7. /\ SentLeft(r)' = SentLeft(r) /\ SentRight(r)' = SentRight(r)
      /\ ReceivedRight(r) = n /\ ReceivedRight(r)' = n + 1
      /\ ReceivedLeft(r) = n /\ ReceivedLeft(r)' = n
  <2>1. Computed(r)' = n /\ Computed(r) = n
    BY <1>2, <1>4 DEF Computed
  <2>2. QED
    BY <1>1, <2>1 DEF SentLeft, SentRight, ReceivedRight, ReceivedLeft, Taken
<1>8. SentLeft(s)' = SentLeft(s) /\ SentRight(s)' = SentRight(s)
  BY <1>6, <1>7 DEF CountsKept
<1>9. /\ chan[s][r] # << >> /\ chan[s][r] = UnderWay(s, r) /\ chan[s][r] \in Seq(Int)
      /\ chan' = [chan EXCEPT ![s][r] = Tail(@)]
      /\ local' = [local EXCEPT ![r][size_per_process + 1] = Head(chan[s][r])]
  BY <1>5 DEF RecvRight, Recv, ExchangeInv, TypeOK, MessagesInOrder
<1>10. PICK Y : Y = IF r = right_process(s)
                    THEN InFlight(SentRight(s), n, RingCell(s, size_per_process)) ELSE << >>
  OBVIOUS
<1>11. Y = << >> \/ \E y : Y = <<y>>
  BY <1>10 DEF InFlight
<1>12. /\ UnderWay(s, r) = InFlight(SentLeft(s), n, RingCell(s, 1)) \o Y
       /\ UnderWay(s, r)' = InFlight(SentLeft(s), n + 1, RingCell(s, 1)) \o Y
  BY <1>2, <1>5, <1>7, <1>8, <1>10, UnderWayIs, UnderWayNext
<1>13. SentLeft(s) = n + 1
  <2>1. /\ SentLeft(s) \in Nat /\ SentRight(s) \in Nat /\ ReceivedRight(s) \in Nat
        /\ SentLeft(s) <= n + 1 /\ n <= SentLeft(s)
        /\ SentRight(s) <= ReceivedRight(s) /\ ReceivedRight(s) <= SentLeft(s)
    BY <1>4, <1>5, <1>7, CountFacts
  <2>2. SUFFICES ASSUME SentLeft(s) = n PROVE FALSE
    BY <2>1
  <2>3. SentRight(s) <= n
    BY <2>1, <2>2
  <2>4. Y = << >>
    BY <1>10, <2>1, <2>3 DEF InFlight
  <2>5. InFlight(n, n, RingCell(s, 1)) = << >>
    BY DEF InFlight
  <2>6. QED
    BY <1>9, <1>12, <2>2, <2>4, <2>5, OneMessage
<1>14. PICK w : w = Iterates[input][n][RingCell(s, 1)]
  OBVIOUS
<1>15. UnderWay(s, r) = <<w>> \o Y /\ UnderWay(s, r)' = << >> \o Y
  <2>1. /\ InFlight(n + 1, n, RingCell(s, 1)) = <<w>>
        /\ InFlight(n + 1, n + 1, RingCell(s, 1)) = << >>
    BY <1>4, <1>14 DEF InFlight
  <2>2. QED
    BY <1>12, <1>13, <2>1
<1>16. Head(UnderWay(s, r)) = w /\ UnderWay(s, r)' = Tail(UnderWay(s, r)) /\ w \in Int
  <2>1. Head(UnderWay(s, r)) = w /\ UnderWay(s, r)' = Tail(UnderWay(s, r))
    <3>1. CASE Y = << >>
      BY <1>15, <3>1, OneMessage
    <3>2. CASE Y # << >>
      <4>1. PICK y : Y = <<y>>
        BY <1>11, <3>2
      <4>2. UnderWay(s, r) = <<w, y>> /\ UnderWay(s, r)' = <<y>>
        BY <1>15, <4>1, OneMessage, TwoMessages
      <4>3. QED
        BY <4>2, TwoMessages
    <3>3. QED
      BY <3>1, <3>2
  <2>2. Head(UnderWay(s, r)) \in Int
    BY <1>9, HeadTailProperties
  <2>3. QED
    BY <2>1, <2>2
<1>17. MessagesInOrder' /\ chan' \in [Ranks -> [Ranks -> Seq(Int)]]
  <2>1. ASSUME NEW q \in Ranks
        PROVE  /\ SentLeft(q)' = SentLeft(q) /\ SentRight(q)' = SentRight(q)
               /\ ReceivedRight(q)' = ReceivedRight(q)
                    \/ (q = r /\ s = right_process(q) /\ ReceivedRight(q)' <= SentLeft(s))
               /\ ReceivedLeft(q)' = ReceivedLeft(q)
                    \/ (q = r /\ s = left_process(q) /\ ReceivedLeft(q)' <= SentRight(s))
    <3>1. CASE q = r
      BY <1>4, <1>5, <1>7, <1>13, <3>1
    <3>2. CASE q # r
      BY <1>6, <3>2 DEF CountsKept
    <3>3. QED
      BY <3>1, <3>2
  <2>2. UnderWay(s, r) # << >> /\ UnderWay(s, r)' = Tail(UnderWay(s, r))
    BY <1>9, <1>16
  <2>3. QED
    BY <1>2, <1>9, <2>1, <2>2, Received
<1>18. /\ local' \in [Ranks -> [0 .. size_per_process + 1 -> Int]]
       /\ \A q \in Ranks \ {r} : local'[q] = local[q]
       /\ \A k \in 1 .. size_per_process : local'[r][k] = local[r][k]
       /\ local'[r][size_per_process + 1] = w
  <2>1. PICK z \in Nat : z = size_per_process
    BY <1>3
  <2>2. local \in [Ranks -> [0 .. z + 1 -> Int]]
    BY <2>1 DEF ExchangeInv, TypeOK
  <2>3. local' = [local EXCEPT ![r][z + 1] = w]
    BY <1>9, <1>16, <2>1
  <2>4. z + 1 \in 0 .. z + 1 /\ \A k \in 1 .. z : k \in 0 .. z + 1 /\ k # z + 1
    OBVIOUS
  <2>5. /\ local'[r] = [local[r] EXCEPT ![z + 1] = w] /\ local[r] \in [0 .. z + 1 -> Int]
        /\ \A q \in Ranks \ {r} : local'[q] = local[q]
    BY <2>2, <2>3
  <2>6. /\ local'[r] \in [0 .. z + 1 -> Int] /\ local'[r][z + 1] = w
        /\ \A k \in 1 .. z : local'[r][k] = local[r][k]
    BY <1>16, <2>4, <2>5
  <2>7. local' \in [Ranks -> [0 .. z + 1 -> Int]]
    BY <2>2, <2>3, <2>5, <2>6
  <2>8. QED
    BY <2>1, <2>5, <2>6, <2>7
<1>19. HoldsPart(r)'
  <2>1. /\ input' = input /\ size_per_process' = size_per_process
        /\ \A k : RingCell(r, k)' = RingCell(r, k)
    BY <1>2, SameProblem
  <2>2. Computed(r)' = Computed(r) /\ HoldsPart(r)
    BY <1>2 DEF Computed, ExchangeInv, PartsOfIterates
  <2>3. RingCell(r, size_per_process + 1) = RingCell(s, 1)
    BY <1>3, <1>5, Geometry
  <2>4. PICK g : g = Iterates[input][n]
    OBVIOUS
  <2>5. w = g[RingCell(r, size_per_process + 1)]
    BY <1>14, <2>3, <2>4
  <2>6. \A k \in 1 .. size_per_process : local[r][k] = g[RingCell(r, k)]
    BY <1>3, <1>4, <2>2, <2>4 DEF HoldsPart
  <2>7. /\ \A k \in 1 .. size_per_process : local'[r][k] = g[RingCell(r, k)]
        /\ local'[r][size_per_process + 1] = g[RingCell(r, size_per_process + 1)]
    BY <1>18, <2>5, <2>6
  <2>8. Iterates[input'][Computed(r)'] = g
    BY <1>4, <2>1, <2>2, <2>4
  <2>9. QED
    BY <1>1, <2>1, <2>7, <2>8 DEF HoldsPart
<1>20. QED
  BY <1>1, <1>17, <1>18, <1>19, ExchangeMoves

(* The left ghost cell becomes the last cell of the left neighbour.        *)
LEMMA RecvLeftStep ==
  ASSUME ExchangeInv, NEW r \in Ranks, RecvLeft(r)
  PROVE  ExchangeInv'
<1>1. /\ Goto(r, "right", "compute") /\ pc[r] = "right" /\ pc'[r] = "compute"
      /\ \A q \in Ranks \ {r} : pc'[q] = pc[q]
      /\ UNCHANGED <<problem, progress, output>>
  BY GotoStep DEF RecvLeft, Recv, Points
<1>2. UNCHANGED <<problem, local_error>>
  BY <1>1 DEF progress
<1>3. /\ Iterating(r) /\ np \in NPs /\ ARR_SIZE % np = 0 /\ size_per_process \in Nat \ {0}
      /\ Computed(r) = iterations[r]
  BY <1>1, InExchange
<1>4. PICK n \in Nat : n = Computed(r)
  BY RankFacts
<1>5. PICK s \in Ranks : s = left_process(r) /\ r = right_process(s)
  BY <1>3, Neighbours
<1>6. \A q \in Ranks \ {r} : CountsKept(q)
  BY <1>1, <1>2, CountsSame
<1>7. /\ SentLeft(r)' = SentLeft(r) /\ SentRight(r)' = SentRight(r)
      /\ ReceivedRight(r) = n + 1 /\ ReceivedRight(r)' = n + 1
      /\ ReceivedLeft(r) = n /\ ReceivedLeft(r)' = n + 1
  <2>1. Computed(r)' = n /\ Computed(r) = n
    BY <1>2, <1>4 DEF Computed
  <2>2. QED
    BY <1>1, <2>1 DEF SentLeft, SentRight, ReceivedRight, ReceivedLeft, Taken
<1>8. SentLeft(s)' = SentLeft(s) /\ SentRight(s)' = SentRight(s)
  BY <1>6, <1>7 DEF CountsKept
<1>9. /\ chan[s][r] # << >> /\ chan[s][r] = UnderWay(s, r) /\ chan[s][r] \in Seq(Int)
      /\ chan' = [chan EXCEPT ![s][r] = Tail(@)]
      /\ local' = [local EXCEPT ![r][0] = Head(chan[s][r])]
  BY <1>5 DEF RecvLeft, Recv, ExchangeInv, TypeOK, MessagesInOrder
<1>10. /\ SentLeft(s) \in Nat /\ SentRight(s) \in Nat
       /\ SentLeft(s) <= n + 1 /\ SentRight(s) <= SentLeft(s)
  <2>1. /\ SentLeft(s) \in Nat /\ SentRight(s) \in Nat /\ ReceivedRight(s) \in Nat
        /\ SentLeft(s) <= n + 1
        /\ SentRight(s) <= ReceivedRight(s) /\ ReceivedRight(s) <= SentLeft(s)
    BY <1>4, CountFacts
  <2>2. QED
    BY <2>1
<1>11. InFlight(SentLeft(s), n + 1, RingCell(s, 1)) = << >>
  BY <1>10 DEF InFlight
<1>12. /\ UnderWay(s, r) = << >> \o InFlight(SentRight(s), n, RingCell(s, size_per_process))
       /\ UnderWay(s, r)' = << >> \o InFlight(SentRight(s), n + 1, RingCell(s, size_per_process))
  BY <1>2, <1>5, <1>7, <1>8, <1>11, UnderWayIs, UnderWayNext
<1>13. SentRight(s) = n + 1
  <2>1. SentRight(s) > n
    BY <1>9, <1>10, <1>12, OneMessage DEF InFlight
  <2>2. QED
    BY <1>10, <2>1
<1>14. PICK w : w = Iterates[input][n][RingCell(s, size_per_process)]
  OBVIOUS
<1>15. UnderWay(s, r) = <<w>> /\ UnderWay(s, r)' = << >>
  BY <1>12, <1>13, <1>14, OneMessage DEF InFlight
<1>16. Head(UnderWay(s, r)) = w /\ UnderWay(s, r)' = Tail(UnderWay(s, r)) /\ w \in Int
  <2>1. Head(UnderWay(s, r)) = w /\ UnderWay(s, r)' = Tail(UnderWay(s, r))
    BY <1>15, OneMessage
  <2>2. Head(UnderWay(s, r)) \in Int
    BY <1>9, HeadTailProperties
  <2>3. QED
    BY <2>1, <2>2
<1>17. MessagesInOrder' /\ chan' \in [Ranks -> [Ranks -> Seq(Int)]]
  <2>1. ASSUME NEW q \in Ranks
        PROVE  /\ SentLeft(q)' = SentLeft(q) /\ SentRight(q)' = SentRight(q)
               /\ ReceivedRight(q)' = ReceivedRight(q)
                    \/ (q = r /\ s = right_process(q) /\ ReceivedRight(q)' <= SentLeft(s))
               /\ ReceivedLeft(q)' = ReceivedLeft(q)
                    \/ (q = r /\ s = left_process(q) /\ ReceivedLeft(q)' <= SentRight(s))
    <3>1. CASE q = r
      BY <1>4, <1>5, <1>7, <1>13, <3>1
    <3>2. CASE q # r
      BY <1>6, <3>2 DEF CountsKept
    <3>3. QED
      BY <3>1, <3>2
  <2>2. UnderWay(s, r) # << >> /\ UnderWay(s, r)' = Tail(UnderWay(s, r))
    BY <1>9, <1>16
  <2>3. QED
    BY <1>2, <1>9, <2>1, <2>2, Received
<1>18. /\ local' \in [Ranks -> [0 .. size_per_process + 1 -> Int]]
       /\ \A q \in Ranks \ {r} : local'[q] = local[q]
       /\ \A k \in 1 .. size_per_process + 1 : local'[r][k] = local[r][k]
       /\ local'[r][0] = w
  <2>1. PICK z \in Nat : z = size_per_process
    BY <1>3
  <2>2. local \in [Ranks -> [0 .. z + 1 -> Int]]
    BY <2>1 DEF ExchangeInv, TypeOK
  <2>3. local' = [local EXCEPT ![r][0] = w]
    BY <1>9, <1>16, <2>1
  <2>4. 0 \in 0 .. z + 1 /\ \A k \in 1 .. z + 1 : k \in 0 .. z + 1 /\ k # 0
    OBVIOUS
  <2>5. /\ local'[r] = [local[r] EXCEPT ![0] = w] /\ local[r] \in [0 .. z + 1 -> Int]
        /\ \A q \in Ranks \ {r} : local'[q] = local[q]
    BY <2>2, <2>3
  <2>6. /\ local'[r] \in [0 .. z + 1 -> Int] /\ local'[r][0] = w
        /\ \A k \in 1 .. z + 1 : local'[r][k] = local[r][k]
    BY <1>16, <2>4, <2>5
  <2>7. local' \in [Ranks -> [0 .. z + 1 -> Int]]
    BY <2>2, <2>3, <2>5, <2>6
  <2>8. QED
    BY <2>1, <2>5, <2>6, <2>7
<1>19. HoldsPart(r)'
  <2>1. /\ input' = input /\ size_per_process' = size_per_process
        /\ \A k : RingCell(r, k)' = RingCell(r, k)
    BY <1>2, SameProblem
  <2>2. Computed(r)' = Computed(r) /\ HoldsPart(r)
    BY <1>2 DEF Computed, ExchangeInv, PartsOfIterates
  <2>3. RingCell(r, 0) = RingCell(s, size_per_process)
    BY <1>3, <1>5, Geometry
  <2>4. \A k \in 1 .. size_per_process : k \in 1 .. size_per_process + 1
    BY <1>3
  <2>5. size_per_process + 1 \in 1 .. size_per_process + 1
    BY <1>3
  <2>6. PICK g : g = Iterates[input][n]
    OBVIOUS
  <2>7. w = g[RingCell(r, 0)]
    BY <1>14, <2>3, <2>6
  <2>8. /\ \A k \in 1 .. size_per_process : local[r][k] = g[RingCell(r, k)]
        /\ local[r][size_per_process + 1] = g[RingCell(r, size_per_process + 1)]
    BY <1>1, <1>3, <1>4, <2>2, <2>6 DEF HoldsPart
  <2>9. /\ \A k \in 1 .. size_per_process : local'[r][k] = g[RingCell(r, k)]
        /\ local'[r][size_per_process + 1] = g[RingCell(r, size_per_process + 1)]
        /\ local'[r][0] = g[RingCell(r, 0)]
    BY <1>18, <2>4, <2>5, <2>7, <2>8
  <2>10. Iterates[input'][Computed(r)'] = g
    BY <1>4, <2>1, <2>2, <2>6
  <2>11. QED
    BY <1>1, <2>1, <2>9, <2>10 DEF HoldsPart
<1>20. QED
  BY <1>1, <1>17, <1>18, <1>19, ExchangeMoves

(* What the step of an iteration computes is the part of the next iterate. *)
LEMMA PartOfNext ==
  ASSUME ExchangeInv, NEW r \in Ranks, pc[r] = "compute"
  PROVE  /\ Computed(r) \in 0 .. MAX_ITER /\ Computed(r) + 1 \in 1 .. MAX_ITER + 1
         /\ new_local(r) \in [0 .. size_per_process + 1 -> Int]
         /\ \A k \in 1 .. size_per_process :
              /\ local[r][k] = Iterates[input][Computed(r)][RingCell(r, k)]
              /\ new_local(r)[k] = Iterates[input][Computed(r) + 1][RingCell(r, k)]
<1>1. /\ Iterating(r) /\ np \in NPs /\ ARR_SIZE % np = 0 /\ input \in Inputs
      /\ size_per_process \in Nat \ {0} /\ Computed(r) \in 0 .. MAX_ITER
  BY InExchange
<1>2. PICK s \in Nat \ {0} : s = size_per_process
  BY <1>1
<1>3. PICK n \in 0 .. MAX_ITER : n = Computed(r)
  BY <1>1
<1>4. n + 1 \in 1 .. MAX_ITER + 1 /\ n \in 0 .. MAX_ITER + 1
  BY JacobiAssumption
<1>5. PICK g : g = Iterates[input][n]
  OBVIOUS
<1>6. g \in [Cells -> Int] /\ Iterates[input][n + 1] = NextIterate(g)
  BY <1>1, <1>4, <1>5, IteratesEquation
<1>7. local[r] \in [0 .. s + 1 -> Int]
  BY <1>2 DEF ExchangeInv, TypeOK
<1>8. /\ \A k \in 1 .. s : local[r][k] = g[RingCell(r, k)]
      /\ local[r][s + 1] = g[RingCell(r, s + 1)] /\ local[r][0] = g[RingCell(r, 0)]
  BY <1>1, <1>2, <1>3, <1>5 DEF ExchangeInv, PartsOfIterates, HoldsPart
<1>9. \A k \in 0 .. s + 1 : local[r][k] = g[RingCell(r, k)]
  <2>1. \A k \in 0 .. s + 1 : k = 0 \/ k = s + 1 \/ k \in 1 .. s
    OBVIOUS
  <2>2. QED
    BY <1>8, <2>1
<1>10. new_local(r) = [k \in 0 .. s + 1 |->
                        IF k \in 1 .. s THEN (local[r][k - 1] + local[r][k + 1]) \div 2
                                        ELSE local[r][k]]
  BY <1>2, <1>7 DEF new_local
<1>11. \A k \in 1 .. s : k - 1 \in 0 .. s + 1 /\ k + 1 \in 0 .. s + 1 /\ k \in 0 .. s + 1
  OBVIOUS
<1>12. ASSUME NEW k \in 1 .. s
       PROVE  new_local(r)[k] = Iterates[input][n + 1][RingCell(r, k)]
  <2>1. PICK c \in Cells : c = RingCell(r, k)
    BY <1>1, <1>2, Geometry
  <2>2. /\ RingCell(r, k - 1) = (c + ARR_SIZE - 1) % ARR_SIZE
        /\ RingCell(r, k + 1) = (c + 1) % ARR_SIZE
    BY <1>1, <1>2, <2>1, Geometry
  <2>3. new_local(r)[k] = (g[RingCell(r, k - 1)] + g[RingCell(r, k + 1)]) \div 2
    BY <1>9, <1>10, <1>11
  <2>4. NextIterate(g)[c] = (g[(c + ARR_SIZE - 1) % ARR_SIZE]
                               + g[(c + 1) % ARR_SIZE]) \div 2
    BY <2>1 DEF NextIterate
  <2>5. QED
    BY <1>6, <2>1, <2>2, <2>3, <2>4
<1>13. new_local(r) \in [0 .. s + 1 -> Int]
  <2>1. ASSUME NEW k \in 1 .. s
        PROVE  (local[r][k - 1] + local[r][k + 1]) \div 2 \in Int
    <3>1. PICK x \in Int, y \in Int : x = local[r][k - 1] /\ y = local[r][k + 1]
      BY <1>7, <1>11
    <3>2. (x + y) \div 2 \in Int
      OBVIOUS
    <3>3. QED
      BY <3>1, <3>2
  <2>2. \A k \in 0 .. s + 1 : local[r][k] \in Int
    BY <1>7
  <2>3. ASSUME NEW k \in 0 .. s + 1
        PROVE  (IF k \in 1 .. s THEN (local[r][k - 1] + local[r][k + 1]) \div 2
                                ELSE local[r][k]) \in Int
    BY <2>1, <2>2
  <2>4. QED
    BY <1>10, <2>3, Zenon
<1>14. QED
  BY <1>2, <1>3, <1>4, <1>5, <1>8, <1>12, <1>13

(* The definition of ChangeIn                                              *)
LEMMA ChangeOfCells ==
  ASSUME NEW w, NEW n, NEW cells
  PROVE  Max({Abs(Iterates[w][n][c] - Iterates[w][n - 1][c]) : c \in cells})
           = ChangeIn(w, n, cells)
BY DEF ChangeIn

(* The error of a step is the largest change in its part of the ring.      *)
LEMMA ErrorOfPart ==
  ASSUME ExchangeInv, NEW r \in Ranks, pc[r] = "compute"
  PROVE  /\ Max({Abs(new_local(r)[k] - local[r][k]) : k \in 1 .. size_per_process})
              = ChangeIn(input, Computed(r) + 1, Part(r))
         /\ ChangeIn(input, Computed(r) + 1, Part(r)) \in Nat
<1>1. /\ np \in NPs /\ ARR_SIZE % np = 0 /\ input \in Inputs
      /\ size_per_process \in Nat \ {0}
  BY InExchange
<1>2. PICK s \in Nat \ {0} : s = size_per_process
  BY <1>1
<1>3. PICK n \in Nat : n = Computed(r)
  BY RankFacts
<1>4. \A k \in 1 .. s : /\ local[r][k] = Iterates[input][n][RingCell(r, k)]
                        /\ new_local(r)[k] = Iterates[input][n + 1][RingCell(r, k)]
  BY <1>2, <1>3, PartOfNext
<1>5. PICK b \in Int : b = RingCell(r, 1)
  BY <1>1, FirstCell
<1>6. \A k \in 1 .. s : RingCell(r, k) = b + (k - 1)
  BY <1>1, <1>2, <1>5, Geometry
<1>7. Part(r) = b .. b + (s - 1)
  <2>1. s \in 1 .. s
    OBVIOUS
  <2>2. QED
    BY <1>1, <1>2, <1>5, <1>6, <2>1, Geometry
<1>8. n + 1 - 1 = n
  OBVIOUS
<1>9. {Abs(new_local(r)[k] - local[r][k]) : k \in 1 .. s}
        = {Abs(Iterates[input][n + 1][c] - Iterates[input][n + 1 - 1][c]) : c \in Part(r)}
  <2> DEFINE D(c) == Abs(Iterates[input][n + 1][c] - Iterates[input][n + 1 - 1][c])
             E(k) == Abs(new_local(r)[k] - local[r][k])
  <2>1. \A k \in 1 .. s : E(k) = D(RingCell(r, k))
    BY <1>4, <1>8
  <2>2. \A k \in 1 .. s : RingCell(r, k) \in Part(r)
    BY <1>6, <1>7
  <2>3. \A c \in Part(r) : \E k \in 1 .. s : c = RingCell(r, k)
    <3>1. TAKE c \in Part(r)
    <3>2. c \in Int /\ b <= c /\ c <= b + (s - 1)
      BY <1>7
    <3>3. c - b + 1 \in 1 .. s
      BY <3>2
    <3>4. c = RingCell(r, c - b + 1)
      BY <1>6, <3>2, <3>3
    <3>5. QED
      BY <3>3, <3>4
  <2>4. {E(k) : k \in 1 .. s} = {D(c) : c \in Part(r)}
    <3> HIDE DEF D, E
    <3>1. QED
      BY <2>1, <2>2, <2>3
  <2>5. QED
    BY <2>4, Zenon
<1>10. Max({Abs(Iterates[input][n + 1][c] - Iterates[input][n + 1 - 1][c]) : c \in Part(r)})
         = ChangeIn(input, n + 1, Part(r))
  BY ChangeOfCells
<1>11. ChangeIn(input, n + 1, Part(r)) \in Nat
  <2>1. n + 1 \in 1 .. MAX_ITER + 1
    BY <1>3, PartOfNext
  <2>2. QED
    BY <1>1, <2>1, PartChange
<1>12. QED
  BY <1>2, <1>3, <1>9, <1>10, <1>11, Zenon

(* A part of the next iterate and its error are computed.                  *)
LEMMA ComputeStep ==
  ASSUME ExchangeInv, NEW r \in Ranks, do_one_step(r)
  PROVE  ExchangeInv'
<1>1. /\ pc[r] = "compute" /\ pc'[r] = "reduce" /\ \A q \in Ranks \ {r} : pc'[q] = pc[q]
      /\ pc' \in [Ranks -> Points]
      /\ UNCHANGED <<problem, global_error, iterations, chan, work, printed>>
  BY GotoStep DEF do_one_step, Points, output
<1>2. /\ Iterating(r) /\ Computed(r) = iterations[r] /\ iterations[r] < LastIteration
      /\ size_per_process \in Nat \ {0} /\ \A q \in Ranks : iterations[r] <= Computed(q)
  BY <1>1, InExchange
<1>3. PICK n \in Nat : n = Computed(r)
  BY RankFacts
<1>4. PICK e \in Nat : e = ChangeIn(input, n + 1, Part(r))
  BY <1>1, <1>3, ErrorOfPart
<1>5. /\ \A q \in Ranks : local[q] \in [0 .. size_per_process + 1 -> Int]
                          /\ local_error[q] \in Seq(Nat)
      /\ local \in [Ranks -> [0 .. size_per_process + 1 -> Int]]
      /\ local_error \in [Ranks -> Seq(Nat)]
  BY DEF ExchangeInv, TypeOK
<1>6. /\ local' = [local EXCEPT ![r] = new_local(r)]
      /\ local_error' = [local_error EXCEPT ![r] = Append(@, e)]
  BY <1>1, <1>3, <1>4, ErrorOfPart DEF do_one_step
<1>7. /\ Append(local_error[r], e) \in Seq(Nat) /\ Len(Append(local_error[r], e)) = n + 1
      /\ Append(local_error[r], e)[n + 1] = e
      /\ \A m \in 1 .. n : Append(local_error[r], e)[m] = local_error[r][m]
  BY <1>3, <1>5, AppendProperties DEF Computed
<1>8. /\ local_error'[r] = Append(local_error[r], e)
      /\ \A q \in Ranks \ {r} : local_error'[q] = local_error[q] /\ local'[q] = local[q]
      /\ local'[r] = new_local(r)
  BY <1>5, <1>6
<1>9. /\ Ranks' = Ranks /\ input' = input /\ size_per_process' = size_per_process
      /\ LastIteration' = LastIteration /\ orchestrator \in Ranks
      /\ \A q : Part(q)' = Part(q)
      /\ \A q, k : RingCell(q, k)' = RingCell(q, k)
  BY <1>1, SameProblem, RankFacts
<1>10. /\ Computed(r)' = n + 1 /\ \A q \in Ranks \ {r} : Computed(q)' = Computed(q)
  BY <1>7, <1>8 DEF Computed
<1>11. TypeOK'
  <2>1. local' \in [Ranks -> [0 .. size_per_process + 1 -> Int]]
    BY <1>1, <1>5, <1>6, PartOfNext
  <2>2. local_error' \in [Ranks -> Seq(Nat)]
    BY <1>5, <1>6, <1>7
  <2>3. QED
    BY <1>1, <2>1, <2>2, TypeKept DEF ExchangeInv, TypeOK
<1>12. Starting'
  BY <1>1, StartingKept
<1>13. InStep'
  <2>1. ASSUME NEW q \in Ranks
        PROVE  /\ Computed(q)' = iterations[q] + IF pc'[q] = "reduce" THEN 1 ELSE 0
               /\ ~Iterating(q)' => iterations[q] = 0
               /\ IF pc'[q] \in {"gather", "done"} THEN iterations[q] = LastIteration
                                                   ELSE iterations[q] < LastIteration
    <3>1. CASE q = r
      BY <1>1, <1>2, <1>3, <1>10, <3>1 DEF Iterating
    <3>2. CASE q # r
      BY <1>1, <1>10, <3>2 DEF ExchangeInv, InStep, Iterating
    <3>3. QED
      BY <3>1, <3>2
  <2>2. ASSUME NEW q \in Ranks, NEW p \in Ranks PROVE iterations[q] <= Computed(p)'
    <3>1. iterations[q] <= Computed(p) /\ iterations[q] \in Nat /\ Computed(p) \in Nat
      BY RankFacts DEF ExchangeInv, InStep
    <3>2. Computed(p) <= Computed(p)'
      BY <1>3, <1>10, <3>1
    <3>3. QED
      BY <1>3, <1>10, <3>1, <3>2
  <2>3. QED
    BY <1>1, <1>9, <2>1, <2>2 DEF InStep
<1>14. PartsOfIterates'
  <2>1. HoldsPart(r)'
    <3>1. \A k \in 1 .. size_per_process :
            local'[r][k] = Iterates[input][n + 1][RingCell(r, k)]
      BY <1>1, <1>3, <1>8, PartOfNext
    <3>2. QED
      BY <1>1, <1>9, <1>10, <3>1 DEF HoldsPart
  <2>2. \A q \in Ranks \ {r} : HoldsPart(q)'
    BY <1>1, <1>8, PartKept DEF ExchangeInv, PartsOfIterates
  <2>3. QED
    BY <1>9, <2>1, <2>2 DEF PartsOfIterates
<1>15. MessagesInOrder'
  <2>1. CountsKept(r)
    BY <1>1, <1>3, <1>10 DEF CountsKept, SentLeft, SentRight, ReceivedLeft, ReceivedRight, Taken
  <2>2. \A q \in Ranks \ {r} : CountsKept(q)
    BY <1>1, <1>8, CountsSame
  <2>3. QED
    BY <1>1, <2>1, <2>2, MessagesKept
<1>16. ErrorsOfIterates'
  <2>1. ASSUME NEW q \in Ranks
        PROVE  \A m \in 1 .. Computed(q)' : local_error'[q][m] = ChangeIn(input, m, Part(q))
    <3>1. \A m \in 1 .. Computed(q) : local_error[q][m] = ChangeIn(input, m, Part(q))
      BY DEF ExchangeInv, ErrorsOfIterates
    <3>2. CASE q = r
      <4>1. \A m \in 1 .. n + 1 : m \in 1 .. n \/ m = n + 1
        OBVIOUS
      <4>2. QED
        BY <1>3, <1>4, <1>7, <1>8, <1>10, <3>1, <3>2, <4>1
    <3>3. CASE q # r
      BY <1>8, <1>10, <3>1, <3>3
    <3>4. QED
      BY <3>2, <3>3
  <2>2. \A q \in Ranks : iterations[q] > 0 => global_error[q] = Change[input][iterations[q]]
    BY DEF ExchangeInv, ErrorsOfIterates
  <2>3. QED
    BY <1>1, <1>9, <2>1, <2>2 DEF ErrorsOfIterates
<1>17. Gathered'
  BY <1>1, <1>9, GatheredKept
<1>18. QED
  BY <1>11, <1>12, <1>13, <1>14, <1>15, <1>16, <1>17 DEF ExchangeInv

(* The error that MPI_Allreduce returns is that of the whole ring.         *)
LEMMA ReducedIsChange ==
  ASSUME ExchangeInv, NEW r \in Ranks, pc[r] = "reduce",
         NEW n, n = iterations[r] + 1, \A q \in Ranks : Len(local_error[q]) >= n
  PROVE  /\ n = Computed(r) /\ n \in 1 .. LastIteration /\ n \in 1 .. MAX_ITER + 1
         /\ \A q \in Ranks : n <= Computed(q)
         /\ Reduced(n) = Change[input][n] /\ Change[input][n] \in Nat
         /\ (n > MAX_ITER \/ Change[input][n] <= ACCEPTABLE) <=> n = LastIteration
<1>1. iterations[r] \in Nat /\ input \in Inputs /\ \A q \in Ranks : Computed(q) \in Nat
  BY RankFacts
<1>2. Computed(r) = iterations[r] + 1 /\ iterations[r] < LastIteration
  BY DEF ExchangeInv, InStep
<1>3. LastIteration \in 1 .. MAX_ITER + 1 /\ MAX_ITER \in Nat
  BY <1>1, LastIterationFacts, JacobiAssumption
<1>4. n \in 1 .. LastIteration /\ n \in 1 .. MAX_ITER + 1
  BY <1>1, <1>2, <1>3
<1>5. \A q \in Ranks : n <= Computed(q) /\ n \in 1 .. Computed(q)
  BY <1>1, <1>4 DEF Computed
<1>6. np \in NPs /\ ARR_SIZE % np = 0
  BY SizesDivide
<1> DEFINE e == [q \in Ranks |-> local_error[q][n]]
<1>7. \A q \in Ranks : e[q] = ChangeIn(input, n, Part(q))
  BY <1>5 DEF ExchangeInv, ErrorsOfIterates
<1>8. Max({e[q] : q \in Ranks}) = Change[input][n]
  <2> HIDE DEF e
  <2>1. QED
    BY <1>1, <1>4, <1>6, <1>7, LargestError
<1>9. {e[q] : q \in Ranks} = {local_error[q][n] : q \in Ranks}
  OBVIOUS
<1> HIDE DEF e
<1>10. Reduced(n) = Change[input][n]
  BY <1>8, <1>9 DEF Reduced
<1>11. QED
  BY <1>1, <1>2, <1>4, <1>5, <1>10, ChangeFacts, LastIterationFacts

(* All processes take the same decision with the error of the ring.        *)
LEMMA AllreduceStep ==
  ASSUME ExchangeInv, NEW r \in Ranks, Allreduce(r)
  PROVE  ExchangeInv'
<1>1. PICK n : n = iterations[r] + 1
  OBVIOUS
<1>2. /\ \A q \in Ranks : Len(local_error[q]) >= n
      /\ EndIteration(r, n, MAX_ITER, Reduced(n))
  BY <1>1 DEF Allreduce
<1>3. pc[r] = "reduce"
  BY <1>2 DEF EndIteration, Goto
<1>4. /\ n = Computed(r) /\ n \in 1 .. LastIteration /\ n \in 1 .. MAX_ITER + 1
      /\ \A q \in Ranks : n <= Computed(q)
      /\ Reduced(n) = Change[input][n] /\ Change[input][n] \in Nat
      /\ (n > MAX_ITER \/ Change[input][n] <= ACCEPTABLE) <=> n = LastIteration
  BY <1>1, <1>2, <1>3, ReducedIsChange
<1>5. PICK there \in {"gather", "exchange"} :
        /\ there = IF n = LastIteration THEN "gather" ELSE "exchange"
        /\ Goto(r, "reduce", there)
  BY <1>2, <1>4 DEF EndIteration
<1>6. /\ pc'[r] = there /\ \A q \in Ranks \ {r} : pc'[q] = pc[q]
      /\ pc' \in [Ranks -> Points]
  BY <1>5, GotoStep DEF Points
<1>7. /\ global_error' = [global_error EXCEPT ![r] = Change[input][n]]
      /\ iterations' = [iterations EXCEPT ![r] = n]
      /\ UNCHANGED <<problem, local, local_error, chan, work>>
      /\ printed' = printed \/ printed' = Append(printed, "Warning")
  BY <1>2, <1>4 DEF EndIteration
<1>8. /\ global_error \in [Ranks -> Nat] /\ iterations \in [Ranks -> 0 .. MAX_ITER + 1]
      /\ printed \in Seq({"Warning", "Converged"})
  BY DEF ExchangeInv, TypeOK
<1>9. /\ iterations'[r] = n /\ global_error'[r] = Change[input][n]
      /\ \A q \in Ranks \ {r} : iterations'[q] = iterations[q]
                                /\ global_error'[q] = global_error[q]
  BY <1>7, <1>8
<1>10. /\ Ranks' = Ranks /\ input' = input /\ size_per_process' = size_per_process
       /\ LastIteration' = LastIteration /\ orchestrator \in Ranks
       /\ \A q : Part(q)' = Part(q)
       /\ \A q, k : RingCell(q, k)' = RingCell(q, k)
  BY <1>7, SameProblem, RankFacts
<1>11. \A q \in Ranks : Computed(q)' = Computed(q)
  BY <1>7 DEF Computed
<1>12. TypeOK'
  <2>1. printed' \in Seq({"Warning", "Converged"})
    <3>1. Append(printed, "Warning") \in Seq({"Warning", "Converged"})
      BY <1>8, AppendProperties
    <3>2. QED
      BY <1>7, <1>8, <3>1
  <2>2. /\ global_error' \in [Ranks -> Nat] /\ iterations' \in [Ranks -> 0 .. MAX_ITER + 1]
    <3>1. n \in 0 .. MAX_ITER + 1
      BY <1>4
    <3>2. QED
      BY <1>4, <1>7, <1>8, <3>1
  <2>3. /\ local' \in [Ranks -> [0 .. size_per_process + 1 -> Int]]
        /\ local_error' \in [Ranks -> Seq(Nat)]
        /\ chan' \in [Ranks -> [Ranks -> Seq(Int)]] /\ work' \in [Cells -> Int]
    BY <1>7 DEF ExchangeInv, TypeOK
  <2>4. QED
    <3>1. UNCHANGED problem
      BY <1>7
    <3>2. QED
      BY <1>6, <2>1, <2>2, <2>3, <3>1, TypeKept
<1>13. Starting'
  BY <1>3, <1>6, <1>7, StartingKept
<1>14. InStep'
  <2>1. ASSUME NEW q \in Ranks
        PROVE  /\ Computed(q) = iterations'[q] + IF pc'[q] = "reduce" THEN 1 ELSE 0
               /\ ~Iterating(q)' => iterations'[q] = 0
               /\ IF pc'[q] \in {"gather", "done"} THEN iterations'[q] = LastIteration
                                                   ELSE iterations'[q] < LastIteration
               /\ \A p \in Ranks : iterations'[q] <= Computed(p)
    <3>1. CASE q = r
      <4>1. LastIteration \in Nat /\ n \in Nat /\ n <= LastIteration
        BY <1>4, RankFacts, LastIterationFacts
      <4>2. pc'[r] # "reduce" /\ Iterating(r)' /\ (pc'[r] \in {"gather", "done"} <=> n = LastIteration)
        BY <1>5, <1>6 DEF Iterating
      <4>3. QED
        BY <1>4, <1>9, <3>1, <4>1, <4>2
    <3>2. CASE q # r
      BY <1>6, <1>9, <3>2 DEF ExchangeInv, InStep, Iterating
    <3>3. QED
      BY <3>1, <3>2
  <2>2. QED
    BY <1>10, <1>11, <2>1 DEF InStep
<1>15. PartsOfIterates'
  <2>1. HoldsPart(r)'
    <3>1. HoldsPart(r) /\ Iterating(r)
      BY <1>3 DEF ExchangeInv, PartsOfIterates, Iterating
    <3>2. pc'[r] \notin {"inner", "right", "compute"}
      BY <1>5, <1>6
    <3>3. QED
      BY <1>7, <1>10, <1>11, <3>1, <3>2 DEF HoldsPart
  <2>2. \A q \in Ranks \ {r} : HoldsPart(q)'
    BY <1>6, <1>7, PartKept DEF ExchangeInv, PartsOfIterates
  <2>3. QED
    BY <1>10, <2>1, <2>2 DEF PartsOfIterates
<1>16. MessagesInOrder'
  <2>1. \A q \in Ranks : CountsKept(q)
    BY <1>3, <1>5, <1>6, <1>7, CountsSame
  <2>2. QED
    BY <1>7, <2>1, MessagesKept
<1>17. ErrorsOfIterates'
  <2>1. ASSUME NEW q \in Ranks
        PROVE  /\ \A m \in 1 .. Computed(q) : local_error[q][m] = ChangeIn(input, m, Part(q))
               /\ iterations'[q] > 0 => global_error'[q] = Change[input][iterations'[q]]
    <3>1. CASE q = r
      BY <1>9, <3>1 DEF ExchangeInv, ErrorsOfIterates
    <3>2. CASE q # r
      BY <1>9, <3>2 DEF ExchangeInv, ErrorsOfIterates
    <3>3. QED
      BY <3>1, <3>2
  <2>2. QED
    BY <1>7, <1>10, <1>11, <2>1 DEF ErrorsOfIterates
<1>18. Gathered'
  BY <1>3, <1>5, <1>6, <1>7, <1>10, GatheredKept
<1>19. QED
  BY <1>12, <1>13, <1>14, <1>15, <1>16, <1>17, <1>18 DEF ExchangeInv

(* A process that waits in MPI_Gather or is done holds its part of the     *)
(* last iterate.                                                           *)
LEMMA LastParts ==
  ASSUME ExchangeInv, NEW r \in Ranks, pc[r] \in {"gather", "done"}
  PROVE  /\ iterations[r] = LastIteration /\ Computed(r) = LastIteration
         /\ np \in NPs /\ ARR_SIZE % np = 0
         /\ \A k \in 1 .. size_per_process :
              local[r][k] = Iterates[input][LastIteration][RingCell(r, k)]
<1>1. iterations[r] = LastIteration /\ Computed(r) = iterations[r] + 0
  BY DEF ExchangeInv, InStep
<1>2. iterations[r] \in Nat /\ Iterating(r)
  BY RankFacts DEF Iterating
<1>3. Computed(r) = LastIteration
  BY <1>1, <1>2
<1>4. QED
  BY <1>1, <1>2, <1>3, SizesDivide DEF ExchangeInv, PartsOfIterates, HoldsPart

(* Process 0 takes the parts of all together, or another process is done.  *)
LEMMA GatherStep ==
  ASSUME ExchangeInv, NEW r \in Ranks, Gather(r)
  PROVE  ExchangeInv'
<1>1. /\ pc[r] = "gather" /\ pc'[r] = "done" /\ \A q \in Ranks \ {r} : pc'[q] = pc[q]
      /\ pc' \in [Ranks -> Points]
      /\ UNCHANGED <<problem, local, local_error, global_error, iterations, chan>>
  BY GotoStep DEF Gather, GatherFrom, Points, progress
<1>2. /\ Ranks' = Ranks /\ input' = input /\ LastIteration' = LastIteration
      /\ orchestrator \in Ranks /\ orchestrator' = orchestrator
  BY <1>1, SameProblem, RankFacts DEF orchestrator
<1>3. ASSUME r = orchestrator
      PROVE  /\ work' \in [Cells -> Int] /\ printed' \in Seq({"Warning", "Converged"})
             /\ Gathered'
  <2>1. \A q \in Ranks : pc[q] \in {"gather", "done"} /\ pc'[q] = "done"
    BY <1>1, <1>3 DEF Gather, GatherFrom
  <2>2. /\ work' = [c \in Cells |->
                      local[c \div size_per_process][1 + (c % size_per_process)]]
        /\ printed' = Append(printed, "Converged")
    BY <1>3 DEF Gather, GatherFrom
  <2>3. np \in NPs /\ ARR_SIZE % np = 0
    BY <2>1, LastParts
  <2>4. ASSUME NEW c \in Cells
        PROVE  local[c \div size_per_process][1 + (c % size_per_process)]
                 = Iterates[input][LastIteration][c]
    <3>1. PICK q \in Ranks, k \in 1 .. size_per_process :
            /\ q = c \div size_per_process /\ k = 1 + (c % size_per_process)
            /\ RingCell(q, k) = c
      BY <2>3, Locating
    <3>2. local[q][k] = Iterates[input][LastIteration][RingCell(q, k)]
      BY <2>1, LastParts
    <3>3. QED
      BY <3>1, <3>2
  <2>5. /\ Iterates[input][LastIteration] \in [Cells -> Int]
    <3>1. input \in Inputs /\ LastIteration \in 0 .. MAX_ITER + 1
      BY RankFacts, LastIterationFacts, JacobiAssumption
    <3>2. QED
      BY <3>1, IteratesEquation
  <2>6. work' = Iterates[input][LastIteration]
    BY <2>2, <2>4, <2>5
  <2>7. work' \in [Cells -> Int] /\ printed' \in Seq({"Warning", "Converged"})
    <3>1. printed \in Seq({"Warning", "Converged"})
      BY DEF ExchangeInv, TypeOK
    <3>2. QED
      BY <2>2, <2>5, <2>6, <3>1, AppendProperties
  <2>8. Gathered'
    BY <1>2, <2>1, <2>6 DEF Gathered
  <2>9. QED
    BY <2>7, <2>8
<1>4. ASSUME r # orchestrator
      PROVE  /\ work' \in [Cells -> Int] /\ printed' \in Seq({"Warning", "Converged"})
             /\ Gathered'
  <2>1. UNCHANGED <<work, printed>>
    BY <1>4 DEF Gather, GatherFrom, output
  <2>2. Gathered'
    BY <1>1, <1>2, <1>4, GatheredKept
  <2>3. work \in [Cells -> Int] /\ printed \in Seq({"Warning", "Converged"})
    BY DEF ExchangeInv, TypeOK
  <2>4. QED
    BY <2>1, <2>2, <2>3
<1>5. /\ work' \in [Cells -> Int] /\ printed' \in Seq({"Warning", "Converged"})
      /\ Gathered'
  BY <1>3, <1>4
<1>6. TypeOK'
  BY <1>1, <1>5, TypeKept DEF ExchangeInv, TypeOK
<1>7. Starting'
  BY <1>1, StartingKept
<1>8. InStep'
  BY <1>1, InStepKept DEF ExchangeInv, Iterating
<1>9. PartsOfIterates'
  <2>1. HoldsPart(r)'
    <3>1. HoldsPart(r) /\ Iterating(r) /\ Computed(r)' = Computed(r)
      BY <1>1 DEF ExchangeInv, PartsOfIterates, Iterating, Computed
    <3>2. /\ input' = input /\ size_per_process' = size_per_process
          /\ \A k : RingCell(r, k)' = RingCell(r, k)
      BY <1>1, SameProblem
    <3>3. QED
      BY <1>1, <3>1, <3>2 DEF HoldsPart
  <2>2. \A q \in Ranks \ {r} : HoldsPart(q)'
    BY <1>1, PartKept DEF ExchangeInv, PartsOfIterates
  <2>3. QED
    BY <1>2, <2>1, <2>2 DEF PartsOfIterates
<1>10. MessagesInOrder'
  BY <1>1, CountsSame, MessagesKept
<1>11. ErrorsOfIterates'
  BY <1>1, ErrorsKept DEF ExchangeInv
<1>12. QED
  BY <1>5, <1>6, <1>7, <1>8, <1>9, <1>10, <1>11 DEF ExchangeInv

(* The invariant holds initially.                                          *)
LEMMA JacobiStarts ==
  ASSUME Init PROVE ExchangeInv
<1>1. /\ np \in NPs /\ input \in Inputs /\ np \in Nat \ {0} /\ ARR_SIZE \in Nat \ {0}
      /\ input \in [Cells -> Int]
  BY JacobiAssumption DEF Init
<1>2. orchestrator \in Ranks
  BY <1>1 DEF Ranks, orchestrator
<1>3. /\ pc = [r \in Ranks |-> IF r = orchestrator THEN "read" ELSE "bcast"]
      /\ local = [r \in Ranks |-> [k \in 0 .. size_per_process + 1 |-> 0]]
      /\ local_error = [r \in Ranks |-> << >>]
      /\ global_error = [r \in Ranks |-> ACCEPTABLE + 1]
      /\ iterations = [r \in Ranks |-> 0]
      /\ chan = [p \in Ranks |-> [q \in Ranks |-> << >>]]
      /\ work = input /\ printed = << >>
  BY DEF Init
<1>4. \A r \in Ranks : /\ pc[r] \in {"read", "bcast"} /\ Computed(r) = 0 /\ iterations[r] = 0
                       /\ (pc[r] = "read" <=> r = orchestrator)
  BY <1>3 DEF Computed
<1>5. TypeOK
  <2>1. << >> \in Seq(Nat) /\ << >> \in Seq(Int) /\ << >> \in Seq({"Warning", "Converged"})
    OBVIOUS
  <2>2. ACCEPTABLE + 1 \in Nat /\ 0 \in 0 .. MAX_ITER + 1
    BY JacobiAssumption
  <2>3. /\ pc \in [Ranks -> Points] /\ local_error \in [Ranks -> Seq(Nat)]
        /\ global_error \in [Ranks -> Nat] /\ iterations \in [Ranks -> 0 .. MAX_ITER + 1]
    BY <1>3, <2>1, <2>2 DEF Points
  <2>4. /\ chan \in [Ranks -> [Ranks -> Seq(Int)]]
        /\ local \in [Ranks -> [0 .. size_per_process + 1 -> Int]]
    BY <1>3, <2>1
  <2>5. QED
    BY <1>1, <1>3, <2>1, <2>3, <2>4 DEF TypeOK
<1>6. Starting
  BY <1>2, <1>4 DEF Starting
<1>7. LastIteration \in Nat /\ 0 < LastIteration
  BY <1>1, LastIterationFacts
<1>8. InStep
  BY <1>4, <1>7 DEF InStep, Iterating
<1>9. PartsOfIterates
  BY <1>4 DEF PartsOfIterates, HoldsPart, Iterating
<1>10. MessagesInOrder
  <2>1. \A r \in Ranks : /\ SentLeft(r) = 0 /\ ReceivedRight(r) = 0
                         /\ SentRight(r) = 0 /\ ReceivedLeft(r) = 0
    BY <1>4 DEF SentLeft, SentRight, ReceivedLeft, ReceivedRight, Taken
  <2>2. \A r \in Ranks : left_process(r) \in Ranks /\ right_process(r) \in Ranks
    BY <1>1, Neighbours
  <2>3. \A c : InFlight(0, 0, c) = << >>
    BY DEF InFlight
  <2>4. ASSUME NEW p \in Ranks, NEW q \in Ranks PROVE chan[p][q] = UnderWay(p, q)
    <3>1. UnderWay(p, q) = << >> \o << >>
      BY <2>1, <2>3, UnderWayIs
    <3>2. QED
      BY <1>3, <3>1, OneMessage
  <2>5. QED
    BY <2>1, <2>2, <2>4 DEF MessagesInOrder
<1>11. ErrorsOfIterates
  BY <1>4 DEF ErrorsOfIterates
<1>12. Gathered
  BY <1>2, <1>4 DEF Gathered
<1>13. QED
  BY <1>5, <1>6, <1>8, <1>9, <1>10, <1>11, <1>12 DEF ExchangeInv

(* A step that changes nothing keeps it.                                   *)
LEMMA JacobiStutters ==
  ASSUME ExchangeInv, UNCHANGED vars
  PROVE  ExchangeInv'
<1>1. UNCHANGED <<problem, pc, local, local_error, global_error, iterations, chan, work, printed>>
  BY DEF vars, progress, output
<1>2. Ranks' = Ranks /\ orchestrator \in Ranks /\ orchestrator' = orchestrator
      /\ LastIteration' = LastIteration /\ input' = input
  BY <1>1, SameProblem, RankFacts DEF orchestrator
<1>3. TypeOK'
  BY <1>1, TypeKept DEF ExchangeInv, TypeOK
<1>4. Starting'
  BY <1>1, StartingKept
<1>5. InStep'
  BY <1>1, InStepKept DEF ExchangeInv, Iterating
<1>6. PartsOfIterates'
  BY <1>1, <1>2, PartKept DEF ExchangeInv, PartsOfIterates
<1>7. MessagesInOrder'
  BY <1>1, CountsSame, MessagesKept
<1>8. ErrorsOfIterates'
  BY <1>1, ErrorsKept DEF ExchangeInv
<1>9. Gathered'
  BY <1>1, <1>2 DEF ExchangeInv, Gathered
<1>10. QED
  BY <1>3, <1>4, <1>5, <1>6, <1>7, <1>8, <1>9 DEF ExchangeInv

(* Every step keeps it.                                                    *)
LEMMA JacobiSteps ==
  ASSUME ExchangeInv, [Next]_vars
  PROVE  ExchangeInv'
<1>1. ASSUME NEW r \in Ranks, Step(r) PROVE ExchangeInv'
  <2>1. CASE ReadProblem(r)
    BY <2>1, ReadProblemStep
  <2>2. CASE Abort(r)
    BY <2>2, AbortStep
  <2>3. CASE Bcast(r)
    BY <2>3, BcastStep
  <2>4. CASE Scatter(r)
    BY <2>4, ScatterStep
  <2>5. CASE SendLeft(r)
    BY <2>5, SendLeftStep
  <2>6. CASE RecvRight(r)
    BY <2>6, RecvRightStep
  <2>7. CASE SendRight(r)
    BY <2>7, SendRightStep
  <2>8. CASE RecvLeft(r)
    BY <2>8, RecvLeftStep
  <2>9. CASE do_one_step(r)
    BY <2>9, ComputeStep
  <2>10. CASE Allreduce(r)
    BY <2>10, AllreduceStep
  <2>11. CASE Gather(r)
    BY <2>11, GatherStep
  <2>12. QED
    BY <1>1, <2>1, <2>2, <2>3, <2>4, <2>5, <2>6, <2>7, <2>8, <2>9, <2>10, <2>11 DEF Step
<1>2. CASE Terminated \/ UNCHANGED vars
  BY <1>2, JacobiStutters DEF Terminated
<1>3. QED
  BY <1>1, <1>2 DEF Next

(* On every ring, divided among any number of processes, each process      *)
(* holds its part of an iterate of the whole ring, with the neighbouring   *)
(* cells of the same iterate in its ghost cells when it computes, and what *)
(* is under way between two processes is what their counts of the halves   *)
(* of the exchanges say (jacobi.cpp:78-123).                               *)
THEOREM JacobiExchange == Safety => []ExchangeInv
<1>1. Init => ExchangeInv
  BY JacobiStarts
<1>2. ExchangeInv /\ [Next]_vars => ExchangeInv'
  BY JacobiSteps
<1>3. QED
  BY <1>1, <1>2, PTL DEF Safety

(* All leave the loop in the iteration in which a sequential program       *)
(* would, and none is more than one ahead (jacobi.cpp:104-121).            *)
THEOREM JacobiLeavesTogether == Safety => []LeaveTogether
<1>1. ExchangeInv => LeaveTogether
  <2>1. SUFFICES ASSUME ExchangeInv, NEW r \in Ranks, NEW q \in Ranks
                 PROVE  /\ pc[r] \in {"gather", "done"} => iterations[r] = LastIteration
                        /\ iterations[r] <= LastIteration
                        /\ iterations[r] <= iterations[q] + 1
    BY DEF LeaveTogether
  <2>2. /\ iterations[r] \in Nat /\ iterations[q] \in Nat /\ Computed(q) \in Nat
        /\ LastIteration \in Nat
    BY <2>1, RankFacts, LastIterationFacts
  <2>3. /\ IF pc[r] \in {"gather", "done"} THEN iterations[r] = LastIteration
                                           ELSE iterations[r] < LastIteration
        /\ iterations[r] <= Computed(q)
        /\ Computed(q) = iterations[q] + IF pc[q] = "reduce" THEN 1 ELSE 0
    BY <2>1 DEF ExchangeInv, InStep
  <2>4. QED
    BY <2>2, <2>3
<1>2. QED
  BY <1>1, JacobiExchange, PTL

(* What process 0 gathers and prints is what a sequential program would,   *)
(* and no message is left behind (jacobi.cpp:125-134).                     *)
THEOREM JacobiPrintsResult == Safety => []PrintsSequentialResult
<1>1. ASSUME ExchangeInv PROVE PrintsSequentialResult
  <2>1. SUFFICES ASSUME pc[orchestrator] = "done"
                 PROVE  /\ work = Iterates[input][LastIteration]
                        /\ global_error[orchestrator] = Change[input][LastIteration]
                        /\ \A p, q \in Ranks : chan[p][q] = << >>
    BY DEF PrintsSequentialResult
  <2>2. orchestrator \in Ranks /\ LastIteration \in Nat /\ LastIteration > 0
    BY <1>1, RankFacts, LastIterationFacts
  <2>3. work = Iterates[input][LastIteration] /\ \A r \in Ranks : pc[r] = "done"
    BY <1>1, <2>1 DEF ExchangeInv, Gathered
  <2>4. \A r \in Ranks : Computed(r) = LastIteration /\ iterations[r] = LastIteration
    BY <1>1, <2>3, LastParts
  <2>5. global_error[orchestrator] = Change[input][LastIteration]
    BY <1>1, <2>2, <2>4 DEF ExchangeInv, ErrorsOfIterates
  <2>6. ASSUME NEW p \in Ranks, NEW q \in Ranks PROVE chan[p][q] = << >>
    <3>1. PICK m \in Nat : m = LastIteration
      BY <2>2
    <3>2. \A r \in Ranks : /\ SentLeft(r) = m /\ ReceivedRight(r) = m
                           /\ SentRight(r) = m /\ ReceivedLeft(r) = m
      BY <2>3, <2>4, <3>1 DEF SentLeft, SentRight, ReceivedLeft, ReceivedRight, Taken
    <3>3. \A c : InFlight(m, m, c) = << >>
      BY <3>1 DEF InFlight
    <3>4. UnderWay(p, q) = << >> \o << >>
      BY <3>2, <3>3, UnderWayIs
    <3>5. chan[p][q] = UnderWay(p, q)
      BY <1>1 DEF ExchangeInv, MessagesInOrder
    <3>6. QED
      BY <3>4, <3>5, OneMessage
  <2>7. QED
    BY <2>3, <2>5, <2>6
<1>2. QED
  BY <1>1, JacobiExchange, PTL

(* Process 0 says that it has converged when it prints, at its end.        *)
SaysAtEnd == (\E k \in DOMAIN printed : printed[k] = "Converged") => pc[orchestrator] = "done"

(* A warning is printed in the loop, which does not say so.                *)
LEMMA SaysNextAtEnd ==
  ASSUME ExchangeInv, SaysAtEnd, [Next]_vars
  PROVE  SaysAtEnd'
<1>1. orchestrator \in Ranks /\ pc \in [Ranks -> Points] /\ printed \in Seq({"Warning", "Converged"})
  BY RankFacts DEF ExchangeInv, TypeOK
<1>2. PICK o \in Ranks : o = orchestrator /\ o = orchestrator'
  BY <1>1 DEF orchestrator
<1>3. CASE UNCHANGED <<pc, printed>>
  BY <1>3, <1>2 DEF SaysAtEnd
<1>4. ASSUME NEW r \in Ranks, Step(r), ~Gather(r)
      PROVE  /\ pc[o] # "done" \/ pc'[o] = pc[o]
             /\ printed' \in {printed, Append(printed, "Warning")}
  <2>1. CASE ReadProblem(r) \/ Abort(r) \/ Bcast(r) \/ Scatter(r)
    <3>1. CASE Abort(r)
      <4>1. ~(pc[o] = "done")
        BY <1>1, <1>2, <3>1 DEF Abort, ExchangeInv, Starting
      <4>2. QED
        BY <3>1, <4>1 DEF Abort, output
    <3>2. CASE ReadProblem(r) \/ Bcast(r) \/ Scatter(r)
      <4>1. pc[r] # "done" /\ \A q \in Ranks \ {r} : pc'[q] = pc[q]
        BY <1>1, <3>2 DEF ReadProblem, Bcast, Scatter, Goto
      <4>2. printed' = printed
        BY <3>2 DEF ReadProblem, Bcast, Scatter, output
      <4>3. QED
        BY <1>2, <4>1, <4>2
    <3>3. QED
      BY <2>1, <3>1, <3>2
  <2>2. CASE SendLeft(r) \/ RecvRight(r) \/ SendRight(r) \/ RecvLeft(r) \/ do_one_step(r)
    <3>1. pc[r] # "done" /\ \A q \in Ranks \ {r} : pc'[q] = pc[q]
      BY <1>1, <2>2 DEF SendLeft, RecvRight, SendRight, RecvLeft, do_one_step, Goto
    <3>2. printed' = printed
      BY <2>2 DEF SendLeft, RecvRight, SendRight, RecvLeft, Send, Recv, do_one_step, output
    <3>3. QED
      BY <1>2, <3>1, <3>2
  <2>3. CASE Allreduce(r)
    <3>1. pc[r] # "done" /\ \A q \in Ranks \ {r} : pc'[q] = pc[q]
      BY <1>1, <2>3 DEF Allreduce, EndIteration, Goto
    <3>2. printed' \in {printed, Append(printed, "Warning")}
      BY <2>3 DEF Allreduce, EndIteration
    <3>3. QED
      BY <1>2, <3>1, <3>2
  <2>4. QED
    BY <1>4, <2>1, <2>2, <2>3 DEF Step
<1>5. ASSUME NEW r \in Ranks, Step(r), ~Gather(r) PROVE SaysAtEnd'
  <2>1. SUFFICES ASSUME NEW k \in DOMAIN printed', printed'[k] = "Converged"
                 PROVE  pc'[o] = "done"
    BY <1>2 DEF SaysAtEnd
  <2>2. k \in DOMAIN printed /\ printed[k] = "Converged"
    BY <1>1, <1>4, <1>5, <2>1
  <2>3. pc[o] = "done"
    BY <1>2, <2>2 DEF SaysAtEnd
  <2>4. QED
    BY <1>4, <1>5, <2>3
<1>6. ASSUME NEW r \in Ranks, Gather(r) PROVE SaysAtEnd'
  <2>1. pc'[r] = "done" /\ \A q \in Ranks \ {r} : pc'[q] = pc[q]
    BY <1>1, <1>6 DEF Gather, GatherFrom, Goto
  <2>2. CASE r = o
    BY <1>2, <2>1, <2>2 DEF SaysAtEnd
  <2>3. CASE r # o
    <3>1. printed' = printed /\ pc'[o] = pc[o]
      BY <1>2, <1>6, <2>1, <2>3 DEF Gather, GatherFrom, output
    <3>2. QED
      BY <1>2, <3>1 DEF SaysAtEnd
  <2>4. QED
    BY <2>2, <2>3
<1>7. QED
  BY <1>3, <1>5, <1>6 DEF Next, Terminated, vars, output

(* If a sequential program converges within the limit, the error is        *)
(* acceptable when process 0 prints that it has converged                  *)
(* (jacobi.cpp:104-121, 132), on every ring and with any number of         *)
(* processes: the run mpi_jacobi_converged shows what happens otherwise.   *)
THEOREM JacobiConvergedWithinLimit ==
  Safety => [](LastIteration <= MAX_ITER => ConvergedWhenPrinted)
<1>1. Init => SaysAtEnd
  BY DEF Init, SaysAtEnd
<1>2. ExchangeInv /\ SaysAtEnd /\ [Next]_vars => SaysAtEnd'
  BY SaysNextAtEnd
<1>3. ASSUME ExchangeInv, PrintsSequentialResult, SaysAtEnd, LastIteration <= MAX_ITER,
             NEW k \in DOMAIN printed, printed[k] = "Converged"
      PROVE  global_error[orchestrator] <= ACCEPTABLE
  <2>1. global_error[orchestrator] = Change[input][LastIteration]
    BY <1>3 DEF SaysAtEnd, PrintsSequentialResult
  <2>2. PICK m \in Nat : m = LastIteration /\ m \in 1 .. MAX_ITER + 1
    BY <1>3, RankFacts, LastIterationFacts, JacobiAssumption
  <2>3. m \in 1 .. m /\ ~(m > MAX_ITER)
    BY <1>3, <2>2, JacobiAssumption
  <2>4. m > MAX_ITER \/ Change[input][m] <= ACCEPTABLE
    BY <1>3, <2>2, <2>3, RankFacts, LastIterationFacts
  <2>5. QED
    BY <2>1, <2>2, <2>3, <2>4
<1>4. ExchangeInv /\ PrintsSequentialResult /\ SaysAtEnd
        => (LastIteration <= MAX_ITER => ConvergedWhenPrinted)
  BY <1>3 DEF ConvergedWhenPrinted
<1>5. QED
  BY <1>1, <1>2, <1>4, JacobiExchange, JacobiPrintsResult, PTL DEF Safety
=============================================================================
