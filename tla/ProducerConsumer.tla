--------------------------- MODULE ProducerConsumer ---------------------------
(***************************************************************************)
(* producer-consumer/goodProducerConsumer.c and badProducerConsumer.c: the *)
(* producer stores 1, 2, .., numIters in the shared int data, the consumer *)
(* adds up what it finds there numIters times.  Only the good program      *)
(* (synchronized) waits for and posts the semaphores empty and full.       *)
(*                                                                         *)
(* Overflow of int, whose values are -INT_MAX - 1 .. INT_MAX, is undefined *)
(* in C; the model has what the usual unoptimised build produces, which    *)
(* wraps around.                                                           *)
(***************************************************************************)
EXTENDS Integers, Sequences

CONSTANTS
  MaxIters,   \* bound on numIters, the argument of the program
  INT_MAX

ASSUME ProdConsAssumption == INT_MAX \in Nat \ {0} /\ MaxIters \in 0 .. INT_MAX - 1

Wrap(x) == ((x + INT_MAX + 1) % (2 * (INT_MAX + 1))) - INT_MAX - 1

(* int division rounds towards 0                                           *)
Half(x) == IF x < 0 THEN -((-x) \div 2) ELSE x \div 2

VARIABLES
  synchronized,   \* which of the two programs this is
  numIters,
  empty, full,    \* values of the semaphores
  data,           \* the shared buffer
  ppc, produced,  \* the producer: where it is, and its loop variable
  cpc, consumed,  \* the consumer
  total,
  fetched,        \* history: the values it has added to total
  mpc,            \* main
  reported         \* what the consumer prints: << >>, or <<total, expected>>

program == <<synchronized, numIters>>

sums == <<total, fetched, reported>>

pcvars == <<program, empty, full, data, ppc, produced, cpc, consumed, sums, mpc>>

IntRange == -INT_MAX - 1 .. INT_MAX

ProdConsTypeOK ==
  /\ synchronized \in BOOLEAN
  /\ numIters \in 0 .. MaxIters
  /\ empty \in {0, 1} /\ full \in {0, 1}
  /\ data \in 0 .. numIters
  /\ ppc \in {"unborn", "loop", "store", "post", "exited"}
  /\ produced \in 1 .. numIters + 1
  /\ cpc \in {"unborn", "loop", "load", "post", "exited"}
  /\ consumed \in 0 .. numIters
  /\ total \in IntRange
  /\ fetched \in Seq(0 .. numIters)
  /\ mpc \in {"create1", "create2", "join1", "join2", "done"}
  /\ reported = << >> \/ reported \in IntRange \X IntRange

ProdConsInit ==
  /\ synchronized \in BOOLEAN
  /\ numIters \in 0 .. MaxIters
  /\ empty = 1
  /\ full = 0
  /\ data = 0
  /\ ppc = "unborn"
  /\ produced = 1
  /\ cpc = "unborn"
  /\ consumed = 0
  /\ total = 0
  /\ fetched = << >>
  /\ mpc = "create1"
  /\ reported = << >>

-----------------------------------------------------------------------------
(* main                                                                    *)
MainProgram ==
  /\ \/ mpc = "create1" /\ mpc' = "create2" /\ ppc' = "loop" /\ UNCHANGED cpc
     \/ mpc = "create2" /\ mpc' = "join1" /\ cpc' = "loop" /\ UNCHANGED ppc
     \/ mpc = "join1" /\ ppc = "exited" /\ mpc' = "join2" /\ UNCHANGED <<ppc, cpc>>
     \/ mpc = "join2" /\ cpc = "exited" /\ mpc' = "done" /\ UNCHANGED <<ppc, cpc>>
  /\ UNCHANGED <<program, empty, full, data, produced, consumed, sums>>

-----------------------------------------------------------------------------
(* Producer: the loop test and sem_wait(&empty), the store, sem_post(&full)*)
ProducerAt(here, there) ==
  /\ ppc = here
  /\ ppc' = there
  /\ UNCHANGED <<program, cpc, consumed, sums, mpc>>

(* Mutant of WaitEmpty: the producer does not wait for an empty slot.      *)
WaitEmptyNever ==
  /\ ProducerAt("loop", "store")
  /\ produced <= numIters
  /\ UNCHANGED <<empty, full, data, produced>>

WaitEmpty ==
  /\ ProducerAt("loop", "store")
  /\ produced <= numIters
  /\ IF synchronized THEN empty > 0 /\ empty' = empty - 1 ELSE UNCHANGED empty
  /\ UNCHANGED <<full, data, produced>>

StoreData(value) ==
  /\ ProducerAt("store", "post")
  /\ data' = value
  /\ UNCHANGED <<empty, full, produced>>

(* Mutant of Deposit: the numbers are stored in descending order.          *)
DepositBackwards == StoreData(numIters + 1 - produced)

Deposit == StoreData(produced)

PostFull ==
  /\ ProducerAt("post", "loop")
  /\ full' = IF synchronized THEN full + 1 ELSE full
  /\ produced' = produced + 1
  /\ UNCHANGED <<empty, data>>

ProducerReturns ==
  /\ ProducerAt("loop", "exited")
  /\ produced > numIters
  /\ UNCHANGED <<empty, full, data, produced>>

Producer == WaitEmpty \/ Deposit \/ PostFull \/ ProducerReturns

-----------------------------------------------------------------------------
(* Consumer: the loop test and sem_wait(&full), the load and addition,     *)
(* sem_post(&empty), and the report                                        *)
ConsumerAt(here, there) ==
  /\ cpc = here
  /\ cpc' = there
  /\ UNCHANGED <<program, data, ppc, produced, mpc>>

(* Mutant of WaitFull: the consumer does not wait for a full slot.         *)
WaitFullNever ==
  /\ ConsumerAt("loop", "load")
  /\ consumed < numIters
  /\ UNCHANGED <<empty, full, consumed, sums>>

WaitFull ==
  /\ ConsumerAt("loop", "load")
  /\ consumed < numIters
  /\ IF synchronized THEN full > 0 /\ full' = full - 1 ELSE UNCHANGED full
  /\ UNCHANGED <<empty, consumed, sums>>

Fetch ==
  /\ ConsumerAt("load", "post")
  /\ total' = Wrap(total + data)
  /\ fetched' = Append(fetched, data)
  /\ UNCHANGED <<empty, full, consumed, reported>>

(* Mutant of PostEmpty: the slot is not handed back.                       *)
PostEmptyNever ==
  /\ ConsumerAt("post", "loop")
  /\ consumed' = consumed + 1
  /\ UNCHANGED <<empty, full, sums>>

PostEmpty ==
  /\ ConsumerAt("post", "loop")
  /\ empty' = IF synchronized THEN empty + 1 ELSE empty
  /\ consumed' = consumed + 1
  /\ UNCHANGED <<full, sums>>

ReportAfter(items) ==
  /\ ConsumerAt("loop", "exited")
  /\ consumed >= items
  /\ reported' = <<total, Half(Wrap(numIters * (numIters + 1)))>>
  /\ UNCHANGED <<empty, full, consumed, total, fetched>>

(* Mutant of Report: the last item is not waited for.                      *)
ReportEarly == ReportAfter(numIters - 1)

Report == ReportAfter(numIters)

Consumer == WaitFull \/ Fetch \/ PostEmpty \/ Report

ProdConsTerminated == mpc = "done" /\ UNCHANGED pcvars

ProdConsNext == MainProgram \/ Producer \/ Consumer \/ ProdConsTerminated

ProdConsSafety == ProdConsInit /\ [][ProdConsNext]_pcvars

ProdConsSpec == ProdConsSafety /\ WF_pcvars(MainProgram) /\ WF_pcvars(Producer) /\ WF_pcvars(Consumer)

-----------------------------------------------------------------------------
(* With the semaphores the two threads take turns at data, in a cycle of   *)
(* four: one unit is in empty, with the producer, in full or with the      *)
(* consumer (goodProducerConsumer.c:35-36, 52-54, 63-65).                  *)
Units(b) == IF b THEN 1 ELSE 0

TakeTurns ==
  synchronized =>
    /\ empty + full + Units(ppc \in {"store", "post"}) + Units(cpc \in {"load", "post"}) = 1
    /\ empty = 1 \/ ppc \in {"store", "post"} => consumed = produced - 1
    /\ full = 1 \/ cpc \in {"load", "post"} => consumed = produced - 2
    /\ ppc = "post" => data = produced
    /\ full = 1 \/ cpc = "load" => data = produced - 1

(* So what is fetched are the numbers 1, 2, .., and total is their sum as  *)
(* long as that fits an int.                                               *)
SumTo(n) == (n * (n + 1)) \div 2

RightSum ==
  synchronized =>
    /\ \A k \in DOMAIN fetched : fetched[k] = k
    /\ SumTo(Len(fetched)) <= INT_MAX => total = SumTo(Len(fetched))

(* In both programs each thread runs its loop as often as it should, and   *)
(* what is fetched is no newer than what is stored.                        *)
Loops ==
  /\ mpc = "create1" => ppc = "unborn"
  /\ mpc \in {"create1", "create2"} => cpc = "unborn"
  /\ ppc \in {"store", "post"} => produced <= numIters
  /\ cpc \in {"load", "post"} => consumed < numIters
  /\ Len(fetched) = consumed + Units(cpc = "post")
  /\ data <= produced
  /\ \A k \in DOMAIN fetched : fetched[k] <= data

ProdConsInv == ProdConsTypeOK /\ TakeTurns /\ RightSum /\ Loops

(* With the semaphores data is a one-slot buffer between the two loops: an *)
(* item is in the slot from its store until the consumer has fetched it.   *)
(* (The other program is mapped to a buffer with nothing to do.)           *)
Slot ==
  IF ppc = "post" \/ full = 1 \/ cpc = "load" THEN <<data>> ELSE << >>

NextItem == IF ppc = "post" THEN produced + 1 ELSE produced

Buffer == INSTANCE OneSlotBuffer WITH
  todo <- IF synchronized
          THEN [k \in 1 .. numIters + 1 - NextItem |-> NextItem + k - 1] ELSE << >>,
  slot <- IF synchronized THEN Slot ELSE << >>,
  got  <- IF synchronized THEN fetched ELSE << >>

(* Every number is fetched exactly once and in order, and all of them in   *)
(* the end (goodProducerConsumer.c:48-66).                                 *)
ImplementsOneSlotBuffer == Buffer!Spec

(* Without semaphores the consumer may miss numbers and fetch others more  *)
(* than once, but never goes back to an older one or ahead of the producer *)
(* (badProducerConsumer.c:3-8, 53-64).                                     *)
FetchesNeverGoBack ==
  \A k \in DOMAIN fetched :
    /\ fetched[k] <= produced
    /\ k > 1 => fetched[k - 1] <= fetched[k]

(* The consumer's report: with semaphores the total is the right sum       *)
(* wherever that fits an int, and equals what the program says it should   *)
(* be as long as numIters*(numIters+1), twice the sum, fits an int too     *)
(* (goodProducerConsumer.c:64-68).                                         *)
ReportedSums ==
  synchronized /\ reported # << >> =>
    /\ SumTo(numIters) <= INT_MAX => reported[1] = SumTo(numIters)
    /\ numIters * (numIters + 1) <= INT_MAX => reported[1] = reported[2]

(* Both threads and main end, for every number of iterations               *)
(* (goodProducerConsumer.c:40-44).                                         *)
ProdConsTermination == <>(mpc = "done")
=============================================================================
