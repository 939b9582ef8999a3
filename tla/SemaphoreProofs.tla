---------------------------- MODULE SemaphoreProofs ----------------------------
(***************************************************************************)
(* The programs whose threads share an int, with and without semaphores.   *)
(*                                                                         *)
(* The counter programs for every number of threads and of additions: with *)
(* the semaphore main prints P*N, without it a value between LeastFinal    *)
(* and P*N.  target is compared with the set of the additions stored so    *)
(* far, which each store enlarges by one.                                  *)
(*                                                                         *)
(* The producer and the consumer for every number of iterations and every  *)
(* INT_MAX: with the semaphores they implement a one-slot buffer and the   *)
(* sum is right if it fits an int, without them the consumer never goes    *)
(* back.                                                                   *)
(***************************************************************************)
EXTENDS Counter, ProducerConsumer, FiniteSetTheorems, SequenceTheorems, TLAPS

(* A set of additions is finite and has at most P*N elements.              *)
LEMMA AdditionsFinite ==
  ASSUME NEW A \in SUBSET (Threads \X (1 .. N))
  PROVE  IsFiniteSet(A) /\ Cardinality(A) \in 0 .. P * N /\ P * N \in Nat
<1> DEFINE All == Threads \X (1 .. N)
<1>1. P \in Nat \ {0} /\ N \in Nat \ {0}
  BY CounterAssumption
<1>2. IsFiniteSet(Threads) /\ Cardinality(Threads) = P
  BY <1>1, FS_Interval DEF Threads
<1>3. IsFiniteSet(1 .. N) /\ Cardinality(1 .. N) = N
  BY <1>1, FS_Interval
<1>4. IsFiniteSet(All) /\ Cardinality(All) = P * N
  BY <1>2, <1>3, FS_Product
<1>5. IsFiniteSet(A) /\ Cardinality(A) <= P * N
  BY <1>4, FS_Subset
<1>6. Cardinality(A) \in Nat /\ P * N \in Nat
  BY <1>4, <1>5, FS_CardinalityType
<1>7. \A c, m \in Nat : c <= m => c \in 0 .. m
  OBVIOUS
<1>8. QED
  BY <1>5, <1>6, <1>7

(* There are never more than P*N additions, and all of them in the end.    *)
LEMMA AdditionsBounded ==
  /\ IsFiniteSet(Additions)
  /\ Cardinality(Additions) \in 0 .. P * N
  /\ P * N \in Nat
  /\ (\A t \in Threads : Stored(t) = N) => Cardinality(Additions) = P * N
<1>1. P \in Nat \ {0} /\ N \in Nat \ {0}
  BY CounterAssumption
<1>2. Additions \in SUBSET (Threads \X (1 .. N))
  BY DEF Additions
<1>3. (\A t \in Threads : Stored(t) = N) => Additions = Threads \X (1 .. N)
  BY <1>1 DEF Additions
<1>4. IsFiniteSet(Threads) /\ Cardinality(Threads) = P
  BY <1>1, FS_Interval DEF Threads
<1>5. IsFiniteSet(1 .. N) /\ Cardinality(1 .. N) = N
  BY <1>1, FS_Interval
<1>6. Cardinality(Threads \X (1 .. N)) = P * N
  BY <1>4, <1>5, FS_Product
<1>7. QED
  BY <1>2, <1>3, <1>6, AdditionsFinite

(* A step in which no thread stores leaves the additions as they are.      *)
LEMMA SameAdditions ==
  ASSUME \A t \in Threads : Stored(t)' = Stored(t)
  PROVE  Additions' = Additions
BY DEF Additions

(* A store adds one to them.                                               *)
LEMMA OneMoreAddition ==
  ASSUME TypeOK, NEW t \in Threads, i[t] < N, Store(t)
  PROVE  Cardinality(Additions') = Cardinality(Additions) + 1
<1> DEFINE a == <<t, i[t] + 1>>
<1>1. /\ Stored(t) = i[t] /\ Stored(t)' = i[t] + 1
      /\ \A u \in Threads \ {t} : Stored(u)' = Stored(u)
  BY DEF Stored, Store, StoreValue, Goto, TypeOK
<1>2. i[t] \in Nat /\ N \in Nat
  BY CounterAssumption DEF TypeOK
<1>3. a \notin Additions
  BY <1>1, <1>2 DEF Additions
<1>4. Additions' = Additions \cup {a}
  <2>1. ASSUME NEW b \in Threads \X (1 .. N)
        PROVE  b[2] <= Stored(b[1])' <=> b[2] <= Stored(b[1]) \/ b = a
    <3>1. CASE b[1] = t
      BY <3>1, <1>1, <1>2
    <3>2. CASE b[1] # t
      BY <3>2, <1>1
    <3>3. QED
      BY <3>1, <3>2
  <2>2. a \in Threads \X (1 .. N)
    BY <1>2
  <2>3. QED
    BY <2>1, <2>2 DEF Additions
<1>5. QED
  BY <1>3, <1>4, AdditionsBounded, FS_AddElement

(* The properties of the two programs are inductive together: both need    *)
(* the types and the progress of the threads.                              *)
CountInv == CounterInv /\ BoundedLoss

LEMMA InitInv == Init => CountInv
<1> SUFFICES ASSUME Init PROVE CountInv
  OBVIOUS
<1> USE CounterAssumption DEF Init
<1>1. TypeOK
  BY DEF TypeOK, Threads
<1>2. Progress
  BY DEF Progress, InAddition
<1>3. \A t \in Threads : Stored(t) = 0 /\ ~InAddition(t)
  BY DEF Stored, InAddition
<1>4. Additions = {}
  BY <1>3 DEF Additions
<1>5. Cardinality(Additions) = 0
  BY <1>4, FS_EmptySet
<1>6. NoLostUpdate
  BY <1>3, <1>5 DEF NoLostUpdate
<1>7. BoundedLoss
  <2>1. 0 \in Threads
    BY DEF Threads
  <2>2. QED
    BY <1>3, <1>5, <2>1 DEF BoundedLoss
<1>8. QED
  BY <1>1, <1>2, <1>6, <1>7 DEF CountInv, CounterInv

(* CreateThread, JoinThread and Return store nothing and change nothing    *)
(* that the additions depend on.                                           *)
LEMMA MainStepInv == ASSUME CountInv, MainStep PROVE CountInv'
<1> USE CounterAssumption DEF CountInv, CounterInv
<1>1. CASE CreateThread
  <2> USE <1>1 DEF CreateThread, Goto
  <2>0. created \in Threads
    BY DEF TypeOK, Threads
  <2>1. TypeOK'
    BY <2>0 DEF TypeOK, Threads
  <2>2. /\ \A t \in Threads : Stored(t)' = Stored(t)
        /\ \A t \in Threads : InAddition(t)' <=> InAddition(t)
    BY <2>0 DEF Stored, InAddition, TypeOK
  <2>3. Additions' = Additions
    BY <2>2, SameAdditions
  <2>4. Progress'
    BY <2>0, <2>2 DEF Progress, TypeOK
  <2>5. NoLostUpdate'
    BY <2>0, <2>2, <2>3 DEF NoLostUpdate, TypeOK
  <2>6. BoundedLoss'
    BY <2>0, <2>2, <2>3 DEF BoundedLoss, TypeOK
  <2>7. QED
    BY <2>1, <2>4, <2>5, <2>6
<1>2. CASE JoinThread
  <2> USE <1>2 DEF JoinThread
  <2>1. TypeOK'
    BY DEF TypeOK
  <2>2. Progress'
    BY DEF Progress, InAddition, TypeOK
  <2>3. \A t \in Threads : Stored(t)' = Stored(t) /\ (InAddition(t)' <=> InAddition(t))
    BY DEF Stored, InAddition
  <2>4. Additions' = Additions
    BY <2>3, SameAdditions
  <2>5. NoLostUpdate' /\ BoundedLoss'
    BY <2>3, <2>4 DEF NoLostUpdate, BoundedLoss
  <2>6. QED
    BY <2>1, <2>2, <2>5
<1>3. CASE PrintTarget
  <2> USE <1>3 DEF PrintTarget
  <2>1. TypeOK'
    BY DEF TypeOK
  <2>2. \A t \in Threads : Stored(t)' = Stored(t) /\ (InAddition(t)' <=> InAddition(t))
    BY DEF Stored, InAddition
  <2>3. Additions' = Additions
    BY <2>2, SameAdditions
  <2>4. Progress' /\ NoLostUpdate'
    BY <2>2, <2>3 DEF Progress, NoLostUpdate
  <2>5. \A t \in Threads : Stored(t) = N
    BY DEF Progress, Stored, Threads
  <2>6. guarded => printed' = P * N
    BY <2>5, AdditionsBounded DEF NoLostUpdate
  <2>7. BoundedLoss'
    BY <2>2, <2>3, <2>5, AdditionsBounded DEF BoundedLoss, TypeOK
  <2>8. QED
    BY <2>1, <2>4, <2>6, <2>7
<1>4. QED
  BY <1>1, <1>2, <1>3 DEF MainStep

LEMMA StartAdditionInv ==
  ASSUME CountInv, NEW t \in Threads, StartAddition(t)
  PROVE  CountInv'
<1> USE DEF CountInv, CounterInv, StartAddition, Goto, mainvars
<1>1. TypeOK'
  BY DEF TypeOK
<1>2. \A u \in Threads : Stored(u)' = Stored(u)
  BY DEF Stored, TypeOK
<1>3. Additions' = Additions
  BY <1>2, SameAdditions
<1>4. Progress'
  BY DEF Progress, InAddition, TypeOK
<1>5. \A u \in Threads : InAddition(u)' <=> InAddition(u) \/ u = t
  BY DEF InAddition, TypeOK
<1>6. NoLostUpdate'
  BY <1>3, <1>5 DEF NoLostUpdate, TypeOK
<1>7. BoundedLoss'
  BY <1>2, <1>3 DEF BoundedLoss, TypeOK, Progress
<1>8. QED
  BY <1>1, <1>4, <1>6, <1>7

LEMMA LoadInv == ASSUME CountInv, NEW t \in Threads, Load(t) PROVE CountInv'
<1> USE DEF CountInv, CounterInv, Load, Goto, mainvars
<1>1. TypeOK'
  BY DEF TypeOK
<1>2. \A u \in Threads : /\ Stored(u)' = Stored(u)
                         /\ InAddition(u)' <=> InAddition(u)
  BY DEF Stored, InAddition, TypeOK
<1>3. Additions' = Additions
  BY <1>2, SameAdditions
<1>4. Progress'
  BY DEF Progress, InAddition, TypeOK
<1>5. NoLostUpdate'
  BY <1>2, <1>3 DEF NoLostUpdate, InAddition, TypeOK
<1>6. BoundedLoss'
  <2>1. i[t] >= 1 => Stored(t) >= 1
    BY DEF Stored
  <2>2. QED
    BY <1>2, <1>3, <2>1 DEF BoundedLoss, TypeOK
<1>7. QED
  BY <1>1, <1>4, <1>5, <1>6

(* The sum stored counts the additions made before, and this one: with the *)
(* semaphore exactly, without it at most.                                  *)
LEMMA StoreInv == ASSUME CountInv, NEW t \in Threads, Store(t) PROVE CountInv'
<1> USE DEF CountInv, CounterInv, Store, StoreValue, Goto, mainvars
<1>1. InAddition(t) /\ i[t] < N
  BY DEF Progress, InAddition
<1>2. Cardinality(Additions') = Cardinality(Additions) + 1
  BY <1>1, OneMoreAddition
<1>3. /\ Cardinality(Additions) \in 0 .. P * N
      /\ Cardinality(Additions') \in 0 .. P * N
  <2>1. Additions' \in SUBSET (Threads \X (1 .. N))
    BY DEF Additions
  <2>2. QED
    BY <2>1, AdditionsFinite, AdditionsBounded
<1>4. /\ Stored(t)' = i[t] + 1
      /\ \A u \in Threads \ {t} : Stored(u)' = Stored(u)
      /\ \A u \in Threads : InAddition(u)' <=> InAddition(u)
  BY DEF Stored, InAddition, TypeOK
<1>5. target' = loaded[t] + 1 /\ loaded[t] \in Nat /\ i[t] \in Nat /\ N \in Nat \ {0}
  BY CounterAssumption DEF TypeOK
<1>6. ~guarded => target' <= Cardinality(Additions')
  BY <1>2, <1>3, <1>5 DEF BoundedLoss
<1>7. TypeOK'
  BY <1>5 DEF TypeOK
<1>8. Progress'
  BY DEF Progress, InAddition, TypeOK
<1>9. NoLostUpdate'
  BY <1>1, <1>2, <1>4, <1>5 DEF NoLostUpdate, TypeOK, InAddition
<1>10. BoundedLoss'
  <2>1. ~guarded => \A u \in Threads : loaded[u] <= Cardinality(Additions')
    BY <1>2, <1>3 DEF BoundedLoss, TypeOK
  <2>2. ~guarded /\ (\A u \in Threads : Stored(u)' = N) => target' >= LeastFinal
    BY <1>4, <1>5 DEF BoundedLoss, LeastFinal
  <2>3. QED
    BY <1>4, <1>5, <1>6, <2>1, <2>2 DEF BoundedLoss, TypeOK, LeastFinal
<1>11. QED
  BY <1>3, <1>5, <1>7, <1>8, <1>9, <1>10

LEMMA EndAdditionInv ==
  ASSUME CountInv, NEW t \in Threads, EndAddition(t)
  PROVE  CountInv'
<1> USE DEF CountInv, CounterInv, EndAddition, Goto, mainvars
<1>1. InAddition(t) /\ i[t] < N
  BY DEF Progress, InAddition
<1>2. TypeOK'
  BY <1>1, CounterAssumption DEF TypeOK, NoLostUpdate
<1>3. /\ \A u \in Threads : Stored(u)' = Stored(u)
      /\ \A u \in Threads : InAddition(u)' <=> InAddition(u) /\ u # t
  BY DEF Stored, InAddition, TypeOK
<1>4. Additions' = Additions
  BY <1>3, SameAdditions
<1>5. Progress'
  BY <1>1 DEF Progress, InAddition, TypeOK
<1>6. NoLostUpdate'
  BY <1>1, <1>3, <1>4 DEF NoLostUpdate, TypeOK
<1>7. BoundedLoss'
  BY <1>3, <1>4 DEF BoundedLoss, TypeOK
<1>8. QED
  BY <1>2, <1>5, <1>6, <1>7

LEMMA ReturnInv == ASSUME CountInv, NEW t \in Threads, Return(t) PROVE CountInv'
<1> USE DEF CountInv, CounterInv, Return, Goto, mainvars
<1>1. TypeOK'
  BY DEF TypeOK
<1>2. \A u \in Threads : /\ Stored(u)' = Stored(u)
                         /\ InAddition(u)' <=> InAddition(u)
  BY DEF Stored, InAddition, TypeOK
<1>3. Additions' = Additions
  BY <1>2, SameAdditions
<1>4. Progress'
  BY CounterAssumption DEF Progress, InAddition, TypeOK
<1>5. NoLostUpdate' /\ BoundedLoss'
  BY <1>2, <1>3 DEF NoLostUpdate, BoundedLoss, TypeOK
<1>6. QED
  BY <1>1, <1>4, <1>5

(* A step that changes nothing keeps the invariant.                        *)
LEMMA StutterInv == ASSUME CountInv, UNCHANGED vars PROVE CountInv'
BY DEF vars, mainvars, CountInv, CounterInv, TypeOK, Progress, NoLostUpdate, BoundedLoss,
       InAddition, Stored, Additions

LEMMA NextInv == ASSUME CountInv, [Next]_vars PROVE CountInv'
<1>1. CASE MainStep
  BY <1>1, MainStepInv
<1>2. ASSUME NEW t \in Threads, ThreadStep(t) PROVE CountInv'
  BY <1>2, StartAdditionInv, LoadInv, StoreInv, EndAdditionInv, ReturnInv DEF ThreadStep
<1>3. CASE UNCHANGED vars
  BY <1>3, StutterInv
<1>4. QED
  BY <1>1, <1>2, <1>3 DEF Next, Terminated

(* CountInv is an invariant of both programs.                              *)
LEMMA CountInvariant == Safety => []CountInv
BY InitInv, NextInv, PTL DEF Safety

(* goodCounter.c:33-64 counts right for all P and N.                       *)
THEOREM CounterInvariant == Safety => []CounterInv
<1>1. CountInv => CounterInv
  BY DEF CountInv
<1>2. QED
  BY <1>1, CountInvariant, PTL

(* badCounter.c:28-51 never counts an addition twice, and prints at least  *)
(* 2 (1 if N is 1) and at most P*N.                                        *)
THEOREM CounterBoundedLoss == Safety => []BoundedLoss
<1>1. CountInv => BoundedLoss
  BY DEF CountInv
<1>2. QED
  BY <1>1, CountInvariant, PTL

-----------------------------------------------------------------------------
(* The producer and the consumer                                           *)
(* What ProducerConsumer assumes of its constants, and has of its inputs   *)
(* and fetched values by types                                             *)
LEMMA PCInts ==
  ASSUME ProdConsTypeOK
  PROVE  /\ INT_MAX \in Nat \ {0} /\ numIters \in 0 .. INT_MAX - 1
         /\ produced \in 1 .. numIters + 1 /\ consumed \in 0 .. numIters
         /\ data \in 0 .. numIters
         /\ Len(fetched) \in Nat /\ DOMAIN fetched = 1 .. Len(fetched)
         /\ \A k \in DOMAIN fetched : fetched[k] \in 0 .. numIters
<1>1. INT_MAX \in Nat \ {0} /\ MaxIters \in 0 .. INT_MAX - 1 /\ numIters \in 0 .. MaxIters
  BY ProdConsAssumption DEF ProdConsTypeOK
<1>2. fetched \in Seq(0 .. numIters)
  BY DEF ProdConsTypeOK
<1>3. Len(fetched) \in Nat /\ DOMAIN fetched = 1 .. Len(fetched)
      /\ \A k \in DOMAIN fetched : fetched[k] \in 0 .. numIters
  BY <1>2, LenProperties
<1>4. QED
  BY <1>1, <1>3 DEF ProdConsTypeOK

(* Wrap yields ints, and keeps those that are.                             *)
LEMMA WrapFits ==
  ASSUME INT_MAX \in Nat \ {0}, NEW x \in Int
  PROVE  /\ Wrap(x) \in IntRange
         /\ x \in IntRange => Wrap(x) = x
<1> DEFINE m == 2 * (INT_MAX + 1)
           y == x + INT_MAX + 1
<1>1. m \in Nat \ {0} /\ y \in Int
  OBVIOUS
<1>2. y % m \in 0 .. m - 1 /\ (y \in 0 .. m - 1 => y % m = y)
  <2> HIDE DEF m, y
  <2>1. QED
    BY <1>1
<1>3. QED
  BY <1>2 DEF Wrap, IntRange

(* The sum of the first numbers, one number at a time                      *)
LEMMA NextSum ==
  ASSUME NEW n \in Nat
  PROVE  /\ SumTo(n) \in Nat /\ SumTo(n + 1) = SumTo(n) + n + 1
         /\ n * (n + 1) \in Nat /\ SumTo(n) <= n * (n + 1)
<1> DEFINE x == n * (n + 1)
<1>1. x \in Nat /\ (n + 1) * (n + 2) = x + 2 * (n + 1)
  OBVIOUS
<1>2. (x + 2 * (n + 1)) \div 2 = x \div 2 + n + 1 /\ x \div 2 \in Nat /\ x \div 2 <= x
  <2> HIDE DEF x
  <2>1. QED
    BY <1>1
<1>3. QED
  BY <1>1, <1>2 DEF SumTo

(* All of it together is inductive.                                        *)
PCInv == ProdConsInv /\ FetchesNeverGoBack /\ ReportedSums

LEMMA PCInitInv == ASSUME ProdConsInit PROVE PCInv
<1> USE DEF ProdConsInit
<1>1. << >> \in Seq(0 .. numIters) /\ Len(<< >>) = 0 /\ DOMAIN << >> = {}
  BY EmptySeq
<1>2. INT_MAX \in Nat \ {0} /\ numIters \in Nat
  BY ProdConsAssumption
<1>3. ProdConsTypeOK
  BY <1>1, <1>2 DEF ProdConsTypeOK, IntRange
<1>4. TakeTurns /\ Loops
  BY <1>1, <1>2 DEF TakeTurns, Loops, Units
<1>5. RightSum
  <2>1. SumTo(0) = 0
    BY DEF SumTo
  <2>2. QED
    BY <1>1, <2>1 DEF RightSum
<1>6. FetchesNeverGoBack /\ ReportedSums
  BY <1>1 DEF FetchesNeverGoBack, ReportedSums
<1>7. QED
  BY <1>3, <1>4, <1>5, <1>6 DEF PCInv, ProdConsInv

(* A step that fetches and reports nothing has only to keep the turns.     *)
LEMMA PCQuiet ==
  ASSUME PCInv, UNCHANGED <<program, sums>>,
         ProdConsTypeOK', TakeTurns',
         mpc' = "create1" => ppc' = "unborn",
         mpc' \in {"create1", "create2"} => cpc' = "unborn",
         ppc' \in {"store", "post"} => produced' <= numIters,
         cpc' \in {"load", "post"} => consumed' < numIters,
         consumed' + Units(cpc' = "post") = consumed + Units(cpc = "post"),
         data' <= produced', data <= data', produced <= produced'
  PROVE  PCInv'
<1> USE DEF program, sums
<1>1. /\ Len(fetched) \in Nat /\ \A k \in DOMAIN fetched : fetched[k] \in Int
      /\ data \in Int /\ produced \in Int /\ data' \in Int /\ produced' \in Int
  <2>1. data \in Int /\ produced \in Int /\ data' \in Int /\ produced' \in Int
    BY DEF PCInv, ProdConsInv, ProdConsTypeOK
  <2>2. QED
    BY <2>1, PCInts DEF PCInv, ProdConsInv
<1>2. RightSum'
  BY DEF PCInv, ProdConsInv, RightSum, SumTo
<1>3. Loops'
  BY <1>1 DEF PCInv, ProdConsInv, Loops
<1>4. FetchesNeverGoBack'
  BY <1>1 DEF PCInv, FetchesNeverGoBack
<1>5. ReportedSums'
  BY DEF PCInv, ReportedSums, SumTo
<1>6. QED
  BY <1>2, <1>3, <1>4, <1>5 DEF PCInv, ProdConsInv

LEMMA PCMainStep == ASSUME PCInv, MainProgram PROVE PCInv'
<1>1. /\ UNCHANGED <<program, empty, full, data, produced, consumed, sums>>
      /\ \/ ppc' = ppc /\ cpc' = cpc /\ mpc' \notin {"create1", "create2"}
         \/ ppc = "unborn" /\ ppc' = "loop" /\ cpc' = cpc /\ mpc = "create1" /\ mpc' = "create2"
         \/ cpc = "unborn" /\ cpc' = "loop" /\ ppc' = ppc /\ mpc' = "join1"
      /\ mpc' \in {"create2", "join1", "join2", "done"}
  BY DEF MainProgram, PCInv, ProdConsInv, Loops
<1>2. ProdConsTypeOK /\ TakeTurns /\ Loops
  BY DEF PCInv, ProdConsInv
<1>3. ProdConsTypeOK'
  BY <1>1, <1>2 DEF ProdConsTypeOK, program, sums
<1>4. TakeTurns'
  BY <1>1, <1>2 DEF TakeTurns, Units, program
<1>5. QED
  BY <1>1, <1>2, <1>3, <1>4, PCQuiet DEF Loops, ProdConsTypeOK, Units, program

LEMMA PCProducerStep == ASSUME PCInv, Producer PROVE PCInv'
<1>1. ProdConsTypeOK /\ TakeTurns /\ Loops
  BY DEF PCInv, ProdConsInv
<1>2. /\ INT_MAX \in Nat \ {0} /\ numIters \in 0 .. INT_MAX - 1
      /\ produced \in 1 .. numIters + 1 /\ consumed \in 0 .. numIters /\ data \in 0 .. numIters
      /\ empty \in {0, 1} /\ full \in {0, 1} /\ synchronized \in BOOLEAN
  BY <1>1, PCInts DEF ProdConsTypeOK
<1>3. UNCHANGED <<program, cpc, consumed, sums, mpc>>
  BY DEF Producer, WaitEmpty, Deposit, StoreData, PostFull, ProducerReturns,
         ProducerAt
<1>4. ASSUME /\ ppc' \in {"loop", "store", "post", "exited"} /\ ppc # "unborn"
             /\ empty' \in {0, 1} /\ full' \in {0, 1}
             /\ data' \in 0 .. numIters /\ data <= data' /\ data' <= produced'
             /\ produced' \in 1 .. numIters + 1 /\ produced <= produced'
             /\ ppc' \in {"store", "post"} => produced' <= numIters,
             TakeTurns'
      PROVE  PCInv'
  <2>1. ProdConsTypeOK'
    BY <1>1, <1>3, <1>4 DEF ProdConsTypeOK, program, sums
  <2>2. QED
    BY <1>1, <1>2, <1>3, <1>4, <2>1, PCQuiet DEF Loops, Units, program
<1>5. CASE WaitEmpty
  <2>1. /\ ppc = "loop" /\ ppc' = "store" /\ produced <= numIters
        /\ IF synchronized THEN empty > 0 /\ empty' = empty - 1 ELSE empty' = empty
        /\ UNCHANGED <<full, data, produced>>
    BY <1>5 DEF WaitEmpty, ProducerAt
  <2>2. TakeTurns'
    BY <1>1, <1>2, <1>3, <2>1 DEF TakeTurns, Units, program
  <2>3. QED
    BY <1>1, <1>2, <1>4, <2>1, <2>2 DEF Loops
<1>6. CASE Deposit
  <2>1. ppc = "store" /\ ppc' = "post" /\ data' = produced /\ UNCHANGED <<empty, full, produced>>
    BY <1>6 DEF Deposit, StoreData, ProducerAt
  <2>2. produced <= numIters
    BY <1>1, <2>1 DEF Loops
  <2>3. TakeTurns'
    BY <1>1, <1>2, <1>3, <2>1 DEF TakeTurns, Units, program
  <2>4. QED
    BY <1>1, <1>2, <1>4, <2>1, <2>2, <2>3 DEF Loops
<1>7. CASE PostFull
  <2>1. /\ ppc = "post" /\ ppc' = "loop" /\ full' = IF synchronized THEN full + 1 ELSE full
        /\ produced' = produced + 1 /\ UNCHANGED <<empty, data>>
    BY <1>7 DEF PostFull, ProducerAt
  <2>2. produced <= numIters /\ (synchronized => full = 0)
    BY <1>1, <1>2, <2>1 DEF Loops, TakeTurns, Units
  <2>3. TakeTurns'
    BY <1>1, <1>2, <1>3, <2>1, <2>2 DEF TakeTurns, Units, program
  <2>4. QED
    BY <1>1, <1>2, <1>4, <2>1, <2>2, <2>3 DEF Loops
<1>8. CASE ProducerReturns
  <2>1. ppc = "loop" /\ ppc' = "exited" /\ UNCHANGED <<empty, full, data, produced>>
    BY <1>8 DEF ProducerReturns, ProducerAt
  <2>2. TakeTurns'
    BY <1>1, <1>3, <2>1 DEF TakeTurns, Units, program
  <2>3. QED
    BY <1>1, <1>2, <1>4, <2>1, <2>2 DEF Loops
<1>9. QED
  BY <1>5, <1>6, <1>7, <1>8 DEF Producer

(* Fetch adds data, the newest number stored, to what was fetched.         *)
LEMMA PCFetchStep == ASSUME PCInv, Fetch PROVE PCInv'
<1>1. ProdConsTypeOK /\ TakeTurns /\ RightSum /\ Loops
  BY DEF PCInv, ProdConsInv
<1>2. /\ INT_MAX \in Nat \ {0} /\ numIters \in 0 .. INT_MAX - 1
      /\ produced \in 1 .. numIters + 1 /\ consumed \in 0 .. numIters /\ data \in 0 .. numIters
      /\ empty \in {0, 1} /\ full \in {0, 1}
      /\ Len(fetched) \in Nat /\ DOMAIN fetched = 1 .. Len(fetched)
      /\ \A k \in DOMAIN fetched : fetched[k] \in 0 .. numIters
  BY <1>1, PCInts DEF ProdConsTypeOK
<1>3. /\ cpc = "load" /\ cpc' = "post" /\ total' = Wrap(total + data)
      /\ fetched' = Append(fetched, data)
      /\ UNCHANGED <<program, empty, full, data, ppc, produced, consumed, reported, mpc>>
  BY DEF Fetch, ConsumerAt
<1>4. /\ fetched' \in Seq(0 .. numIters) /\ Len(fetched') = Len(fetched) + 1
      /\ DOMAIN fetched' = 1 .. Len(fetched) + 1
      /\ \A k \in 1 .. Len(fetched) : fetched'[k] = fetched[k]
      /\ fetched'[Len(fetched) + 1] = data
  <2>1. fetched \in Seq(0 .. numIters)
    BY <1>1 DEF ProdConsTypeOK
  <2>2. QED
    BY <2>1, <1>2, <1>3, AppendProperties, LenProperties
<1>5. total \in Int /\ total' \in IntRange /\ (total + data \in IntRange => total' = total + data)
  <2>1. total \in Int
    BY <1>1, <1>2 DEF ProdConsTypeOK, IntRange
  <2>2. QED
    BY <2>1, <1>2, <1>3, WrapFits
<1>6. ProdConsTypeOK'
  BY <1>1, <1>3, <1>4, <1>5 DEF ProdConsTypeOK, program, IntRange
<1>7. TakeTurns'
  BY <1>1, <1>2, <1>3 DEF TakeTurns, Units, program
<1>8. Loops'
  BY <1>1, <1>2, <1>3, <1>4 DEF Loops, Units, program
<1>9. RightSum'
  <2> SUFFICES ASSUME synchronized
               PROVE  /\ \A k \in DOMAIN fetched' : fetched'[k] = k
                      /\ SumTo(Len(fetched')) <= INT_MAX => total' = SumTo(Len(fetched'))
    BY <1>3 DEF RightSum, program, SumTo
  <2>1. data = Len(fetched) + 1
    BY <1>1, <1>2, <1>3 DEF TakeTurns, Loops, Units
  <2>2. /\ SumTo(Len(fetched)) \in Nat
        /\ SumTo(Len(fetched')) = SumTo(Len(fetched)) + Len(fetched) + 1
    BY <1>2, <1>4, NextSum
  <2>3. ASSUME SumTo(Len(fetched')) <= INT_MAX
        PROVE  total' = SumTo(Len(fetched'))
    <3>1. total = SumTo(Len(fetched))
      BY <1>1, <1>2, <2>2, <2>3 DEF RightSum
    <3>2. total + data = SumTo(Len(fetched')) /\ total + data \in IntRange
      BY <1>2, <2>1, <2>2, <2>3, <3>1 DEF IntRange
    <3>3. QED
      BY <1>5, <3>2
  <2>4. QED
    BY <1>1, <1>2, <1>4, <2>1, <2>3 DEF RightSum
<1>10. FetchesNeverGoBack'
  BY <1>1, <1>2, <1>3, <1>4 DEF PCInv, FetchesNeverGoBack, Loops
<1>11. ReportedSums'
  BY <1>3 DEF PCInv, ReportedSums, SumTo, program
<1>12. QED
  BY <1>6, <1>7, <1>8, <1>9, <1>10, <1>11 DEF PCInv, ProdConsInv

(* By the time of the report all numbers are fetched.                      *)
LEMMA PCReportStep == ASSUME PCInv, Report PROVE PCInv'
<1> DEFINE twice == numIters * (numIters + 1)
           expected == Half(Wrap(twice))
<1>1. ProdConsTypeOK /\ TakeTurns /\ RightSum /\ Loops
  BY DEF PCInv, ProdConsInv
<1>2. /\ INT_MAX \in Nat \ {0} /\ numIters \in 0 .. INT_MAX - 1 /\ consumed \in 0 .. numIters
      /\ total \in IntRange /\ IntRange \subseteq Int
  BY <1>1, PCInts DEF ProdConsTypeOK, IntRange
<1>3. /\ cpc = "loop" /\ cpc' = "exited" /\ consumed >= numIters
      /\ reported' = <<total, expected>>
      /\ UNCHANGED <<program, empty, full, data, ppc, produced, consumed, total, fetched, mpc>>
  BY DEF Report, ReportAfter, ConsumerAt
<1>4. /\ SumTo(numIters) \in Nat /\ twice \in Nat /\ SumTo(numIters) <= twice
      /\ SumTo(numIters) = twice \div 2
  BY <1>2, NextSum DEF SumTo
<1>5. expected \in IntRange /\ (twice <= INT_MAX => expected = SumTo(numIters))
  <2> HIDE DEF twice
  <2>1. Wrap(twice) \in IntRange /\ (twice <= INT_MAX => Wrap(twice) = twice)
    BY <1>2, <1>4, WrapFits DEF IntRange
  <2>2. \A x \in IntRange : Half(x) \in IntRange
    BY <1>2 DEF Half, IntRange
  <2>3. twice <= INT_MAX => Half(twice) = twice \div 2
    BY <1>4 DEF Half
  <2>4. QED
    BY <2>1, <2>2, <2>3, <1>4
<1>6. Len(fetched) = numIters
  BY <1>1, <1>2, <1>3 DEF Loops, Units
<1>7. ProdConsTypeOK'
  BY <1>1, <1>2, <1>3, <1>5 DEF ProdConsTypeOK, program, IntRange
<1>8. TakeTurns' /\ Loops' /\ RightSum' /\ FetchesNeverGoBack'
  <2>1. TakeTurns'
    BY <1>1, <1>3 DEF TakeTurns, Units, program
  <2>2. Loops'
    BY <1>1, <1>3 DEF Loops, Units, program
  <2>3. RightSum' /\ FetchesNeverGoBack'
    BY <1>1, <1>3 DEF PCInv, RightSum, SumTo, FetchesNeverGoBack, program
  <2>4. QED
    BY <2>1, <2>2, <2>3
<1>9. ReportedSums'
  <2> SUFFICES ASSUME synchronized
               PROVE  /\ SumTo(numIters) <= INT_MAX => reported'[1] = SumTo(numIters)
                      /\ twice <= INT_MAX => reported'[1] = reported'[2]
    BY <1>3 DEF ReportedSums, program, SumTo
  <2>1. reported'[1] = total /\ reported'[2] = expected
    BY <1>3
  <2>2. SumTo(numIters) <= INT_MAX => total = SumTo(numIters)
    BY <1>1, <1>6 DEF RightSum
  <2>3. twice <= INT_MAX => SumTo(numIters) <= INT_MAX
    <3> HIDE DEF twice
    <3>1. QED
      BY <1>2, <1>4
  <2>4. QED
    BY <2>1, <2>2, <2>3, <1>5
<1>10. QED
  BY <1>7, <1>8, <1>9 DEF PCInv, ProdConsInv

LEMMA PCConsumerStep == ASSUME PCInv, Consumer PROVE PCInv'
<1>1. ProdConsTypeOK /\ TakeTurns /\ Loops
  BY DEF PCInv, ProdConsInv
<1>2. /\ INT_MAX \in Nat \ {0} /\ numIters \in 0 .. INT_MAX - 1
      /\ produced \in 1 .. numIters + 1 /\ consumed \in 0 .. numIters /\ data \in 0 .. numIters
      /\ empty \in {0, 1} /\ full \in {0, 1} /\ synchronized \in BOOLEAN
  BY <1>1, PCInts DEF ProdConsTypeOK
<1>3. ASSUME UNCHANGED <<program, data, ppc, produced, sums, mpc>>, TakeTurns',
             /\ cpc' \in {"loop", "load", "post", "exited"} /\ cpc # "unborn"
             /\ empty' \in {0, 1} /\ full' \in {0, 1} /\ consumed' \in 0 .. numIters
             /\ consumed' + Units(cpc' = "post") = consumed + Units(cpc = "post")
             /\ cpc' \in {"load", "post"} => consumed' < numIters
      PROVE  PCInv'
  <2>1. ProdConsTypeOK'
    BY <1>1, <1>3 DEF ProdConsTypeOK, program, sums
  <2>2. QED
    BY <1>1, <1>2, <1>3, <2>1, PCQuiet DEF Loops, program
<1>4. CASE WaitFull
  <2>1. /\ cpc = "loop" /\ cpc' = "load" /\ consumed < numIters
        /\ IF synchronized THEN full > 0 /\ full' = full - 1 ELSE full' = full
        /\ UNCHANGED <<program, data, ppc, produced, mpc, empty, consumed, sums>>
    BY <1>4 DEF WaitFull, ConsumerAt
  <2>2. TakeTurns'
    BY <1>1, <1>2, <2>1 DEF TakeTurns, Units, program
  <2>3. QED
    BY <1>1, <1>2, <1>3, <2>1, <2>2 DEF Units
<1>5. CASE PostEmpty
  <2>1. /\ cpc = "post" /\ cpc' = "loop" /\ consumed' = consumed + 1
        /\ empty' = IF synchronized THEN empty + 1 ELSE empty
        /\ UNCHANGED <<program, data, ppc, produced, mpc, full, sums>>
    BY <1>5 DEF PostEmpty, ConsumerAt
  <2>2. consumed < numIters /\ (synchronized => empty = 0)
    BY <1>1, <1>2, <2>1 DEF Loops, TakeTurns, Units
  <2>3. TakeTurns'
    BY <1>1, <1>2, <2>1, <2>2 DEF TakeTurns, Units, program
  <2>4. QED
    BY <1>1, <1>2, <1>3, <2>1, <2>2, <2>3 DEF Units
<1>6. QED
  BY <1>4, <1>5, PCFetchStep, PCReportStep DEF Consumer

LEMMA PCStep ==
  ASSUME PCInv, [ProdConsNext]_pcvars
  PROVE  PCInv'
<1>1. CASE UNCHANGED pcvars
  <2>1. /\ UNCHANGED <<empty, full, data, ppc, produced, cpc, consumed, mpc>>
        /\ UNCHANGED <<synchronized, numIters, total, fetched, reported>>
    BY <1>1 DEF pcvars, program, sums
  <2>2. ProdConsTypeOK' /\ TakeTurns' /\ RightSum' /\ Loops'
    BY <2>1 DEF PCInv, ProdConsInv, ProdConsTypeOK, TakeTurns, RightSum, Loops,
                Units, SumTo
  <2>3. FetchesNeverGoBack' /\ ReportedSums'
    BY <2>1 DEF PCInv, FetchesNeverGoBack, ReportedSums, SumTo
  <2>4. QED
    BY <2>2, <2>3 DEF PCInv, ProdConsInv
<1>2. QED
  BY <1>1, PCMainStep, PCProducerStep, PCConsumerStep DEF ProdConsNext, ProdConsTerminated

LEMMA PCInvariant == ProdConsSafety => []PCInv
<1>1. ProdConsInit => PCInv
  BY PCInitInv
<1>2. PCInv /\ [ProdConsNext]_pcvars => PCInv'
  BY PCStep
<1>3. QED
  BY <1>1, <1>2, PTL DEF ProdConsSafety

(* The invariant of both programs: the semaphores make the threads take    *)
(* turns, so that each number is fetched once, in order, and added to the  *)
(* sum of those before it (goodProducerConsumer.c:48-66).                  *)
THEOREM ProdConsInvariant ==
  ProdConsSafety => []ProdConsInv
BY PCInvariant, PTL DEF PCInv

(* With or without semaphores the consumer never goes back to an older     *)
(* number, nor ahead of the producer (badProducerConsumer.c:3-8, 53-64).   *)
THEOREM ProdConsNeverGoesBack ==
  ProdConsSafety => []FetchesNeverGoBack
BY PCInvariant, PTL DEF PCInv

(* With semaphores the consumer reports the right sum if it fits an int,   *)
(* and agrees with what it expects if twice the sum fits                   *)
(* (goodProducerConsumer.c:64-68).                                         *)
THEOREM ProdConsReports ==
  ProdConsSafety => []ReportedSums
BY PCInvariant, PTL DEF PCInv

(* The numbers that the producer has not stored yet                        *)
LEMMA PCTodo ==
  ASSUME NEW n \in Nat, NEW p \in 1 .. n
  PROVE  LET todo == [k \in 1 .. n + 1 - p |-> p + k - 1]
             rest == [k \in 1 .. n + 1 - (p + 1) |-> p + 1 + k - 1]
         IN todo # << >> /\ Head(todo) = p /\ Tail(todo) = rest
<1> DEFINE todo == [k \in 1 .. n + 1 - p |-> p + k - 1]
           rest == [k \in 1 .. n + 1 - (p + 1) |-> p + 1 + k - 1]
<1>1. /\ todo \in Seq(Int) /\ Len(todo) = n + 1 - p /\ todo[1] = p
      /\ rest \in Seq(Int) /\ Len(rest) = n - p
  OBVIOUS
<1>2. todo # << >>
  BY <1>1, EmptySeq
<1>3. /\ Head(todo) = p /\ Tail(todo) \in Seq(Int) /\ Len(Tail(todo)) = n - p
      /\ \A k \in 1 .. Len(Tail(todo)) : Tail(todo)[k] = todo[k + 1]
  <2> HIDE DEF todo
  <2>1. /\ Head(todo) \in Int /\ Tail(todo) \in Seq(Int) /\ Len(Tail(todo)) = Len(todo) - 1
        /\ \A k \in 1 .. Len(Tail(todo)) : Tail(todo)[k] = todo[k + 1]
    BY <1>1, <1>2, HeadTailProperties
  <2>2. Head(todo) = p
    BY <1>1, <1>2
  <2>3. QED
    BY <1>1, <2>1, <2>2
<1>4. \A k \in 1 .. n - p : Tail(todo)[k] = rest[k]
  BY <1>1, <1>3
<1>5. Tail(todo) = rest
  BY <1>1, <1>3, <1>4, SeqEqual
<1>6. QED
  BY <1>2, <1>3, <1>5

(* With semaphores the program implements the one-slot buffer: Deposit is  *)
(* Put, Fetch is Take, and all other steps leave the buffer as it is       *)
(* (goodProducerConsumer.c:48-66).                                         *)
THEOREM ProdConsRefinement ==
  ProdConsSafety => Buffer!Safety
<1>1. ProdConsInit => Buffer!Init
  BY DEF ProdConsInit, Buffer!Init, Slot
<1>2. ASSUME PCInv, [ProdConsNext]_pcvars
      PROVE  [Buffer!Put \/ Buffer!Take]_(Buffer!vars)
  <2>1. ProdConsTypeOK /\ TakeTurns /\ Loops
    BY <1>2 DEF PCInv, ProdConsInv
  <2>2. /\ INT_MAX \in Nat \ {0} /\ numIters \in 0 .. INT_MAX - 1
        /\ produced \in 1 .. numIters + 1 /\ data \in 0 .. numIters
        /\ empty \in {0, 1} /\ full \in {0, 1} /\ fetched \in Seq(0 .. numIters)
    BY <2>1, PCInts DEF ProdConsTypeOK
  <2>3. UNCHANGED <<synchronized, numIters>>
    BY <1>2 DEF ProdConsNext, MainProgram, Producer, WaitEmpty, Deposit, StoreData,
                PostFull, ProducerReturns, ProducerAt, Consumer, WaitFull,
                Fetch, PostEmpty, Report, ReportAfter, ConsumerAt,
                ProdConsTerminated, pcvars, program
  <2>4. CASE ~synchronized
    BY <2>3, <2>4 DEF Buffer!vars
  <2>5. CASE synchronized /\ Deposit
    <3>1. /\ ppc = "store" /\ ppc' = "post" /\ data' = produced
          /\ UNCHANGED <<empty, full, produced, cpc, fetched>>
      BY <2>5 DEF Deposit, StoreData, ProducerAt, sums
    <3>2. produced <= numIters /\ full = 0 /\ cpc # "load"
      BY <2>1, <2>2, <2>5, <3>1 DEF Loops, TakeTurns, Units
    <3>3. /\ Slot = << >> /\ Slot' = <<produced>>
          /\ NextItem = produced /\ NextItem' = produced + 1
      BY <3>1, <3>2 DEF Slot, NextItem
    <3>4. Buffer!Put
      <4> DEFINE todo == [k \in 1 .. numIters + 1 - NextItem |-> NextItem + k - 1]
      <4>1. todo # << >> /\ Head(todo) = produced /\ Tail(todo) = todo'
        <5>1. numIters \in Nat /\ produced \in 1 .. numIters
          BY <2>2, <3>2
        <5>2. /\ todo = [k \in 1 .. numIters + 1 - produced |-> produced + k - 1]
              /\ todo' = [k \in 1 .. numIters + 1 - (produced + 1) |-> produced + 1 + k - 1]
          BY <2>3, <3>3
        <5> HIDE DEF todo
        <5>3. QED
          BY <5>1, <5>2, PCTodo
      <4> HIDE DEF todo
      <4>2. (IF synchronized THEN todo ELSE << >>)' = Tail(todo)
        BY <2>3, <2>5, <4>1
      <4>3. QED
        BY <2>3, <2>5, <3>1, <3>3, <4>1, <4>2 DEF Buffer!Put, todo
    <3>5. QED
      BY <3>4
  <2>6. CASE synchronized /\ Fetch
    <3>1. /\ cpc = "load" /\ cpc' = "post" /\ fetched' = Append(fetched, data)
          /\ UNCHANGED <<empty, full, data, ppc, produced>>
      BY <2>6 DEF Fetch, ConsumerAt
    <3>2. full = 0 /\ ppc # "post"
      BY <2>1, <2>2, <2>6, <3>1 DEF TakeTurns, Units
    <3>3. /\ Slot = <<data>> /\ Slot' = << >> /\ NextItem' = NextItem
          /\ fetched' = fetched \o <<data>>
      BY <2>2, <3>1, <3>2, AppendIsConcat DEF Slot, NextItem
    <3>4. Buffer!Take
      BY <2>3, <2>6, <3>3 DEF Buffer!Take
    <3>5. QED
      BY <3>4
  <2>7. CASE synchronized /\ ~Deposit /\ ~Fetch
    <3>1. Slot' = Slot /\ NextItem' = NextItem /\ fetched' = fetched
      <4>1. CASE WaitEmpty \/ ProducerReturns
        BY <4>1 DEF WaitEmpty, ProducerReturns, ProducerAt, Slot, NextItem, sums
      <4>2. CASE PostFull
        <5>1. /\ ppc = "post" /\ ppc' = "loop" /\ full' = full + 1 /\ produced' = produced + 1
              /\ UNCHANGED <<data, cpc, fetched>>
          BY <2>7, <4>2 DEF PostFull, ProducerAt, sums
        <5>2. full = 0
          BY <2>1, <2>2, <2>7, <5>1 DEF TakeTurns, Units
        <5>3. QED
          BY <5>1, <5>2 DEF Slot, NextItem
      <4>3. CASE WaitFull
        <5>1. /\ full > 0 /\ full' = full - 1 /\ cpc' = "load"
              /\ UNCHANGED <<data, ppc, produced, fetched>>
          BY <2>7, <4>3 DEF WaitFull, ConsumerAt, sums
        <5>2. QED
          BY <2>2, <5>1 DEF Slot, NextItem
      <4>4. CASE PostEmpty \/ Report
        BY <4>4 DEF PostEmpty, Report, ReportAfter, ConsumerAt, Slot, NextItem,
                    sums
      <4>5. CASE MainProgram
        BY <2>1, <4>5 DEF MainProgram, Loops, Slot, NextItem, sums
      <4>6. CASE UNCHANGED pcvars
        BY <4>6 DEF pcvars, sums, Slot, NextItem
      <4>7. QED
        BY <1>2, <2>7, <4>1, <4>2, <4>3, <4>4, <4>5, <4>6
           DEF ProdConsNext, Producer, Consumer, ProdConsTerminated
    <3>2. QED
      BY <2>3, <3>1 DEF Buffer!vars
  <2>8. QED
    BY <2>4, <2>5, <2>6, <2>7
<1>3. QED
  BY <1>1, <1>2, PCInvariant, PTL DEF ProdConsSafety, Buffer!Safety

=============================================================================
