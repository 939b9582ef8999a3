------------------------ MODULE ThreadArgumentsProofs ------------------------
(***************************************************************************)
(* The programs that pass arguments to threads, for every number of        *)
(* threads: arguments passed by value or in packs of their own arrive, and *)
(* what arrives through the address of the loop variable is bounded by the *)
(* progress of main.                                                       *)
(***************************************************************************)
EXTENDS ThreadArguments, TLAPS

(* LateReads says nothing that the order of the loops does not imply when  *)
(* the thread reads; what follows the read has to be kept as well.         *)
IInv == ArgumentsInv /\ LateReads

(* What a thread reads next, if it has not read everything                 *)
LEMMA NextRead ==
  ASSUME ArgumentsInv, NEW t \in Threads, tpc[t] = "read"
  PROVE  /\ Arguments(t) = IF program = "bad" THEN <<i>> ELSE Own(t)
         /\ Len(Arguments(t)) = IF program = "packs" THEN 3 ELSE 1
         /\ \A k \in 1 .. Len(Arguments(t)) : Arguments(t)[k] \in Int
<1> USE DEF ArgumentsInv
<1>1. program \in {"bad", "good", "packs"} /\ i \in Int /\ t \in Int
  BY ThreadsAssumption DEF TypeOK, Threads
<1>2. Created(t) /\ (mpc = "fill" => program = "packs")
  BY DEF LoopsInOrder
<1>3. arg[t] = t
  BY <1>2 DEF LoopsInOrder
<1>4. program = "packs" => threadargs[t] = Pack(t)
  BY <1>2 DEF LoopsInOrder, Created, Filled
<1>5. CASE program = "bad"
  BY <1>1, <1>5 DEF Arguments
<1>6. CASE program = "good"
  BY <1>1, <1>3, <1>6 DEF Arguments, Own
<1>7. CASE program = "packs"
  <2>1. Arguments(t) = Pack(t) /\ Own(t) = Pack(t)
    BY <1>3, <1>4, <1>7 DEF Arguments, Own
  <2>2. Len(Pack(t)) = 3 /\ \A k \in 1 .. 3 : Pack(t)[k] \in Int
    BY <1>1 DEF Pack
  <2>3. QED
    BY <1>7, <2>1, <2>2
<1>8. QED
  BY <1>1, <1>5, <1>6, <1>7

(* The number printed is that of a thread, if it is below one.             *)
LEMMA PrintedThreads ==
  ASSUME ArgumentsInv, program = "bad", NEW u \in Threads, HasRead(u), Printed(u) < u
  PROVE  \A w \in 0 .. Printed(u) - 1 : w \in Threads
<1>1. values[u] \in Seq(Int) /\ Len(values[u]) = 1
  BY DEF ArgumentsInv, TypeOK, ReadsInOrder
<1>2. Printed(u) \in Int
  BY <1>1 DEF Printed
<1>3. QED
  BY <1>2, ThreadsAssumption DEF Threads

LEMMA ArgumentsInitInv == Init => IInv
<1> SUFFICES ASSUME Init PROVE IInv
  OBVIOUS
<1> USE ThreadsAssumption DEF Init
<1>1. TypeOK
  BY DEF TypeOK, Threads
<1>2. LoopsInOrder
  BY DEF LoopsInOrder, Created, Filled, Threads
<1>3. ReadsInOrder
  BY DEF ReadsInOrder, HasRead
<1>4. LateReads
  BY DEF LateReads, HasRead
<1>5. QED
  BY <1>1, <1>2, <1>3, <1>4 DEF IInv, ArgumentsInv

-----------------------------------------------------------------------------
(* The steps of main leave what the threads have read alone.               *)
LEMMA MainKeepsThreads ==
  ASSUME IInv, MainStep
  PROVE  /\ program' = program /\ values' = values
         /\ \A t \in Threads :
              \/ tpc'[t] = tpc[t]
              \/ tpc[t] = "unborn" /\ tpc'[t] = "read"
<1> USE DEF IInv, ArgumentsInv, TypeOK
<1>1. CASE CreateThread
  <2>1. i \in Threads /\ tpc[i] = "unborn"
    BY <1>1, ThreadsAssumption DEF CreateThread, LoopsInOrder, Created, Threads
  <2>2. QED
    BY <1>1, <2>1 DEF CreateThread
<1>2. CASE FillPack \/ NextThread \/ JoinThread \/ EndLoop
  BY <1>2 DEF FillPack, NextThread, JoinThread, JoinNext, EndLoop, EndLoopWith
<1>3. QED
  BY <1>1, <1>2 DEF MainStep

LEMMA MainKeepsOrder ==
  ASSUME IInv, MainStep
  PROVE  TypeOK' /\ LoopsInOrder'
<1> USE ThreadsAssumption DEF IInv, ArgumentsInv, Threads
<1>1. CASE FillPack
  <2>1. i \in Threads /\ i' = i + 1
    BY <1>1 DEF FillPack, TypeOK
  <2>2. TypeOK'
    BY <1>1, <2>1 DEF FillPack, TypeOK
  <2>3. LoopsInOrder'
    BY <1>1, <2>1 DEF FillPack, TypeOK, LoopsInOrder, Created, Filled
  <2>4. QED
    BY <2>2, <2>3
<1>2. CASE CreateThread
  <2>1. i \in Threads /\ i' = i
    BY <1>2 DEF CreateThread, TypeOK
  <2>2. TypeOK'
    BY <1>2, <2>1 DEF CreateThread, TypeOK
  <2>3. LoopsInOrder'
    BY <1>2, <2>1 DEF CreateThread, TypeOK, LoopsInOrder, Created, Filled
  <2>4. QED
    BY <2>2, <2>3
<1>3. CASE NextThread
  <2>1. i \in Threads /\ i' = i + 1
    BY <1>3 DEF NextThread, TypeOK, LoopsInOrder
  <2>2. TypeOK'
    <3>1. i' \in 0 .. NTHREADS
      BY <2>1
    <3>2. QED
      BY <1>3, <3>1 DEF NextThread, TypeOK
  <2>3. LoopsInOrder'
    <3>1. i \in Int /\ mpc = "created" /\ mpc' = "create"
          /\ UNCHANGED <<program, threadargs, arg, tpc>>
      BY <1>3 DEF NextThread, TypeOK
    <3>2. \A t \in Threads : (Created(t)' <=> Created(t)) /\ Filled(t)
      BY <2>1, <3>1 DEF Created, Filled
    <3>3. QED
      BY <3>1, <3>2 DEF LoopsInOrder
  <2>4. QED
    BY <2>2, <2>3
<1>4. CASE JoinThread
  <2>1. i \in Threads /\ i' = i + 1 /\ tpc[i] = "exited"
    BY <1>4 DEF JoinThread, JoinNext, TypeOK
  <2>2. TypeOK'
    <3>1. i' \in 0 .. NTHREADS /\ mpc = "join" /\ UNCHANGED <<program, mpc, threadargs, arg, tpc, values>>
      BY <1>4, <2>1 DEF JoinThread, JoinNext
    <3>2. QED
      BY <3>1 DEF TypeOK
  <2>3. LoopsInOrder'
    BY <1>4, <2>1 DEF JoinThread, JoinNext, TypeOK, LoopsInOrder, Created, Filled
  <2>4. QED
    BY <2>2, <2>3
<1>5. CASE EndLoop
  <2>1. i = NTHREADS /\ \A t \in Threads : t \in Int /\ 0 <= t /\ t < i
    BY <1>5 DEF EndLoop, EndLoopWith
  <2>2. TypeOK'
    <3>1. i' \in {0, NTHREADS} /\ mpc' \in {"create", "join", "done"}
      BY <1>5, <2>1 DEF EndLoop, EndLoopWith
    <3>2. UNCHANGED <<program, threadargs, arg, tpc, values>>
      BY <1>5 DEF EndLoop, EndLoopWith
    <3>3. i' \in 0 .. NTHREADS
      BY <3>1
    <3>4. QED
      BY <3>1, <3>2, <3>3 DEF TypeOK
  <2>3. LoopsInOrder'
    <3>1. CASE mpc = "fill"
      BY <1>5, <2>1, <3>1 DEF EndLoop, EndLoopWith, TypeOK, LoopsInOrder, Created, Filled
    <3>2. CASE mpc = "create"
      BY <1>5, <2>1, <3>2 DEF EndLoop, EndLoopWith, TypeOK, LoopsInOrder, Created, Filled
    <3>3. CASE mpc = "join"
      BY <1>5, <2>1, <3>3 DEF EndLoop, EndLoopWith, TypeOK, LoopsInOrder, Created, Filled
    <3>4. QED
      BY <1>5, <3>1, <3>2, <3>3 DEF EndLoop, EndLoopWith
  <2>4. QED
    BY <2>2, <2>3
<1>6. QED
  BY <1>1, <1>2, <1>3, <1>4, <1>5 DEF MainStep

LEMMA MainKeepsReads ==
  ASSUME IInv, MainStep
  PROVE  ReadsInOrder' /\ LateReads'
<1> USE MainKeepsThreads DEF IInv, ArgumentsInv
<1>1. \A t \in Threads : HasRead(t)' <=> HasRead(t)
  BY DEF HasRead
<1>2. ReadsInOrder'
  <2> SUFFICES ASSUME NEW t \in Threads
               PROVE  LET all == IF program = "packs" THEN 3 ELSE 1 IN
                        /\ Len(values[t]) <= all
                        /\ HasRead(t)' <=> Len(values[t]) = all
                        /\ program # "bad" =>
                             \A k \in 1 .. Len(values[t]) : values[t][k] = Own(t)[k]
    BY DEF ReadsInOrder, Own
  <2>1. QED
    BY <1>1 DEF ReadsInOrder
<1>3. LateReads'
  <2> SUFFICES ASSUME program = "bad", NEW u \in Threads, HasRead(u), Printed(u) < u
               PROVE  /\ \A w \in Threads : tpc'[w] # "unborn"
                      /\ \A w \in 0 .. Printed(u) - 1 : tpc'[w] = "exited"
    BY <1>1 DEF LateReads, Printed
  <2>1. /\ \A w \in Threads : tpc[w] # "unborn"
        /\ \A w \in 0 .. Printed(u) - 1 : w \in Threads /\ tpc[w] = "exited"
    BY PrintedThreads DEF LateReads
  <2>2. \A w \in Threads : tpc'[w] = tpc[w]
    BY <2>1
  <2>3. QED
    BY <2>1, <2>2
<1>4. QED
  BY <1>2, <1>3

-----------------------------------------------------------------------------
(* A thread reads its arguments one by one.                                *)
LEMMA ReadArgumentInv ==
  ASSUME IInv, NEW t \in Threads, ReadArgument(t)
  PROVE  IInv'
<1> USE DEF IInv, ArgumentsInv
<1> DEFINE all == IF program = "packs" THEN 3 ELSE 1
<1> DEFINE n == Len(values[t])
<1> DEFINE v == Arguments(t)[n + 1]
<1>1. /\ tpc[t] = "read"
      /\ UNCHANGED <<program, i, mpc, threadargs, arg>>
      /\ values' = [values EXCEPT ![t] = Append(values[t], v)]
      /\ values[t] \in Seq(Int) /\ n \in Nat
  BY DEF ReadArgument, TypeOK
<1>2. /\ Arguments(t) = IF program = "bad" THEN <<i>> ELSE Own(t)
      /\ Len(Arguments(t)) = all
      /\ \A k \in 1 .. all : Arguments(t)[k] \in Int
  BY <1>1, NextRead
<1>3. n + 1 <= all
  BY <1>1 DEF ReadsInOrder, HasRead
<1>4. v \in Int
  BY <1>1, <1>2, <1>3
<1>5. /\ values'[t] \in Seq(Int) /\ Len(values'[t]) = n + 1
      /\ \A k \in 1 .. n + 1 : values'[t][k] = IF k = n + 1 THEN v ELSE values[t][k]
      /\ \A u \in Threads \ {t} : values'[u] = values[u]
  BY <1>1, <1>4 DEF TypeOK
<1>6. /\ tpc'[t] = IF n + 1 = all THEN "print" ELSE "read"
      /\ tpc' \in [Threads -> {"unborn", "read", "print", "exited"}]
      /\ \A u \in Threads \ {t} : tpc'[u] = tpc[u]
  BY <1>2, <1>5 DEF ReadArgument, TypeOK
<1>7. TypeOK'
  <2>1. values' \in [Threads -> Seq(Int)]
    BY <1>1, <1>5 DEF TypeOK
  <2>2. QED
    BY <1>1, <1>6, <2>1 DEF TypeOK
<1>8. LoopsInOrder'
  BY <1>1, <1>6 DEF LoopsInOrder, Created, Filled
<1>9. ReadsInOrder'
  <2> SUFFICES ASSUME NEW u \in Threads
               PROVE  /\ Len(values'[u]) <= all
                      /\ HasRead(u)' <=> Len(values'[u]) = all
                      /\ program # "bad" =>
                           \A k \in 1 .. Len(values'[u]) : values'[u][k] = Own(u)[k]
    BY <1>1 DEF ReadsInOrder, Own
  <2>1. CASE u # t
    BY <1>5, <1>6, <2>1 DEF ReadsInOrder, HasRead
  <2>2. CASE u = t
    <3>1. HasRead(u)' <=> Len(values'[u]) = all
      BY <1>5, <1>6, <2>2 DEF HasRead
    <3>2. ASSUME program # "bad", NEW k \in 1 .. n + 1
          PROVE  values'[t][k] = Own(t)[k]
      <4>1. \A a \in 1 .. n : values[t][a] = Own(t)[a]
        BY <3>2 DEF ReadsInOrder
      <4>2. v = Own(t)[n + 1]
        BY <1>2, <3>2
      <4>3. values'[t][k] = IF k = n + 1 THEN v ELSE values[t][k]
        BY <1>5
      <4>4. QED
        BY <1>1, <4>1, <4>2, <4>3
    <3>3. QED
      BY <1>3, <1>5, <2>2, <3>1, <3>2
  <2>3. QED
    BY <2>1, <2>2
<1>10. LateReads'
  <2> SUFFICES ASSUME program = "bad", NEW u \in Threads, HasRead(u)', Printed(u)' < u
               PROVE  /\ \A w \in Threads : tpc'[w] # "unborn"
                      /\ \A w \in 0 .. Printed(u)' - 1 : tpc'[w] = "exited"
    BY <1>1 DEF LateReads
  <2>1. CASE u # t
    <3>1. HasRead(u) /\ Printed(u)' = Printed(u)
      BY <1>5, <1>6, <2>1 DEF HasRead, Printed
    <3>2. /\ \A w \in Threads : tpc[w] # "unborn"
          /\ \A w \in 0 .. Printed(u) - 1 : w \in Threads /\ tpc[w] = "exited"
      BY <3>1, PrintedThreads DEF LateReads
    <3>3. \A w \in Threads : tpc[w] # "unborn" => tpc'[w] # "unborn"
      BY <1>6
    <3>4. \A w \in 0 .. Printed(u) - 1 : tpc'[w] = "exited"
      <4> SUFFICES ASSUME NEW w \in 0 .. Printed(u) - 1 PROVE tpc'[w] = "exited"
        OBVIOUS
      <4>1. w \in Threads /\ w # t
        BY <1>1, <3>2
      <4>2. QED
        BY <1>6, <3>2, <4>1
    <3>5. QED
      BY <3>1, <3>2, <3>3, <3>4
  <2>2. CASE u = t
    <3>1. n = 0 /\ Printed(u)' = i
      BY <1>1, <1>2, <1>3, <1>5, <2>2 DEF Printed
    <3>2. i < t /\ t \in Int /\ i \in Int /\ tpc[t] # "unborn" /\ i \in 0 .. NTHREADS
      BY <1>1, <2>2, <3>1, ThreadsAssumption DEF Threads, TypeOK
    <3>3. Created(t)
      BY <3>2 DEF LoopsInOrder
    <3>4. mpc \in {"join", "done"}
      BY <3>2, <3>3 DEF Created
    <3>5. /\ \A w \in Threads : tpc[w] # "unborn"
          /\ \A w \in Threads : w < i => tpc[w] = "exited"
      BY <3>4 DEF LoopsInOrder, Created
    <3>6. \A w \in 0 .. i - 1 : w \in Threads /\ w < i
      BY <3>2, ThreadsAssumption DEF Threads
    <3>7. QED
      BY <1>1, <1>6, <3>1, <3>5, <3>6
  <2>3. QED
    BY <2>1, <2>2
<1>11. QED
  BY <1>7, <1>8, <1>9, <1>10

LEMMA SayHelloInv ==
  ASSUME IInv, NEW t \in Threads, SayHello(t)
  PROVE  IInv'
<1> USE DEF IInv, ArgumentsInv
<1>1. /\ UNCHANGED <<program, i, mpc, threadargs, arg, values>>
      /\ tpc[t] = "print" /\ tpc' \in [Threads -> {"unborn", "read", "print", "exited"}]
      /\ \A u \in Threads : /\ HasRead(u)' <=> HasRead(u)
                            /\ tpc[u] = "unborn" <=> tpc'[u] = "unborn"
                            /\ tpc[u] = "exited" => tpc'[u] = "exited"
  BY DEF SayHello, TypeOK, HasRead
<1>2. TypeOK'
  BY <1>1 DEF TypeOK
<1>3. LoopsInOrder'
  BY <1>1 DEF LoopsInOrder, Created, Filled
<1>4. ReadsInOrder'
  BY <1>1 DEF ReadsInOrder, Own
<1>5. LateReads'
  <2> SUFFICES ASSUME program = "bad", NEW u \in Threads, HasRead(u), Printed(u) < u
               PROVE  /\ \A w \in Threads : tpc'[w] # "unborn"
                      /\ \A w \in 0 .. Printed(u) - 1 : tpc'[w] = "exited"
    BY <1>1 DEF LateReads, Printed
  <2>1. \A w \in 0 .. Printed(u) - 1 : tpc[w] = "exited" /\ w # t
    BY <1>1 DEF LateReads
  <2>2. \A w \in 0 .. Printed(u) - 1 : tpc'[w] = tpc[w]
    BY <2>1 DEF SayHello, TypeOK
  <2>3. QED
    BY <1>1, <2>1, <2>2 DEF LateReads
<1>6. QED
  BY <1>2, <1>3, <1>4, <1>5

-----------------------------------------------------------------------------
LEMMA ArgumentsNextInv == IInv /\ [Next]_vars => IInv'
<1> SUFFICES ASSUME IInv, [Next]_vars PROVE IInv'
  OBVIOUS
<1>1. CASE MainStep
  BY <1>1, MainKeepsOrder, MainKeepsReads DEF IInv, ArgumentsInv
<1>2. ASSUME NEW t \in Threads, ThreadStep(t) PROVE IInv'
  BY <1>2, ReadArgumentInv, SayHelloInv DEF ThreadStep
<1>3. CASE UNCHANGED vars
  BY <1>3 DEF vars, IInv, ArgumentsInv, TypeOK, LoopsInOrder, ReadsInOrder, LateReads,
              Created, Filled, HasRead, Printed, Own
<1>4. QED
  BY <1>1, <1>2, <1>3 DEF Next, Terminated

(* The invariant holds of all three programs, whatever the interleaving of *)
(* main with the threads (badHelloWorld.c, goodHelloWorld.c,               *)
(* multiArgumentThreads.c).                                                *)
THEOREM ArgumentsInvariant == Safety => []IInv
BY ArgumentsInitInv, ArgumentsNextInv, PTL DEF Safety

(* A value, and a pack filled before the threads are created, arrive at    *)
(* the thread they are meant for (goodHelloWorld.c:31-33,                  *)
(* multiArgumentThreads.c:46-56).                                          *)
THEOREM ThreadsGetOwnArguments == Safety => []OwnArguments
<1>1. IInv => OwnArguments
  <2> SUFFICES ASSUME IInv, program # "bad", NEW t \in Threads, HasRead(t)
               PROVE  values[t] = Own(t)
    BY DEF OwnArguments
  <2> DEFINE all == IF program = "packs" THEN 3 ELSE 1
  <2>1. values[t] \in Seq(Int) /\ program \in {"good", "packs"}
    BY DEF IInv, ArgumentsInv, TypeOK
  <2>2. t \in Int
    BY ThreadsAssumption DEF Threads
  <2>3. Len(values[t]) = all /\ \A k \in 1 .. Len(values[t]) : values[t][k] = Own(t)[k]
    BY DEF IInv, ArgumentsInv, ReadsInOrder
  <2>4. Own(t) \in Seq(Int) /\ Len(Own(t)) = all
    BY <2>1, <2>2 DEF Own, Pack
  <2>5. QED
    BY <2>1, <2>3, <2>4
<1>2. QED
  BY <1>1, ArgumentsInvariant, PTL

(* A thread that is passed the address of the loop variable prints a       *)
(* number below its own only after all threads below that number have      *)
(* ended (badHelloWorld.c:48-54).                                          *)
THEOREM ThreadsReadLate == Safety => []LateReads
<1>1. IInv => LateReads
  BY DEF IInv
<1>2. QED
  BY <1>1, ArgumentsInvariant, PTL

(* main is not done before every thread has ended, so the memory that it   *)
(* passed the addresses of is there as long as a thread may read it        *)
(* (badHelloWorld.c:52-56, goodHelloWorld.c:35-39,                         *)
(* multiArgumentThreads.c:58-63): the safety part of GoodbyeAfterAll.      *)
THEOREM MainEndsLast ==
  Safety => [](mpc = "done" => \A t \in Threads : tpc[t] = "exited")
<1>1. ASSUME IInv, mpc = "done", NEW t \in Threads PROVE tpc[t] = "exited"
  <2>1. i = NTHREADS /\ t < NTHREADS
    BY <1>1, ThreadsAssumption DEF IInv, ArgumentsInv, LoopsInOrder, Threads
  <2>2. QED
    BY <1>1, <2>1 DEF IInv, ArgumentsInv, LoopsInOrder
<1>2. IInv => (mpc = "done" => \A t \in Threads : tpc[t] = "exited")
  BY <1>1
<1>3. QED
  BY <1>2, ArgumentsInvariant, PTL
=============================================================================
